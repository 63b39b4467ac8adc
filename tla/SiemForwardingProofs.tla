------------------------ MODULE SiemForwardingProofs ------------------------
(***************************************************************************)
(* Machine-checked proofs about SiemForwarding, for any number of          *)
(* transactions, records and findings and any batch limit: a watermark     *)
(* never passes what the collector has not taken.  They rest on the audit  *)
(* log's: records become visible in the order of their ids.                *)
(***************************************************************************)
EXTENDS SiemForwarding, AuditLogProofs

----------------------------------------------------------------------------
(* The inductive invariant *)

Old(n) == n + Lag <= clock

\* The audit half.  A committed watermark stands at a committed record and speaks
\* for all below it ...
AuditCommitted ==
    /\ mark["audit"] = 0 \/ \E r \in rows : r.id = mark["audit"]
    /\ AuditNeverSkipped

\* ... one that is not committed yet does, for all its transaction sees ...
AuditWritten(t) ==
    mlock["audit"] = t =>
        /\ mnew["audit"] \in AuditIds(t)
        /\ \A i \in AuditIds(t) : i <= mnew["audit"] => i \in sent

\* ... and what a run has read continues what was sent, leaving out nothing below it.
AuditRead(t) ==
    /\ fw[t].audit \subseteq AuditIds(t)
    /\ \A a \in fw[t].audit : \A i \in AuditIds(t) : i <= a => i \in sent \cup fw[t].audit
    /\ fw[t].pc \in {"select", "write"} => fw[t].audit \subseteq sent

AuditHalf == AuditCommitted /\ \A t \in Tx : AuditWritten(t) /\ AuditRead(t)

\* What a transaction may see and yet not find sent below a watermark it speaks for:
\* what Lost(f) names, and what is its own and will be late when it commits.
Excused(t, f) ==
    \/ f \in late
    \/ f \in fmine[t] /\ Overdue(f)
    \/ \E g \in Found(t) \ {f} : g.at = f.at

\* The findings half says the same of findings; what is read is as old as the lag, so
\* what becomes visible below it afterwards is late.
FoundCommitted ==
    /\ mark["findings"] = 0 \/ \E g \in findings : g.at = mark["findings"] /\ Old(g.at)
    /\ FindingsNeverSkipped

FoundWritten(t) ==
    mlock["findings"] = t =>
        /\ \E g \in Found(t) : g.at = mnew["findings"] /\ Old(g.at)
        /\ \A f \in Found(t) : f.at <= mnew["findings"] => f \in fsent \/ Excused(t, f)

FoundRead(t) ==
    /\ fw[t].cutoff = 0 \/ Old(fw[t].cutoff)
    /\ fw[t].found \subseteq {g \in Found(t) : Old(g.at)}
    /\ \A g \in fw[t].found : \A f \in Found(t) :
           f.at <= g.at => f \in fsent \cup fw[t].found \/ Excused(t, f)
    /\ fw[t].pc \in {"select", "write"} => fw[t].found \subseteq fsent

FoundHalf == FoundCommitted /\ \A t \in Tx : FoundWritten(t) /\ FoundRead(t)

\* A run that has to write a watermark has sent something; one that is over has
\* left nothing behind.
Shape(t) ==
    /\ fw[t].pc = "idle" => fw[t] = FwIdle
    /\ fw[t].pc = "findings" => fw[t].found = {}
    /\ fw[t].pc = "send" => fw[t].audit # {} \/ fw[t].found # {}
    /\ fw[t].pc \in {"select", "write"} =>
          /\ fw[t].todo # {}
          /\ "audit" \in fw[t].todo => fw[t].audit # {}
          /\ "findings" \in fw[t].todo => fw[t].found # {}

FInv == /\ IInv /\ ForwardTypeOK /\ \A t \in Tx : Shape(t)
        /\ AuditHalf
        /\ FoundHalf

----------------------------------------------------------------------------
(* The audit log goes on underneath *)

\* Forwarding takes the audit log's own steps and no others.
LEMMA LogStep == ForwardNext \/ UNCHANGED all => [Next]_vars
<1>1. ASSUME NEW t \in Tx, Record(t) PROVE Next
  BY <1>1 DEF Record, Next
<1>2. ASSUME NEW t \in Tx, CommitPass(t) \/ RollBackPass(t) PROVE Next
  BY <1>2 DEF CommitPass, RollBackPass, Next
<1>3. ASSUME NEW t \in Tx, NewFinding(t) \/ Forward(t) PROVE UNCHANGED vars
  BY <1>3 DEF NewFinding, Forward, ReadAudit, ReadFindings, Send, SendFails, SelectMark,
              WriteMark, Forwards
<1>4. Tick => UNCHANGED vars
  BY DEF Tick
<1> QED BY <1>1, <1>2, <1>3, <1>4 DEF ForwardNext, all

\* A set of numbers with an upper bound has a last one.
LEMMA LastNumber ==
    ASSUME NEW N \in Nat, NEW S, S \subseteq 0..N, S # {}
    PROVE  \E m \in S : \A x \in S : x <= m
<1> DEFINE Above == {N - m : m \in S}
<1>0. \A m \in S : m \in Nat /\ m <= N
  OBVIOUS
<1>1. Above \subseteq Nat /\ Above # {}
  <2>1. \A m \in S : N - m \in Nat
    BY <1>0
  <2> QED BY <2>1
<1>2. PICK x \in Above : \A y \in Above : ~ (<<y, x>> \in OpToRel(<, Nat))
  <2> HIDE DEF Above
  <2> QED BY <1>1, NatLessThanWellFounded, WFMin, Zenon
<1>3. \A y \in Above : x <= y
  <2> SUFFICES ASSUME NEW y \in Above PROVE x <= y
    OBVIOUS
  <2>1. x \in Nat /\ y \in Nat
    BY <1>1
  <2>2. ~ (y < x)
    BY <2>1, <1>2 DEF OpToRel
  <2> HIDE DEF Above
  <2> QED BY <2>1, <2>2
<1>4. PICK m \in S : x = N - m
  OBVIOUS
<1>5. ASSUME NEW z \in S PROVE z <= m
  <2>1. N - m <= N - z
    BY <1>3, <1>4
  <2>2. m \in Nat /\ z \in Nat
    BY <1>0
  <2> HIDE DEF Above
  <2> QED BY <2>1, <2>2
<1> QED BY <1>5

----------------------------------------------------------------------------
(* Types *)

LEMMA IdleRun == FwIdle \in ForwardRun
BY DEF FwIdle, ForwardRun

\* The initial state is well typed.
LEMMA InitForwardType == ForwardInit /\ TypeOK => ForwardTypeOK
<1> SUFFICES ASSUME ForwardInit, TypeOK PROVE ForwardTypeOK
  OBVIOUS
<1>1. clock \in 1..MaxClock /\ nfind \in 0..MaxFindings
  BY ForwardAssumption DEF ForwardAssumption, ForwardInit
<1>2. mark \in [Key -> Nat] /\ mnew \in [Key -> Nat] /\ mlock \in [Key -> Tx \cup {NoTx}]
  BY DEF ForwardInit
<1>3. fw \in [Tx -> ForwardRun] /\ fmine \in [Tx -> SUBSET Finding] /\ late \subseteq Finding
  BY IdleRun DEF ForwardInit
<1> QED BY <1>1, <1>2, <1>3 DEF ForwardInit, ForwardTypeOK

\* What a run reads, it can hold.
LEMMA ReadTypes ==
    ASSUME ForwardTypeOK, NEW t \in Tx
    PROVE  /\ AuditIds(t) \subseteq 1..MaxId
           /\ Found(t) \subseteq Finding
           /\ \A k \in Key : Watermark(t, k) \in Nat
BY DEF ForwardTypeOK, TypeOK, AuditIds, View, Entry, Found, Watermark

\* The last thing sent is one of the things sent, and the last.
LEMMA LastSentIsLast ==
    ASSUME ForwardTypeOK, NEW t \in Tx
    PROVE  /\ fw[t].audit # {} => /\ LastSent(t, "audit") \in fw[t].audit
                                  /\ \A i \in fw[t].audit : i <= LastSent(t, "audit")
           /\ fw[t].found # {} => /\ \E g \in fw[t].found : LastSent(t, "findings") = g.at
                                  /\ \A g \in fw[t].found : g.at <= LastSent(t, "findings")
<1>1. /\ fw[t] \in ForwardRun
      /\ fw[t].audit \subseteq 1..MaxId /\ fw[t].found \subseteq Finding
  BY DEF ForwardTypeOK, ForwardRun
<1>2. ASSUME fw[t].audit # {}
      PROVE  \E m \in fw[t].audit : \A i \in fw[t].audit : i <= m
  <2>1. fw[t].audit \subseteq 0..MaxId /\ MaxId \in Nat
    BY <1>1, BoundAssumption DEF BoundAssumption
  <2> QED BY <1>2, <2>1, LastNumber
<1>3. ASSUME fw[t].found # {}
      PROVE  \E f \in fw[t].found : \A g \in fw[t].found : g.at <= f.at
  <2> DEFINE S == {f.at : f \in fw[t].found}
  <2>1. S \subseteq 0..MaxClock /\ MaxClock \in Nat /\ S # {}
    BY <1>1, <1>3, ForwardAssumption DEF ForwardAssumption, Finding
  <2> HIDE DEF S
  <2>2. PICK m \in S : \A x \in S : x <= m
    BY <2>1, LastNumber
  <2> USE DEF S
  <2>3. PICK f \in fw[t].found : m = f.at
    BY <2>2
  <2> QED BY <2>2, <2>3
<1> QED BY <1>2, <1>3 DEF LastSent

\* The watermark that is written is a number.
LEMMA LastSentType ==
    ASSUME ForwardTypeOK, NEW t \in Tx, Shape(t), fw[t].pc = "write"
    PROVE  NextKey(t) \in fw[t].todo /\ NextKey(t) \in Key /\ LastSent(t, NextKey(t)) \in Nat
<1>1. fw[t].todo \subseteq Key /\ fw[t].todo # {}
  BY DEF ForwardTypeOK, ForwardRun, Shape
<1>2. NextKey(t) \in fw[t].todo
  BY <1>1 DEF NextKey, Key
<1>3. fw[t].audit \subseteq Nat /\ \A g \in fw[t].found : g.at \in Nat
  BY DEF ForwardTypeOK, ForwardRun, Finding
<1> QED BY <1>1, <1>2, <1>3, LastSentIsLast DEF Shape, Key

\* Every step keeps the types.
LEMMA ForwardTypeStep ==
    ASSUME FInv, TypeOK', ForwardNext \/ UNCHANGED all
    PROVE  ForwardTypeOK'
<1> USE ForwardAssumption, BoundAssumption DEF ForwardAssumption, BoundAssumption
<1>0. ForwardTypeOK /\ \A t \in Tx : Shape(t)
  BY DEF FInv
<1>1. ASSUME NEW t \in Tx, Record(t) \/ CommitPass(t) \/ RollBackPass(t) PROVE ForwardTypeOK'
  <2>1. CASE Record(t)
    BY <1>0, <2>1 DEF Record, ForwardTypeOK, fwd
  <2>2. CASE CommitPass(t)
    <3>1. mark' \in [Key -> Nat] /\ mlock' \in [Key -> Tx \cup {NoTx}]
      BY <1>0, <2>2, ReadTypes DEF CommitPass, FreeMarks, ForwardTypeOK
    <3>2. /\ findings' \subseteq Finding /\ fmine' \in [Tx -> SUBSET Finding]
          /\ late' \subseteq Finding
      BY <1>0, <2>2 DEF CommitPass, ForwardTypeOK
    <3> QED BY <1>0, <2>2, <3>1, <3>2 DEF CommitPass, ForwardTypeOK
  <2>3. CASE RollBackPass(t)
    <3>1. mlock' \in [Key -> Tx \cup {NoTx}] /\ fw' \in [Tx -> ForwardRun]
      BY <1>0, <2>3, IdleRun DEF RollBackPass, FreeMarks, ForwardTypeOK
    <3> QED BY <1>0, <2>3, <3>1 DEF RollBackPass, ForwardTypeOK
  <2> QED BY <1>1, <2>1, <2>2, <2>3
<1>2. ASSUME NEW t \in Tx, NewFinding(t) PROVE ForwardTypeOK'
  <2>1. nfind' \in 1..MaxFindings /\ clock \in 1..MaxClock
    BY <1>0, <1>2 DEF NewFinding, ForwardTypeOK
  <2>2. [n |-> nfind', at |-> clock] \in Finding
    BY <2>1 DEF Finding
  <2> QED BY <1>0, <1>2, <2>1, <2>2 DEF NewFinding, ForwardTypeOK, vars, log
<1>3. ASSUME Tick PROVE ForwardTypeOK'
  BY <1>0, <1>3 DEF Tick, ForwardTypeOK
<1>4. ASSUME NEW t \in Tx, ReadAudit(t) PROVE ForwardTypeOK'
  <2>1. PICK b \in FirstIds({i \in AuditIds(t) : i > Watermark(t, "audit")}, Limit) :
           fw' = [fw EXCEPT ![t] = [FwIdle EXCEPT !.pc = "findings", !.audit = b,
                                                  !.cutoff = IF clock > Lag THEN clock - Lag ELSE 0]]
    BY <1>4 DEF ReadAudit
  <2> DEFINE c == IF clock > Lag THEN clock - Lag ELSE 0
  <2>2. c \in Nat /\ b \subseteq 1..MaxId
    <3>1. clock \in Nat /\ AuditIds(t) \subseteq 1..MaxId
      BY <1>0, ReadTypes DEF ForwardTypeOK
    <3>2. c \in Nat
      BY <3>1
    <3> HIDE DEF c
    <3> QED BY <3>1, <3>2 DEF FirstIds
  <2>3. fw' = [fw EXCEPT ![t] = [FwIdle EXCEPT !.pc = "findings", !.audit = b, !.cutoff = c]]
    BY <2>1
  <2> HIDE DEF c
  <2>4. fw' \in [Tx -> ForwardRun]
    <3>1. [FwIdle EXCEPT !.pc = "findings", !.audit = b, !.cutoff = c] \in ForwardRun
      BY <2>2 DEF ForwardRun, FwIdle
    <3> QED BY <1>0, <2>3, <3>1 DEF ForwardTypeOK
  <2> QED BY <1>0, <1>4, <2>4 DEF ReadAudit, Forwards, ForwardTypeOK
<1>5. ASSUME NEW t \in Tx, ReadFindings(t) PROVE ForwardTypeOK'
  <2>1. PICK b \in FirstFound({f \in Found(t) : /\ f.at <= fw[t].cutoff
                                                /\ f.at > Watermark(t, "findings")}, Limit) :
           fw' = [fw EXCEPT ![t] = IF fw[t].audit = {} /\ b = {} THEN FwIdle
                                   ELSE [@ EXCEPT !.found = b, !.pc = "send"]]
    BY <1>5 DEF ReadFindings
  <2>2. b \subseteq Finding
    BY <1>0, ReadTypes DEF FirstFound
  <2>3. fw' \in [Tx -> ForwardRun]
    <3>1. fw[t] \in ForwardRun
      BY <1>0 DEF ForwardTypeOK
    <3>2. [fw[t] EXCEPT !.found = b, !.pc = "send"] \in ForwardRun
      BY <2>2, <3>1 DEF ForwardRun
    <3> QED BY <1>0, <2>1, <3>2, IdleRun DEF ForwardTypeOK
  <2> QED BY <1>0, <1>5, <2>3 DEF ReadFindings, Forwards, ForwardTypeOK
<1>6. ASSUME NEW t \in Tx, Send(t) PROVE ForwardTypeOK'
  <2>1. ToMark(t) \in SUBSET Key
    BY DEF ToMark
  <2>2. fw' \in [Tx -> ForwardRun]
    <3>1. fw[t] \in ForwardRun
      BY <1>0 DEF ForwardTypeOK
    <3>2. [fw[t] EXCEPT !.pc = "select", !.todo = ToMark(t)] \in ForwardRun
      BY <2>1, <3>1 DEF ForwardRun
    <3> QED BY <1>0, <1>6, <3>2 DEF Send, ForwardTypeOK
  <2>3. sent' \subseteq 1..MaxId /\ fsent' \subseteq Finding
    BY <1>0, <1>6 DEF Send, ForwardTypeOK, ForwardRun
  <2> QED BY <1>0, <1>6, <2>2, <2>3 DEF Send, Forwards, ForwardTypeOK
<1>7. ASSUME NEW t \in Tx, SendFails(t) \/ SelectMark(t) PROVE ForwardTypeOK'
  <2>1. fw' \in [Tx -> ForwardRun]
    <3>1. CASE SendFails(t)
      BY <1>0, <3>1, IdleRun DEF SendFails, ForwardTypeOK
    <3>2. CASE SelectMark(t)
      <4> DEFINE seen == Watermark(t, NextKey(t)) > 0
      <4>1. fw' = [fw EXCEPT ![t] = [@ EXCEPT !.pc = "write", !.seen = seen]]
        BY <3>2 DEF SelectMark
      <4>2. seen \in BOOLEAN
        OBVIOUS
      <4> HIDE DEF seen
      <4> QED BY <1>0, <4>1, <4>2 DEF ForwardTypeOK, ForwardRun
    <3> QED BY <1>7, <3>1, <3>2
  <2> QED BY <1>0, <1>7, <2>1 DEF SendFails, SelectMark, Forwards, ForwardTypeOK
<1>8. ASSUME NEW t \in Tx, WriteMark(t) PROVE ForwardTypeOK'
  <2>1. NextKey(t) \in Key /\ LastSent(t, NextKey(t)) \in Nat
    BY <1>0, <1>8, LastSentType DEF WriteMark
  <2>2. mnew' \in [Key -> Nat] /\ mlock' \in [Key -> Tx \cup {NoTx}]
    BY <1>0, <1>8, <2>1 DEF WriteMark, ForwardTypeOK
  <2>3. fw' \in [Tx -> ForwardRun]
    <3>1. fw' = [fw EXCEPT ![t] = IF fw[t].todo = {NextKey(t)} THEN FwIdle
                                  ELSE [fw[t] EXCEPT !.todo = fw[t].todo \ {NextKey(t)},
                                                     !.pc = "select"]]
      BY <1>8 DEF WriteMark
    <3>2. fw[t] \in ForwardRun /\ fw \in [Tx -> ForwardRun]
      BY <1>0 DEF ForwardTypeOK
    <3>3. [fw[t] EXCEPT !.todo = fw[t].todo \ {NextKey(t)}, !.pc = "select"] \in ForwardRun
      BY <3>2 DEF ForwardRun
    <3> QED BY <3>1, <3>2, <3>3, IdleRun
  <2> QED BY <1>0, <1>8, <2>2, <2>3 DEF WriteMark, Forwards, ForwardTypeOK
<1>9. ASSUME UNCHANGED all PROVE ForwardTypeOK'
  BY <1>0, <1>9 DEF all, fwd, ForwardTypeOK
<1> QED BY <1>1, <1>2, <1>3, <1>4, <1>5, <1>6, <1>7, <1>8, <1>9 DEF ForwardNext, Forward


\* Every step keeps the shape of a run.
LEMMA ShapeStep ==
    ASSUME FInv, ForwardNext \/ UNCHANGED all, NEW u \in Tx
    PROVE  Shape(u)'
<1>0. ForwardTypeOK /\ Shape(u) /\ fw \in [Tx -> ForwardRun]
  BY DEF FInv, ForwardTypeOK
<1>1. CASE fw'[u] = fw[u]
  BY <1>0, <1>1 DEF Shape
<1>2. CASE fw'[u] = FwIdle
  BY <1>2 DEF Shape, FwIdle
<1>3. ASSUME ReadAudit(u) PROVE Shape(u)'
  BY <1>0, <1>3 DEF ReadAudit, Shape, FwIdle
<1>4. ASSUME ReadFindings(u), fw'[u] # FwIdle PROVE Shape(u)'
  <2>1. PICK b \in FirstFound({f \in Found(u) : /\ f.at <= fw[u].cutoff
                                                /\ f.at > Watermark(u, "findings")}, Limit) :
           fw' = [fw EXCEPT ![u] = IF fw[u].audit = {} /\ b = {} THEN FwIdle
                                   ELSE [@ EXCEPT !.found = b, !.pc = "send"]]
    BY <1>4 DEF ReadFindings
  <2>2. ~ (fw[u].audit = {} /\ b = {}) /\ fw'[u] = [fw[u] EXCEPT !.found = b, !.pc = "send"]
    BY <1>0, <1>4, <2>1
  <2>3. fw'[u].pc = "send" /\ fw'[u].audit = fw[u].audit /\ fw'[u].found = b
    BY <1>0, <2>2 DEF ForwardRun
  <2> QED BY <2>2, <2>3 DEF Shape
<1>5. ASSUME Send(u) PROVE Shape(u)'
  <2>1. /\ fw'[u].pc = "select" /\ fw'[u].todo = ToMark(u)
        /\ fw'[u].audit = fw[u].audit /\ fw'[u].found = fw[u].found
    BY <1>0, <1>5 DEF Send, ForwardRun
  <2>2. fw[u].audit # {} \/ fw[u].found # {}
    BY <1>0, <1>5 DEF Shape, Send
  <2> QED BY <2>1, <2>2 DEF Shape, ToMark, Key
<1>6. ASSUME SelectMark(u) PROVE Shape(u)'
  <2>1. /\ fw'[u].pc = "write" /\ fw'[u].todo = fw[u].todo
        /\ fw'[u].audit = fw[u].audit /\ fw'[u].found = fw[u].found
    BY <1>0, <1>6 DEF SelectMark, ForwardRun
  <2> QED BY <1>0, <1>6, <2>1 DEF Shape, SelectMark
<1>7. ASSUME WriteMark(u), fw'[u] # FwIdle PROVE Shape(u)'
  <2>1. /\ fw'[u].pc = "select" /\ fw'[u].todo = fw[u].todo \ {NextKey(u)}
        /\ fw'[u].audit = fw[u].audit /\ fw'[u].found = fw[u].found
        /\ fw[u].todo # {NextKey(u)}
    BY <1>0, <1>7 DEF WriteMark, ForwardRun
  <2> QED BY <1>0, <1>7, <2>1 DEF Shape, WriteMark
<1>8. ASSUME NEW t \in Tx, RollBackPass(t) PROVE fw'[u] \in {fw[u], FwIdle}
  BY <1>0, <1>8 DEF RollBackPass
<1>9. ASSUME NEW t \in Tx, Forward(t), t # u PROVE fw'[u] = fw[u]
  BY <1>0, <1>9 DEF Forward, ReadAudit, ReadFindings, Send, SendFails, SelectMark, WriteMark
<1>10. SendFails(u) => fw'[u] = FwIdle
  BY <1>0 DEF SendFails
<1>11. ASSUME NEW t \in Tx, Record(t) \/ NewFinding(t) \/ CommitPass(t) PROVE fw' = fw
  BY <1>11 DEF Record, NewFinding, CommitPass, fwd
<1>12. Tick \/ UNCHANGED all => fw' = fw
  BY DEF Tick, all, fwd
<1> QED
  BY <1>1, <1>2, <1>3, <1>4, <1>5, <1>6, <1>7, <1>8, <1>9, <1>10, <1>11, <1>12
     DEF ForwardNext, Forward

----------------------------------------------------------------------------
(* The audit half *)

\* A transaction that has uncommitted records holds the lock alone, and their ids
\* are above the committed ones.
LEMMA OwnIdsAreLater ==
    ASSUME IInv, NEW t \in Tx, NEW r \in mine[t]
    PROVE  /\ \A q \in rows : q.id < r.id
           /\ \A u \in Tx : u # t => mine[u] = {}
BY TxAssumption DEF TxAssumption, IInv, Locked

\* A watermark speaks for all its transaction sees.
LEMMA AuditMarkSpeaks ==
    ASSUME FInv, NEW t \in Tx, NEW i \in AuditIds(t), i <= Watermark(t, "audit")
    PROVE  i \in sent
<1>0. /\ IInv /\ ForwardTypeOK /\ AuditCommitted /\ AuditWritten(t)
      /\ AuditIds(t) \subseteq 1..MaxId /\ MaxId \in Nat
  BY ReadTypes, BoundAssumption DEF BoundAssumption, FInv, AuditHalf
<1>1. CASE mlock["audit"] = t
  BY <1>0, <1>1 DEF AuditWritten, Watermark
<1>2. CASE mlock["audit"] # t
  <2>1. i <= mark["audit"] /\ i >= 1 /\ mark["audit"] \in Nat
    BY <1>0, <1>2 DEF Watermark, ForwardTypeOK, Key
  <2>2. PICK q \in rows : q.id = mark["audit"]
    BY <1>0, <2>1 DEF AuditCommitted
  <2>3. PICK r \in View(t) : i = r.id
    BY DEF AuditIds
  <2>4. r \in rows
    <3>1. ASSUME r \in mine[t] PROVE FALSE
      <4>1. q.id < r.id
        BY <1>0, <3>1, OwnIdsAreLater
      <4> QED BY <1>0, <2>1, <2>2, <2>3, <4>1
    <3> QED BY <2>3, <3>1 DEF View
  <2> QED BY <1>0, <2>1, <2>3, <2>4 DEF AuditCommitted, AuditNeverSkipped
<1> QED BY <1>1, <1>2

\* A transaction keeps its side of the audit half while its view grows at the end,
\* the collector forgets nothing, and its run only moves on.
LEMMA AuditKept ==
    ASSUME ForwardTypeOK, NEW u \in Tx, AuditWritten(u), AuditRead(u),
           AuditIds(u)' \subseteq Nat,
           AuditIds(u) \subseteq AuditIds(u)',
           \A i \in AuditIds(u)' : i \notin AuditIds(u) => \A k \in AuditIds(u) : k < i,
           sent \subseteq sent',
           mlock'["audit"] = u => mlock["audit"] = u /\ mnew'["audit"] = mnew["audit"],
           \/ fw'[u].audit = {}
           \/ /\ fw'[u].audit = fw[u].audit
              /\ \/ fw'[u].pc \notin {"select", "write"}
                 \/ fw[u].pc \in {"select", "write"}
                 \/ fw[u].audit \subseteq sent'
    PROVE  AuditWritten(u)' /\ AuditRead(u)'
<1>0. AuditIds(u) \subseteq Nat
  OBVIOUS
<1>1. AuditWritten(u)'
  <2> SUFFICES ASSUME mlock'["audit"] = u
               PROVE  /\ mnew'["audit"] \in AuditIds(u)'
                      /\ \A i \in AuditIds(u)' : i <= mnew'["audit"] => i \in sent'
    BY DEF AuditWritten
  <2>1. mnew["audit"] \in AuditIds(u) /\ \A i \in AuditIds(u) : i <= mnew["audit"] => i \in sent
    BY DEF AuditWritten
  <2>2. ASSUME NEW i \in AuditIds(u)', i <= mnew["audit"] PROVE i \in AuditIds(u)
    BY <1>0, <2>1, <2>2
  <2> QED BY <2>1, <2>2
<1>2. AuditRead(u)'
  <2>1. CASE fw'[u].audit = {}
    BY <2>1 DEF AuditRead
  <2>2. CASE fw'[u].audit = fw[u].audit
    <3>1. fw'[u].audit \subseteq AuditIds(u)'
      BY <2>2 DEF AuditRead
    <3>2. ASSUME NEW a \in fw[u].audit, NEW i \in AuditIds(u)', i <= a
          PROVE  i \in sent' \cup fw[u].audit
      <4>1. a \in AuditIds(u)
        BY DEF AuditRead
      <4>2. i \in AuditIds(u)
        BY <1>0, <3>2, <4>1
      <4> QED BY <3>2, <4>2 DEF AuditRead
    <3>3. fw'[u].pc \in {"select", "write"} => fw'[u].audit \subseteq sent'
      BY <2>2 DEF AuditRead
    <3> QED BY <2>2, <3>1, <3>2, <3>3 DEF AuditRead
  <2> QED BY <2>1, <2>2
<1> QED BY <1>1, <1>2

\* A transaction that has just ended has nothing to answer for.
LEMMA AuditFresh ==
    ASSUME NEW u \in Tx, mlock'["audit"] # u, fw'[u] = FwIdle
    PROVE  AuditWritten(u)' /\ AuditRead(u)'
BY DEF AuditWritten, AuditRead, FwIdle

\* An inserted record is behind everything its transaction sees.
LEMMA RecordGrowsView ==
    ASSUME IInv, NEW t \in Tx, Record(t), NEW u \in Tx
    PROVE  /\ AuditIds(u) \subseteq AuditIds(u)'
           /\ \A i \in AuditIds(u)' : i \notin AuditIds(u) => \A k \in AuditIds(u) : k < i
<1>1. CASE UNCHANGED <<rows, mine>>
  BY <1>1 DEF AuditIds, View
<1>2. CASE Insert(t)
  <2>1. PICK c \in Content :
          mine' = [mine EXCEPT ![t] = @ \cup {[id |-> nextid, content |-> c, prev |-> tail[t],
                                               hash |-> compute_hash(c, tail[t])]}]
    BY <1>2 DEF Insert
  <2> DEFINE e == [id |-> nextid, content |-> c, prev |-> tail[t],
                   hash |-> compute_hash(c, tail[t])]
  <2>2. mine' = [mine EXCEPT ![t] = @ \cup {e}] /\ e.id = nextid /\ rows' = rows
    BY <1>2, <2>1 DEF Insert
  <2> HIDE DEF e
  <2>3. \A r \in rows \cup mine[t] : r.id < nextid
    BY DEF IInv, Locked
  <2>4. mine \in [Tx -> SUBSET Entry]
    BY DEF IInv, TypeOK
  <2>5. CASE u = t
    <3>1. View(u)' = View(u) \cup {e}
      BY <2>2, <2>4, <2>5 DEF View
    <3>2. AuditIds(u)' = AuditIds(u) \cup {nextid}
      BY <3>1, <2>2 DEF AuditIds
    <3>3. \A k \in AuditIds(u) : k < nextid
      BY <2>3, <2>5 DEF AuditIds, View
    <3> QED BY <3>2, <3>3
  <2>6. CASE u # t
    <3>1. View(u)' = View(u)
      BY <2>2, <2>4, <2>6 DEF View
    <3> QED BY <3>1 DEF AuditIds
  <2> QED BY <2>5, <2>6
<1> QED BY <1>1, <1>2 DEF Record, AcquireLock, ReadTail

\* So are the records another transaction commits.
LEMMA CommitGrowsView ==
    ASSUME IInv, NEW t \in Tx, Commit(t), NEW u \in Tx
    PROVE  /\ AuditIds(u) \subseteq AuditIds(u)'
           /\ \A i \in AuditIds(u)' : i \notin AuditIds(u) => \A k \in AuditIds(u) : k < i
<1>0. mine \in [Tx -> SUBSET Entry]
  BY DEF IInv, TypeOK
<1>1. rows' = rows \cup mine[t] /\ mine' = [mine EXCEPT ![t] = {}]
  BY DEF Commit
<1>2. CASE u = t
  <2>1. View(u)' = View(u)
    BY <1>0, <1>1, <1>2 DEF View
  <2> QED BY <2>1 DEF AuditIds
<1>3. CASE u # t
  <2>1. View(u)' = View(u) \cup mine[t]
    BY <1>0, <1>1, <1>3 DEF View
  <2>2. AuditIds(u)' = AuditIds(u) \cup {r.id : r \in mine[t]}
    BY <2>1 DEF AuditIds
  <2>3. ASSUME NEW r \in mine[t], NEW k \in AuditIds(u) PROVE k < r.id
    <3>1. mine[u] = {} /\ \A q \in rows : q.id < r.id
      BY <1>3, <2>3, OwnIdsAreLater
    <3> QED BY <3>1 DEF AuditIds, View
  <2> QED BY <2>2, <2>3
<1> QED BY <1>2, <1>3

\* A commit publishes a watermark that speaks for the records it publishes.
LEMMA AuditCommitted_Commit ==
    ASSUME FInv, NEW t \in Tx, CommitPass(t)
    PROVE  AuditCommitted'
<1>0. /\ IInv /\ ForwardTypeOK /\ AuditCommitted /\ AuditWritten(t)
      /\ rows' = rows \cup mine[t] /\ sent' = sent
      /\ mark' = [k \in Key |-> Watermark(t, k)]
  BY DEF FInv, AuditHalf, CommitPass, Commit
<1>1. mark'["audit"] = Watermark(t, "audit")
  BY <1>0 DEF Key
<1>2. rows' = View(t) /\ \A r \in rows' : r.id \in AuditIds(t)
  BY <1>0 DEF View, AuditIds
<1>3. AuditNeverSkipped'
  <2>1. \A r \in rows' : r.id <= Watermark(t, "audit") => r.id \in sent
    BY <1>2, AuditMarkSpeaks
  <2> QED BY <1>0, <1>1, <2>1 DEF AuditNeverSkipped
<1>4. mark'["audit"] = 0 \/ \E r \in rows' : r.id = mark'["audit"]
  <2>1. CASE mlock["audit"] = t
    BY <1>0, <1>1, <1>2, <2>1 DEF AuditWritten, AuditIds, Watermark
  <2>2. CASE mlock["audit"] # t
    BY <1>0, <1>1, <2>2 DEF AuditCommitted, Watermark
  <2> QED BY <2>1, <2>2
<1> QED BY <1>3, <1>4 DEF AuditCommitted

\* Every step keeps the audit half.
LEMMA AuditStep ==
    ASSUME FInv, ForwardTypeOK', ForwardNext \/ UNCHANGED all
    PROVE  AuditHalf'
<1>0. /\ IInv /\ ForwardTypeOK /\ AuditHalf /\ fw \in [Tx -> ForwardRun]
      /\ \A u \in Tx : AuditWritten(u) /\ AuditRead(u) /\ Shape(u)
      /\ \A u \in Tx : AuditIds(u)' \subseteq Nat
      /\ DOMAIN mlock = Key /\ DOMAIN mnew = Key
  <2>1. \A u \in Tx : AuditIds(u)' \subseteq Nat
    BY DEF ForwardTypeOK, TypeOK, AuditIds, View, Entry
  <2> QED BY <2>1 DEF FInv, AuditHalf, ForwardTypeOK
<1>1. ASSUME NEW t \in Tx, Record(t) PROVE AuditHalf'
  <2>1. UNCHANGED fwd /\ rows' = rows
    BY <1>1 DEF Record, AcquireLock, ReadTail, Insert
  <2>2. AuditCommitted'
    BY <1>0, <2>1 DEF AuditHalf, AuditCommitted, AuditNeverSkipped, fwd
  <2>3. ASSUME NEW u \in Tx PROVE AuditWritten(u)' /\ AuditRead(u)'
    <3>1. /\ sent' = sent /\ fw'[u] = fw[u]
          /\ mlock' = mlock /\ mnew' = mnew
      BY <2>1 DEF fwd
    <3>2. /\ AuditIds(u) \subseteq AuditIds(u)'
          /\ \A i \in AuditIds(u)' : i \notin AuditIds(u) => \A k \in AuditIds(u) : k < i
      BY <1>0, <1>1, RecordGrowsView
    <3> QED BY <1>0, <3>1, <3>2, AuditKept
  <2> QED BY <2>2, <2>3 DEF AuditHalf
<1>2. ASSUME NEW t \in Tx, CommitPass(t) PROVE AuditHalf'
  <2>1. AuditCommitted'
    BY <1>2, AuditCommitted_Commit
  <2>2. ASSUME NEW u \in Tx PROVE AuditWritten(u)' /\ AuditRead(u)'
    <3>1. sent' = sent /\ fw' = fw /\ mnew' = mnew /\ mlock' = FreeMarks(t)
      BY <1>2 DEF CommitPass
    <3>2. /\ AuditIds(u) \subseteq AuditIds(u)'
          /\ \A i \in AuditIds(u)' : i \notin AuditIds(u) => \A k \in AuditIds(u) : k < i
      BY <1>0, <1>2, CommitGrowsView DEF CommitPass
    <3>3. mlock'["audit"] = u => mlock["audit"] = u
      BY <3>1, TxAssumption DEF TxAssumption, FreeMarks, Key
    <3> QED BY <1>0, <3>1, <3>2, <3>3, AuditKept
  <2> QED BY <2>1, <2>2 DEF AuditHalf
<1>3. ASSUME NEW t \in Tx, RollBackPass(t) PROVE AuditHalf'
  <2>1. /\ rows' = rows /\ mine' = [mine EXCEPT ![t] = {}] /\ sent' = sent /\ mark' = mark
        /\ mnew' = mnew /\ mlock' = FreeMarks(t) /\ fw' = [fw EXCEPT ![t] = FwIdle]
    BY <1>3 DEF RollBackPass, RollBack
  <2>2. AuditCommitted'
    BY <1>0, <2>1 DEF AuditHalf, AuditCommitted, AuditNeverSkipped
  <2>3. ASSUME NEW u \in Tx, u # t PROVE AuditWritten(u)' /\ AuditRead(u)'
    <3>1. AuditIds(u)' = AuditIds(u) /\ fw'[u] = fw[u]
      BY <2>1, <2>3, <1>0 DEF AuditIds, View, IInv, TypeOK
    <3>2. mlock'["audit"] = u => mlock["audit"] = u
      BY <2>1, TxAssumption DEF TxAssumption, FreeMarks, Key
    <3> QED BY <1>0, <2>1, <3>1, <3>2, AuditKept
  <2>4. AuditWritten(t)' /\ AuditRead(t)'
    <3>1. mlock'["audit"] # t /\ fw'[t] = FwIdle
      BY <1>0, <2>1, TxAssumption DEF TxAssumption, FreeMarks, Key
    <3> QED BY <3>1, AuditFresh
  <2> QED BY <2>2, <2>3, <2>4 DEF AuditHalf
<1>4. ASSUME UNCHANGED <<rows, mine, mark, mnew, mlock, fw, sent>> PROVE AuditHalf'
  <2>1. \A u \in Tx : AuditIds(u)' = AuditIds(u)
    BY <1>4 DEF AuditIds, View
  <2> QED BY <1>0, <1>4, <2>1 DEF AuditHalf, AuditCommitted, AuditNeverSkipped, AuditWritten,
                                 AuditRead
<1>5. ASSUME NEW t \in Tx, Forward(t) PROVE AuditHalf'
  <2>1. /\ UNCHANGED <<rows, mine, mark>> /\ sent \subseteq sent'
        /\ \A u \in Tx : u # t => fw'[u] = fw[u]
        /\ \A u \in Tx : AuditIds(u)' = AuditIds(u)
    <3>1. UNCHANGED <<rows, mine, mark>> /\ sent \subseteq sent' /\ \A u \in Tx : u # t => fw'[u] = fw[u]
      BY <1>0, <1>5 DEF Forward, ReadAudit, ReadFindings, Send, SendFails, SelectMark, WriteMark,
                       Forwards, vars, log
    <3> QED BY <3>1 DEF AuditIds, View
  <2>2. AuditCommitted'
    BY <1>0, <2>1 DEF AuditHalf, AuditCommitted, AuditNeverSkipped
  <2>3. ASSUME NEW u \in Tx, u # t PROVE AuditWritten(u)' /\ AuditRead(u)'
    <3>1. mlock'["audit"] = u => mlock["audit"] = u /\ mnew'["audit"] = mnew["audit"]
      <4>1. CASE WriteMark(t)
        <5>1. NextKey(t) \in Key /\ mlock[NextKey(t)] \in {NoTx, t}
          BY <4>1 DEF WriteMark, NextKey, Key
        <5>2. mlock' = [mlock EXCEPT ![NextKey(t)] = t] /\ mnew' = [mnew EXCEPT ![NextKey(t)] = LastSent(t, NextKey(t))]
          BY <4>1 DEF WriteMark
        <5> QED BY <1>0, <2>3, <5>1, <5>2
      <4>2. CASE ~ WriteMark(t)
        BY <1>5, <4>2 DEF Forward, ReadAudit, ReadFindings, Send, SendFails, SelectMark
      <4> QED BY <4>1, <4>2
    <3> QED BY <1>0, <2>1, <2>3, <3>1, AuditKept
  <2>4. AuditWritten(t)' /\ AuditRead(t)'
    <3>1. CASE ReadAudit(t)
      <4>1. PICK b \in FirstIds({i \in AuditIds(t) : i > Watermark(t, "audit")}, Limit) :
               fw' = [fw EXCEPT ![t] = [FwIdle EXCEPT !.pc = "findings", !.audit = b,
                                        !.cutoff = IF clock > Lag THEN clock - Lag ELSE 0]]
        BY <3>1 DEF ReadAudit
      <4>2. fw'[t].audit = b /\ fw'[t].pc = "findings"
        BY <1>0, <4>1 DEF FwIdle
      <4>3. b \subseteq {i \in AuditIds(t) : i > Watermark(t, "audit")}
        BY DEF FirstIds
      <4>4. ASSUME NEW a \in b, NEW i \in AuditIds(t), i <= a PROVE i \in sent \cup b
        <5>1. a \in Nat /\ i \in Nat /\ Watermark(t, "audit") \in Nat
          BY <1>0, <4>3, ReadTypes DEF Key
        <5>2. CASE i <= Watermark(t, "audit")
          BY <5>2, AuditMarkSpeaks
        <5>3. CASE i > Watermark(t, "audit") /\ i < a
          BY <5>3, <4>3 DEF FirstIds
        <5>4. CASE i = a
          BY <5>4
        <5> QED BY <4>4, <5>1, <5>2, <5>3, <5>4
      <4>5. AuditRead(t)'
        BY <2>1, <4>2, <4>3, <4>4 DEF AuditRead
      <4>6. AuditWritten(t)'
        BY <1>0, <2>1, <3>1 DEF ReadAudit, AuditWritten
      <4> QED BY <4>5, <4>6
    <3>2. CASE WriteMark(t) /\ NextKey(t) = "audit"
      <4>1. "audit" \in fw[t].todo /\ fw[t].audit # {} /\ fw[t].audit \subseteq sent
        BY <1>0, <3>2, LastSentType DEF WriteMark, Shape, AuditRead
      <4>2. mnew'["audit"] = LastSent(t, "audit") /\ sent' = sent
        BY <1>0, <3>2 DEF WriteMark, Key
      <4>3. LastSent(t, "audit") \in fw[t].audit
        BY <1>0, <4>1, LastSentIsLast
      <4>4. AuditWritten(t)'
        BY <1>0, <2>1, <4>1, <4>2, <4>3 DEF AuditWritten, AuditRead
      <4>5. fw'[t].audit \in {{}, fw[t].audit}
        BY <1>0, <3>2 DEF WriteMark, ForwardRun, FwIdle
      <4>6. AuditRead(t)'
        BY <1>0, <2>1, <4>1, <4>2, <4>5 DEF AuditRead
      <4> QED BY <4>4, <4>6
    <3>3. CASE ~ReadAudit(t) /\ ~(WriteMark(t) /\ NextKey(t) = "audit")
      <4>1. mlock'["audit"] = t => mlock["audit"] = t /\ mnew'["audit"] = mnew["audit"]
        <5>1. CASE WriteMark(t)
          BY <1>0, <3>3, <5>1 DEF WriteMark, NextKey, Key
        <5>2. CASE ~ WriteMark(t)
          BY <1>5, <3>3, <5>2 DEF Forward, ReadFindings, Send, SendFails, SelectMark
        <5> QED BY <5>1, <5>2
      <4>2. \/ fw'[t].audit = {}
            \/ /\ fw'[t].audit = fw[t].audit
               /\ \/ fw'[t].pc \notin {"select", "write"}
                  \/ fw[t].pc \in {"select", "write"}
                  \/ fw[t].audit \subseteq sent'
        <5>1. CASE ReadFindings(t)
          BY <1>0, <5>1 DEF ReadFindings, ForwardRun, FwIdle
        <5>2. CASE Send(t)
          BY <1>0, <5>2 DEF Send, ForwardRun
        <5>3. CASE SendFails(t)
          BY <1>0, <5>3 DEF SendFails, FwIdle
        <5>4. CASE SelectMark(t)
          BY <1>0, <5>4 DEF SelectMark, ForwardRun
        <5>5. CASE WriteMark(t)
          BY <1>0, <5>5 DEF WriteMark, ForwardRun, FwIdle
        <5> QED BY <1>5, <3>3, <5>1, <5>2, <5>3, <5>4, <5>5 DEF Forward
      <4> QED BY <1>0, <2>1, <4>1, <4>2, AuditKept
    <3> QED BY <3>1, <3>2, <3>3
  <2> QED BY <2>2, <2>3, <2>4 DEF AuditHalf
<1>6. ASSUME NEW t \in Tx, NewFinding(t) PROVE AuditHalf'
  BY <1>4, <1>6 DEF NewFinding, vars, log
<1>7. Tick \/ UNCHANGED all => AuditHalf'
  BY <1>4 DEF Tick, vars, log, all, fwd
<1> QED BY <1>1, <1>2, <1>3, <1>5, <1>6, <1>7 DEF ForwardNext

----------------------------------------------------------------------------
(* The findings half *)

\* Findings and their times are numbers.
LEMMA FindingTimes ==
    ASSUME ForwardTypeOK
    PROVE  /\ clock \in Nat /\ Lag \in Nat
           /\ \A f \in Finding : f.at \in Nat /\ f.at >= 1
           /\ findings \subseteq Finding
           /\ \A t \in Tx : /\ Found(t) \subseteq Finding
                            /\ fw[t].found \subseteq Finding /\ fw[t].cutoff \in Nat
BY ForwardAssumption DEF ForwardAssumption, ForwardTypeOK, ForwardRun, Finding, Found

\* An excuse stands while a transaction comes to see more and time passes, and its own
\* late findings are remembered when it commits.
LEMMA ExcusedKept ==
    ASSUME ForwardTypeOK, ForwardTypeOK', NEW u \in Tx, NEW f \in Found(u), Excused(u, f),
           late \subseteq late', clock <= clock', Found(u) \subseteq Found(u)',
           \A h \in fmine[u] : h \in fmine'[u] \/ (Overdue(h) => h \in late')
    PROVE  Excused(u, f)'
<1>1. CASE f \in late
  BY <1>1 DEF Excused
<1>2. CASE f \in fmine[u] /\ Overdue(f)
  <2>1. f.at \in Nat /\ clock \in Nat /\ clock' \in Nat /\ Lag \in Nat
    BY FindingTimes DEF ForwardTypeOK
  <2>2. f.at + Lag < clock'
    BY <1>2, <2>1 DEF Overdue
  <2> QED BY <1>2, <2>2 DEF Excused, Overdue
<1>3. CASE \E g \in Found(u) \ {f} : g.at = f.at
  <2>1. PICK g \in Found(u) \ {f} : g.at = f.at
    BY <1>3
  <2>2. g \in Found(u)'
    BY <2>1
  <2> QED BY <2>1, <2>2 DEF Excused
<1> QED BY <1>1, <1>2, <1>3 DEF Excused

\* A watermark speaks for all its transaction sees, the excused apart.
LEMMA FoundMarkSpeaks ==
    ASSUME ForwardTypeOK, FoundHalf, NEW t \in Tx, NEW f \in Found(t),
           f.at <= Watermark(t, "findings")
    PROVE  f \in fsent \/ Excused(t, f)
<1>1. CASE mlock["findings"] = t
  BY <1>1 DEF FoundHalf, FoundWritten, Watermark
<1>2. CASE mlock["findings"] # t
  <2>1. /\ f.at <= mark["findings"] /\ f.at \in Nat /\ f.at >= 1 /\ mark["findings"] \in Nat
        /\ clock \in Nat /\ Lag \in Nat
    BY <1>2, FindingTimes DEF Watermark, ForwardTypeOK, Key
  <2>2. PICK g \in findings : g.at = mark["findings"] /\ Old(g.at)
    BY <2>1 DEF FoundHalf, FoundCommitted
  <2>3. CASE f \in findings
    <3>1. f \in fsent \/ Lost(f)
      BY <2>1, <2>3 DEF FoundHalf, FoundCommitted, FindingsNeverSkipped
    <3> QED BY <3>1 DEF Lost, Excused, Found
  <2>4. CASE f \notin findings
    <3>1. f \in fmine[t] /\ f # g /\ g \in Found(t)
      BY <2>4 DEF Found
    <3>2. CASE f.at = g.at
      BY <3>1, <3>2 DEF Excused
    <3>3. CASE f.at < g.at
      <4>1. g.at \in Nat /\ g.at + Lag <= clock
        BY <2>1, <2>2 DEF Old
      <4>2. Overdue(f)
        BY <2>1, <3>3, <4>1 DEF Overdue
      <4> QED BY <3>1, <4>2 DEF Excused
    <3> QED BY <2>1, <2>2, <3>2, <3>3
  <2> QED BY <2>3, <2>4
<1> QED BY <1>1, <1>2

\* A transaction keeps its side of the findings half while what it comes to see is
\* later than what is old, or excused, and its run only moves on.
LEMMA FoundKept ==
    ASSUME ForwardTypeOK, ForwardTypeOK', NEW u \in Tx, FoundWritten(u), FoundRead(u),
           clock <= clock', late \subseteq late',
           Found(u) \subseteq Found(u)',
           \A h \in fmine[u] : h \in fmine'[u] \/ (Overdue(h) => h \in late'),
           \A f \in Found(u)' : f \notin Found(u) =>
               \A g \in Found(u) : Old(g.at) /\ f.at <= g.at => Excused(u, f)',
           fsent \subseteq fsent',
           mlock'["findings"] = u =>
               mlock["findings"] = u /\ mnew'["findings"] = mnew["findings"],
           fw'[u].cutoff \in {0, fw[u].cutoff},
           \/ fw'[u].found = {}
           \/ /\ fw'[u].found = fw[u].found
              /\ \/ fw'[u].pc \notin {"select", "write"}
                 \/ fw[u].pc \in {"select", "write"}
                 \/ fw[u].found \subseteq fsent'
    PROVE  FoundWritten(u)' /\ FoundRead(u)'
<1>0. /\ Found(u) \subseteq Finding /\ Found(u)' \subseteq Finding
      /\ \A f \in Finding : f.at \in Nat
      /\ clock \in Nat /\ clock' \in Nat /\ Lag \in Nat
  BY FindingTimes DEF ForwardTypeOK, Found
<1>1. \A n \in Nat : n + Lag <= clock => n + Lag <= clock'
  BY <1>0
<1>2. FoundWritten(u)'
  <2> SUFFICES ASSUME mlock'["findings"] = u
               PROVE  /\ \E g \in Found(u)' : g.at = mnew'["findings"] /\ g.at + Lag <= clock'
                      /\ \A f \in Found(u)' :
                             f.at <= mnew'["findings"] => f \in fsent' \/ Excused(u, f)'
    BY DEF FoundWritten, Old
  <2>1. PICK g \in Found(u) : g.at = mnew["findings"] /\ g.at + Lag <= clock
    BY DEF FoundWritten, Old
  <2>2. \A f \in Found(u) : f.at <= mnew["findings"] => f \in fsent \/ Excused(u, f)
    BY DEF FoundWritten
  <2>3. ASSUME NEW f \in Found(u)', f.at <= mnew["findings"] PROVE f \in fsent' \/ Excused(u, f)'
    <3>1. CASE f \in Found(u)
      BY <2>2, <2>3, <3>1, ExcusedKept
    <3>2. CASE f \notin Found(u)
      BY <2>1, <2>3, <3>2 DEF Old
    <3> QED BY <3>1, <3>2
  <2>4. g \in Found(u)' /\ g.at + Lag <= clock'
    BY <1>0, <1>1, <2>1
  <2> QED BY <2>1, <2>3, <2>4
<1>3. FoundRead(u)'
  <2>1. fw'[u].cutoff = 0 \/ fw'[u].cutoff + Lag <= clock'
    <3>1. fw[u].cutoff \in Nat
      BY FindingTimes
    <3>2. fw[u].cutoff = 0 \/ fw[u].cutoff + Lag <= clock
      BY DEF FoundRead, Old
    <3> QED BY <3>1, <3>2, <1>1
  <2>2. CASE fw'[u].found = {}
    BY <2>1, <2>2 DEF FoundRead, Old
  <2>3. CASE fw'[u].found = fw[u].found
    <3>1. \A g \in fw[u].found : g \in Found(u) /\ g.at + Lag <= clock
      BY DEF FoundRead, Old
    <3>2. \A g \in fw[u].found : g \in Found(u)' /\ g.at + Lag <= clock'
      BY <3>1, <1>0, <1>1
    <3>3. ASSUME NEW g \in fw[u].found, NEW f \in Found(u)', f.at <= g.at
          PROVE  f \in fsent' \cup fw[u].found \/ Excused(u, f)'
      <4>1. CASE f \in Found(u)
        <5>1. f \in fsent \cup fw[u].found \/ Excused(u, f)
          BY <3>3, <4>1 DEF FoundRead
        <5> QED BY <4>1, <5>1, ExcusedKept
      <4>2. CASE f \notin Found(u)
        BY <3>1, <3>3, <4>2 DEF Old
      <4> QED BY <4>1, <4>2
    <3>4. fw'[u].pc \in {"select", "write"} => fw'[u].found \subseteq fsent'
      BY <2>3 DEF FoundRead
    <3> QED BY <2>1, <2>3, <3>2, <3>3, <3>4 DEF FoundRead, Old
  <2> QED BY <2>2, <2>3
<1> QED BY <1>2, <1>3

\* A transaction that has just ended has nothing to answer for.
LEMMA FoundFresh ==
    ASSUME NEW u \in Tx, mlock'["findings"] # u, fw'[u] = FwIdle
    PROVE  FoundWritten(u)' /\ FoundRead(u)'
BY DEF FoundWritten, FoundRead, FwIdle

\* A commit publishes a watermark that speaks for the findings it publishes.
LEMMA FoundCommitted_Commit ==
    ASSUME ForwardTypeOK, FoundHalf, NEW t \in Tx, CommitPass(t)
    PROVE  FoundCommitted'
<1>0. /\ findings' = Found(t) /\ fsent' = fsent /\ clock' = clock
      /\ mark'["findings"] = Watermark(t, "findings")
      /\ late' = late \cup {f \in fmine[t] : Overdue(f)}
  BY DEF CommitPass, Found, Key
<1>1. FindingsNeverSkipped'
  <2>1. ASSUME NEW f \in Found(t), f.at <= Watermark(t, "findings")
        PROVE  f \in fsent \/ f \in late' \/ \E g \in Found(t) \ {f} : g.at = f.at
    BY <1>0, <2>1, FoundMarkSpeaks DEF Excused
  <2> QED BY <1>0, <2>1 DEF FindingsNeverSkipped, Lost
<1>2. mark'["findings"] = 0 \/ \E g \in findings' : g.at = mark'["findings"] /\ g.at + Lag <= clock'
  <2>1. CASE mlock["findings"] = t
    BY <1>0, <2>1 DEF FoundHalf, FoundWritten, Watermark, Old
  <2>2. CASE mlock["findings"] # t
    BY <1>0, <2>2 DEF FoundHalf, FoundCommitted, Watermark, Found, Old
  <2> QED BY <2>1, <2>2
<1> QED BY <1>1, <1>2 DEF FoundCommitted, Old

\* What a transaction comes to see is later than what is old, or excused: it was
\* longer open than the lag, or has the time of what is there.
LEMMA FoundGrows ==
    ASSUME ForwardTypeOK, NEW t \in Tx, NewFinding(t) \/ CommitPass(t), NEW u \in Tx
    PROVE  /\ Found(u) \subseteq Found(u)' /\ late \subseteq late'
           /\ \A h \in fmine[u] : h \in fmine'[u] \/ (Overdue(h) => h \in late')
           /\ \A f \in Found(u)' : f \notin Found(u) =>
                  \A g \in Found(u) : Old(g.at) /\ f.at <= g.at => Excused(u, f)'
<1>0. /\ fmine \in [Tx -> SUBSET Finding] /\ clock \in Nat /\ Lag \in Nat
      /\ Found(u) \subseteq Finding /\ \A f \in Finding : f.at \in Nat
  BY FindingTimes DEF ForwardTypeOK
<1>1. CASE NewFinding(t)
  <2> DEFINE e == [n |-> nfind', at |-> clock]
  <2>1. /\ fmine' = [fmine EXCEPT ![t] = @ \cup {e}] /\ e.at = clock
        /\ UNCHANGED <<findings, late, clock>>
    BY <1>1 DEF NewFinding
  <2> HIDE DEF e
  <2>2. Found(u)' \subseteq Found(u) \cup {e} /\ Found(u) \subseteq Found(u)' /\ fmine[u] \subseteq fmine'[u]
    BY <1>0, <2>1 DEF Found
  <2>3. ASSUME NEW f \in Found(u)', f \notin Found(u), NEW g \in Found(u), Old(g.at), f.at <= g.at
        PROVE  Excused(u, f)'
    <3>1. f = e /\ g.at \in Nat /\ g.at + Lag <= clock
      BY <1>0, <2>2, <2>3 DEF Old
    <3>2. g.at = f.at /\ g # f /\ g \in Found(u)'
      BY <1>0, <2>1, <2>2, <2>3, <3>1
    <3> QED BY <3>2 DEF Excused
  <2> QED BY <2>1, <2>2, <2>3
<1>2. CASE CommitPass(t)
  <2>1. /\ fmine' = [fmine EXCEPT ![t] = {}] /\ findings' = findings \cup fmine[t]
        /\ late' = late \cup {f \in fmine[t] : Overdue(f)}
    BY <1>2 DEF CommitPass
  <2>2. CASE u = t
    <3>1. Found(u)' = Found(u)
      BY <1>0, <2>1, <2>2 DEF Found
    <3> QED BY <2>1, <2>2, <3>1
  <2>3. CASE u # t
    <3>1. Found(u)' = Found(u) \cup fmine[t] /\ fmine'[u] = fmine[u]
      BY <1>0, <2>1, <2>3 DEF Found
    <3>2. ASSUME NEW f \in Found(u)', f \notin Found(u), NEW g \in Found(u), Old(g.at), f.at <= g.at
          PROVE  Excused(u, f)'
      <4>1. f \in fmine[t] /\ f.at \in Nat /\ g.at \in Nat /\ g.at + Lag <= clock
        BY <1>0, <3>1, <3>2 DEF Old
      <4>2. CASE f.at = g.at
        <5>1. g \in Found(u)' \ {f}
          BY <3>1, <3>2
        <5> QED BY <4>2, <5>1 DEF Excused
      <4>3. CASE f.at < g.at
        <5>1. Overdue(f)
          BY <1>0, <4>1, <4>3 DEF Overdue
        <5> QED BY <2>1, <4>1, <5>1 DEF Excused
      <4> QED BY <3>2, <4>1, <4>2, <4>3
    <3> QED BY <2>1, <3>1, <3>2
  <2> QED BY <2>2, <2>3
<1> QED BY <1>1, <1>2

\* Every step keeps the findings half.
LEMMA FoundStep ==
    ASSUME FInv, ForwardTypeOK', ForwardNext \/ UNCHANGED all
    PROVE  FoundHalf'
<1>0. /\ ForwardTypeOK /\ FoundHalf /\ FoundCommitted /\ fw \in [Tx -> ForwardRun]
      /\ \A u \in Tx : FoundWritten(u) /\ FoundRead(u) /\ Shape(u)
      /\ fmine \in [Tx -> SUBSET Finding]
      /\ DOMAIN mlock = Key /\ DOMAIN mnew = Key
      /\ clock \in Nat /\ clock <= clock
  BY FindingTimes DEF FInv, FoundHalf, ForwardTypeOK
<1>1. ASSUME NEW t \in Tx, NewFinding(t) PROVE FoundHalf'
  <2>1. UNCHANGED <<clock, findings, late, mark, mnew, mlock, fw, fsent>>
    BY <1>1 DEF NewFinding
  <2>2. FoundCommitted'
    BY <1>0, <2>1 DEF FoundCommitted, FindingsNeverSkipped, Lost, Old
  <2>3. ASSUME NEW u \in Tx PROVE FoundWritten(u)' /\ FoundRead(u)'
    <3>1. /\ Found(u) \subseteq Found(u)' /\ late \subseteq late'
          /\ \A h \in fmine[u] : h \in fmine'[u] \/ (Overdue(h) => h \in late')
          /\ \A f \in Found(u)' : f \notin Found(u) =>
                 \A g \in Found(u) : Old(g.at) /\ f.at <= g.at => Excused(u, f)'
      BY <1>0, <1>1, FoundGrows
    <3> QED BY <1>0, <2>1, <3>1, FoundKept
  <2> QED BY <2>2, <2>3 DEF FoundHalf
<1>2. ASSUME NEW t \in Tx, CommitPass(t) PROVE FoundHalf'
  <2>1. FoundCommitted'
    BY <1>0, <1>2, FoundCommitted_Commit
  <2>2. ASSUME NEW u \in Tx PROVE FoundWritten(u)' /\ FoundRead(u)'
    <3>1. fsent' = fsent /\ fw' = fw /\ mnew' = mnew /\ mlock' = FreeMarks(t) /\ clock' = clock
      BY <1>2 DEF CommitPass
    <3>2. /\ Found(u) \subseteq Found(u)' /\ late \subseteq late'
          /\ \A h \in fmine[u] : h \in fmine'[u] \/ (Overdue(h) => h \in late')
          /\ \A f \in Found(u)' : f \notin Found(u) =>
                 \A g \in Found(u) : Old(g.at) /\ f.at <= g.at => Excused(u, f)'
      BY <1>0, <1>2, FoundGrows
    <3>3. mlock'["findings"] = u => mlock["findings"] = u
      BY <3>1, TxAssumption DEF TxAssumption, FreeMarks, Key
    <3> QED BY <1>0, <3>1, <3>2, <3>3, FoundKept
  <2> QED BY <2>1, <2>2 DEF FoundHalf
<1>3. ASSUME NEW t \in Tx, RollBackPass(t) PROVE FoundHalf'
  <2>1. /\ findings' = findings /\ fmine' = [fmine EXCEPT ![t] = {}] /\ fsent' = fsent /\ mark' = mark
        /\ mnew' = mnew /\ mlock' = FreeMarks(t) /\ fw' = [fw EXCEPT ![t] = FwIdle]
        /\ clock' = clock /\ late' = late
    BY <1>3 DEF RollBackPass
  <2>2. FoundCommitted'
    BY <1>0, <2>1 DEF FoundCommitted, FindingsNeverSkipped, Lost, Old
  <2>3. ASSUME NEW u \in Tx, u # t PROVE FoundWritten(u)' /\ FoundRead(u)'
    <3>1. Found(u)' = Found(u) /\ fw'[u] = fw[u] /\ fmine'[u] = fmine[u]
      BY <1>0, <2>1, <2>3 DEF Found
    <3>2. mlock'["findings"] = u => mlock["findings"] = u
      BY <2>1, TxAssumption DEF TxAssumption, FreeMarks, Key
    <3> QED BY <1>0, <2>1, <3>1, <3>2, FoundKept
  <2>4. FoundWritten(t)' /\ FoundRead(t)'
    <3>1. mlock'["findings"] # t /\ fw'[t] = FwIdle
      BY <1>0, <2>1, TxAssumption DEF TxAssumption, FreeMarks, Key
    <3> QED BY <3>1, FoundFresh
  <2> QED BY <2>2, <2>3, <2>4 DEF FoundHalf
<1>4. ASSUME UNCHANGED <<findings, fmine, late, mark, mnew, mlock, fw, fsent>>, clock' \in {clock, clock + 1}
      PROVE  FoundHalf'
  <2>1. clock' \in Nat /\ clock <= clock' /\ Lag \in Nat /\ \A f \in findings : f.at \in Nat
    BY <1>0, <1>4, FindingTimes
  <2>2. FoundCommitted'
    <3>1. \A n \in Nat : n + Lag <= clock => n + Lag <= clock'
      BY <1>0, <2>1
    <3> QED BY <1>0, <1>4, <2>1, <3>1 DEF FoundCommitted, FindingsNeverSkipped, Lost, Old
  <2>3. ASSUME NEW u \in Tx PROVE FoundWritten(u)' /\ FoundRead(u)'
    <3>1. Found(u)' = Found(u)
      BY <1>4 DEF Found
    <3> QED BY <1>0, <1>4, <2>1, <3>1, FoundKept
  <2> QED BY <2>2, <2>3 DEF FoundHalf
<1>5. ASSUME NEW t \in Tx, Forward(t) PROVE FoundHalf'
  <2>1. /\ UNCHANGED <<clock, findings, fmine, late, mark>> /\ fsent \subseteq fsent'
        /\ \A u \in Tx : u # t => fw'[u] = fw[u]
        /\ \A u \in Tx : Found(u)' = Found(u)
    <3>1. /\ UNCHANGED <<clock, findings, fmine, late, mark>> /\ fsent \subseteq fsent'
          /\ \A u \in Tx : u # t => fw'[u] = fw[u]
      BY <1>0, <1>5 DEF Forward, ReadAudit, ReadFindings, Send, SendFails, SelectMark, WriteMark,
                       Forwards
    <3> QED BY <3>1 DEF Found
  <2>5. \A f \in Found(t) : Excused(t, f) => Excused(t, f)'
    <3>1. clock \in Nat /\ Found(t) \subseteq Found(t)' /\ late \subseteq late' /\ clock <= clock'
      BY <1>0, <2>1
    <3>2. \A h \in fmine[t] : h \in fmine'[t]
      BY <2>1
    <3> QED BY <1>0, <3>1, <3>2, ExcusedKept
  <2>2. FoundCommitted'
    BY <1>0, <2>1 DEF FoundCommitted, FindingsNeverSkipped, Lost, Old
  <2>3. ASSUME NEW u \in Tx, u # t PROVE FoundWritten(u)' /\ FoundRead(u)'
    <3>1. mlock'["findings"] = u => mlock["findings"] = u /\ mnew'["findings"] = mnew["findings"]
      <4>1. CASE WriteMark(t)
        <5>1. NextKey(t) \in Key /\ mlock[NextKey(t)] \in {NoTx, t}
          BY <4>1 DEF WriteMark, NextKey, Key
        <5>2. /\ mlock' = [mlock EXCEPT ![NextKey(t)] = t]
              /\ mnew' = [mnew EXCEPT ![NextKey(t)] = LastSent(t, NextKey(t))]
          BY <4>1 DEF WriteMark
        <5> QED BY <1>0, <2>3, <5>1, <5>2
      <4>2. CASE ~ WriteMark(t)
        BY <1>5, <4>2 DEF Forward, ReadAudit, ReadFindings, Send, SendFails, SelectMark
      <4> QED BY <4>1, <4>2
    <3> QED BY <1>0, <2>1, <2>3, <3>1, FoundKept
  <2>4. FoundWritten(t)' /\ FoundRead(t)'
    <3>1. CASE ReadFindings(t)
      <4>1. PICK b \in FirstFound({f \in Found(t) : /\ f.at <= fw[t].cutoff
                                                    /\ f.at > Watermark(t, "findings")}, Limit) :
               fw' = [fw EXCEPT ![t] = IF fw[t].audit = {} /\ b = {} THEN FwIdle
                                       ELSE [@ EXCEPT !.found = b, !.pc = "send"]]
        BY <3>1 DEF ReadFindings
      <4> DEFINE S == {f \in Found(t) : f.at <= fw[t].cutoff /\ f.at > Watermark(t, "findings")}
      <4>2. b \subseteq S /\ \A f \in b, g \in S : g.at < f.at => g \in b
        BY DEF FirstFound
      <4>3. /\ Found(t) \subseteq Finding /\ \A f \in Finding : f.at \in Nat /\ f.at >= 1
            /\ fw[t].cutoff \in Nat /\ Watermark(t, "findings") \in Nat /\ Lag \in Nat
        BY <1>0, FindingTimes, ReadTypes DEF Key
      <4>4. ASSUME NEW g \in b PROVE g \in Found(t) /\ g.at + Lag <= clock
        <5>1. g \in Found(t) /\ g.at <= fw[t].cutoff /\ g.at \in Nat /\ g.at >= 1
          BY <4>2, <4>3
        <5>2. fw[t].cutoff = 0 \/ fw[t].cutoff + Lag <= clock
          BY <1>0 DEF FoundRead, Old
        <5> QED BY <1>0, <4>3, <5>1, <5>2
      <4>5. ASSUME NEW g \in b, NEW f \in Found(t), f.at <= g.at
            PROVE  f \in fsent \cup b \/ Excused(t, f)
        <5>1. f.at \in Nat /\ g.at \in Nat /\ g \in Found(t) /\ g.at <= fw[t].cutoff
          BY <4>2, <4>3
        <5>2. CASE f.at <= Watermark(t, "findings")
          BY <1>0, <5>2, FoundMarkSpeaks
        <5>3. CASE f.at > Watermark(t, "findings") /\ f.at < g.at
          <6>1. f \in S
            BY <4>3, <5>1, <5>3
          <6> QED BY <4>2, <5>3, <6>1
        <5>4. CASE f.at = g.at
          BY <4>5, <5>1, <5>4 DEF Excused
        <5> QED BY <4>3, <4>5, <5>1, <5>2, <5>3, <5>4
      <4>6. \/ fw'[t] = FwIdle
            \/ fw'[t].found = b /\ fw'[t].pc = "send" /\ fw'[t].cutoff = fw[t].cutoff
        BY <1>0, <4>1 DEF ForwardRun
      <4>7. FoundRead(t)'
        <5>1. CASE fw'[t] = FwIdle
          BY <5>1 DEF FoundRead, FwIdle
        <5>2. CASE fw'[t].found = b /\ fw'[t].pc = "send" /\ fw'[t].cutoff = fw[t].cutoff
          <6>1. fw'[t].cutoff = 0 \/ fw'[t].cutoff + Lag <= clock'
            BY <1>0, <2>1, <5>2 DEF FoundRead, Old
          <6> HIDE DEF S
          <6> QED BY <2>1, <2>5, <4>4, <4>5, <5>2, <6>1 DEF FoundRead, Old
        <5> QED BY <4>6, <5>1, <5>2
      <4>8. FoundWritten(t)'
        BY <1>0, <2>1, <2>5, <3>1 DEF ReadFindings, FoundWritten, Old
      <4> QED BY <4>7, <4>8
    <3>2. CASE ReadAudit(t)
      <4> DEFINE c == IF clock > Lag THEN clock - Lag ELSE 0
      <4>1. fw'[t].found = {} /\ fw'[t].pc = "findings" /\ fw'[t].cutoff = c
        BY <1>0, <3>2 DEF ReadAudit, FwIdle
      <4>2. c = 0 \/ c + Lag <= clock
        BY <1>0, FindingTimes
      <4> HIDE DEF c
      <4>3. FoundRead(t)'
        BY <2>1, <4>1, <4>2 DEF FoundRead, Old
      <4>4. FoundWritten(t)'
        BY <1>0, <2>1, <2>5, <3>2 DEF ReadAudit, FoundWritten, Old
      <4> QED BY <4>3, <4>4
    <3>3. CASE WriteMark(t) /\ NextKey(t) = "findings"
      <4>1. "findings" \in fw[t].todo /\ fw[t].found # {} /\ fw[t].found \subseteq fsent
        BY <1>0, <3>3, LastSentType DEF WriteMark, Shape, FoundRead
      <4>2. mnew'["findings"] = LastSent(t, "findings") /\ fsent' = fsent
        BY <1>0, <3>3 DEF WriteMark, Key
      <4>3. PICK g \in fw[t].found : LastSent(t, "findings") = g.at
        BY <1>0, <4>1, LastSentIsLast
      <4>4. g \in Found(t) /\ g.at + Lag <= clock
        BY <1>0 DEF FoundRead, Old
      <4>5. \A f \in Found(t) : f.at <= g.at => f \in fsent \/ Excused(t, f)
        BY <1>0, <4>1 DEF FoundRead
      <4>6. FoundWritten(t)'
        BY <2>1, <2>5, <4>2, <4>3, <4>4, <4>5 DEF FoundWritten, Old
      <4>7. /\ fw'[t].found \in {{}, fw[t].found} /\ fw'[t].cutoff \in {0, fw[t].cutoff}
        BY <1>0, <3>3 DEF WriteMark, ForwardRun, FwIdle
      <4>8. FoundRead(t)'
        <5>1. fw'[t].cutoff = 0 \/ fw'[t].cutoff + Lag <= clock'
          BY <1>0, <2>1, <4>7 DEF FoundRead, Old
        <5>2. \A h \in fw[t].found : /\ h \in Found(t) /\ h.at + Lag <= clock
                                     /\ \A f \in Found(t) : f.at <= h.at =>
                                            f \in fsent \cup fw[t].found \/ Excused(t, f)
          BY <1>0 DEF FoundRead, Old
        <5> QED BY <2>1, <2>5, <4>1, <4>2, <4>7, <5>1, <5>2 DEF FoundRead, Old
      <4> QED BY <4>6, <4>8
    <3>4. CASE ~ReadFindings(t) /\ ~ReadAudit(t) /\ ~(WriteMark(t) /\ NextKey(t) = "findings")
      <4>1. mlock'["findings"] = t => mlock["findings"] = t /\ mnew'["findings"] = mnew["findings"]
        <5>1. CASE WriteMark(t)
          BY <1>0, <3>4, <5>1 DEF WriteMark, NextKey, Key
        <5>2. CASE ~ WriteMark(t)
          BY <1>5, <3>4, <5>2 DEF Forward, Send, SendFails, SelectMark
        <5> QED BY <5>1, <5>2
      <4>2. /\ \/ fw'[t].found = {}
               \/ /\ fw'[t].found = fw[t].found
                  /\ \/ fw'[t].pc \notin {"select", "write"}
                     \/ fw[t].pc \in {"select", "write"}
                     \/ fw[t].found \subseteq fsent'
            /\ fw'[t].cutoff \in {0, fw[t].cutoff}
        <5>1. CASE Send(t)
          BY <1>0, <5>1 DEF Send, ForwardRun
        <5>2. CASE SendFails(t)
          BY <1>0, <5>2 DEF SendFails, FwIdle
        <5>3. CASE SelectMark(t)
          BY <1>0, <5>3 DEF SelectMark, ForwardRun
        <5>4. CASE WriteMark(t)
          BY <1>0, <5>4 DEF WriteMark, ForwardRun, FwIdle
        <5> QED BY <1>5, <3>4, <5>1, <5>2, <5>3, <5>4 DEF Forward
      <4> QED BY <1>0, <2>1, <4>1, <4>2, FoundKept
    <3> QED BY <3>1, <3>2, <3>3, <3>4
  <2> QED BY <2>2, <2>3, <2>4 DEF FoundHalf
<1>6. ASSUME NEW t \in Tx, Record(t) PROVE FoundHalf'
  BY <1>4, <1>6 DEF Record, fwd
<1>7. Tick \/ UNCHANGED all => FoundHalf'
  BY <1>4 DEF Tick, all, fwd
<1> QED BY <1>1, <1>2, <1>3, <1>5, <1>6, <1>7 DEF ForwardNext

----------------------------------------------------------------------------
(* The theorems *)

\* The initial state satisfies the invariant.
LEMMA InitFInv == ForwardInit => FInv
<1> SUFFICES ASSUME ForwardInit PROVE FInv
  OBVIOUS
<1>1. IInv /\ TypeOK
  BY InitIInv DEF ForwardInit, IInv
<1>2. ForwardTypeOK
  BY <1>1, InitForwardType
<1>3. /\ mark["audit"] = 0 /\ mark["findings"] = 0
      /\ mlock["audit"] = NoTx /\ mlock["findings"] = NoTx
      /\ \A t \in Tx : fw[t] = FwIdle /\ t # NoTx /\ fmine[t] = {}
      /\ findings = {} /\ rows = {}
  BY TxAssumption DEF TxAssumption, ForwardInit, Init, Key
<1>4. \A t \in Tx : Shape(t)
  BY <1>3 DEF Shape, FwIdle
<1>5. AuditHalf
  BY <1>3 DEF AuditHalf, AuditCommitted, AuditNeverSkipped, AuditWritten, AuditRead, FwIdle
<1>6. FoundHalf
  BY <1>3 DEF FoundHalf, FoundCommitted, FindingsNeverSkipped, FoundWritten, FoundRead, FwIdle
<1> QED BY <1>1, <1>2, <1>4, <1>5, <1>6 DEF FInv

\* Every step keeps it.
LEMMA StepFInv == FInv /\ [ForwardNext]_all => FInv'
<1> SUFFICES ASSUME FInv, ForwardNext \/ UNCHANGED all PROVE FInv'
  OBVIOUS
<1>1. IInv' /\ TypeOK'
  BY LogStep, StepIInv DEF FInv, IInv
<1>2. ForwardTypeOK'
  BY <1>1, ForwardTypeStep
<1>3. \A t \in Tx : Shape(t)'
  BY ShapeStep
<1>4. AuditHalf'
  BY <1>2, AuditStep
<1>5. FoundHalf'
  BY <1>2, FoundStep
<1> QED BY <1>1, <1>2, <1>3, <1>4, <1>5 DEF FInv

\* The invariant holds in every reachable state.
THEOREM ForwardInductive == ForwardSpec => []FInv
BY InitFInv, StepFInv, PTL DEF ForwardSpec

\* The audit watermark never passes a record the collector has not taken,
\* however long a transaction stays open.
THEOREM AuditIsNeverSkipped == ForwardSpec => []AuditNeverSkipped
<1>1. FInv => AuditNeverSkipped
  BY DEF FInv, AuditHalf, AuditCommitted
<1> QED BY ForwardInductive, <1>1, PTL

\* Neither watermark does, however long transactions are open and in whatever order they
\* end: of the findings it passes over, those that were longer open than COMMIT_LAG and
\* those of one time are all that can be missing.
THEOREM WatermarksAreHonest == ForwardSpec => []NothingIsSkipped
<1>1. FInv => NothingIsSkipped
  BY DEF FInv, AuditHalf, AuditCommitted, FoundHalf, FoundCommitted, NothingIsSkipped
<1> QED BY ForwardInductive, <1>1, PTL

\* Forwarding runs are behaviours of the audit log: all that is proved of it holds of
\* the trail that is forwarded.
THEOREM ForwardingIsLogging == ForwardSpec => Spec
<1>1. ForwardInit => Init
  BY DEF ForwardInit
<1>2. [ForwardNext]_all => [Next]_vars
  BY LogStep
<1> QED BY <1>1, <1>2, PTL DEF ForwardSpec, Spec
=============================================================================
