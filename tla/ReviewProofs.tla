---------------------------- MODULE ReviewProofs ----------------------------
(***************************************************************************)
(* Proofs about what is kept between assessments, for every set of         *)
(* devices, checks, runs, records and people: the feeds, the findings'     *)
(* lifecycle, the review of discovered hosts, the assignment of policies,  *)
(* the devices that other devices' collections create, notifications, and  *)
(* the scores, series and counts that the posture's pages make of it all.  *)
(*                                                                         *)
(* Each part has its inductive invariant, a lemma per action that can      *)
(* disturb it, and the theorems that follow.                               *)
(***************************************************************************)
EXTENDS MCReview, FiniteSetTheorems, FunctionTheorems, SequenceTheorems, WellFoundedInduction, TLAPS

-----------------------------------------------------------------------------
(* The feeds *)

\* A bounded set of numbers has a greatest.
LEMMA Greatest ==
    ASSUME NEW n \in Nat, NEW S, S \subseteq 0 .. n, S # {}
    PROVE  Max(S) \in S /\ \A x \in S : x <= Max(S)
<1> DEFINE T == {n - x : x \in S}
<1>1. T \subseteq Nat /\ T # {}
  <2>1. \A x \in S : n - x \in Nat
    OBVIOUS
  <2>2. PICK x \in S : TRUE
    OBVIOUS
  <2>3. n - x \in T
    OBVIOUS
  <2> QED BY <2>1, <2>3
<1>2. PICK t \in T : \A y \in T : <<y, t>> \notin OpToRel(<, Nat)
  BY <1>1, NatLessThanWellFounded, WFMin
<1>3. \A y \in T : ~(y < t)
  BY <1>1, <1>2 DEF OpToRel
<1>4. PICK x \in S : t = n - x
  BY <1>2
<1>5. \A y \in S : y <= x
  <2>1. ASSUME NEW y \in S, ~(y <= x) PROVE FALSE
    <3>1. n - y \in T /\ n - y < n - x
      BY <2>1
    <3> QED BY <1>3, <1>4, <3>1
  <2> QED BY <2>1
<1> QED BY <1>4, <1>5 DEF Max

\* The greater of two numbers.
LEMMA LargerIs == \A a, b \in Int : Max({a, b}) = IF a < b THEN b ELSE a
<1> TAKE a, b \in Int
<1> DEFINE m == IF a < b THEN b ELSE a
<1>1. m \in {a, b} /\ \A y \in {a, b} : m >= y
  OBVIOUS
<1>2. \A x \in {a, b} : (\A y \in {a, b} : x >= y) => x = m
  OBVIOUS
<1> HIDE DEF m
<1>3. Max({a, b}) = m
  BY <1>1, <1>2 DEF Max
<1> QED BY <1>3 DEF m

AnImport ==
    [kind : {"none", "nvd", "bundle", "kev"}, step : {"", "fetch", "written"}, since : Nat, taken : Nat, at : Nat,
     got : [Cve -> Nat], says : [Cve -> {"same", "listed", "cleared"}], rejected : SUBSET Cve, seen : SUBSET Cve]

FeedTypeOK ==
    /\ feedClock \in Nat /\ mark \in Nat /\ mark <= feedClock
    /\ revisions \in [Cve -> SUBSET Nat] /\ \A c \in Cve : \A r \in revisions[c] : r <= feedClock
    /\ stored \in [Cve -> Nat]
    /\ flag \in [Cve -> {"unchecked", "listed", "cleared"}]
    /\ import \in [Importer -> AnImport]
    /\ catalogue \subseteq Cve /\ entries \subseteq Cve /\ applied \subseteq Cve

\* Unless they raced, imports of the two kinds never meet.
Apart == ~raced => \A i, j \in Importer :
            import[i].kind # "none" /\ import[j].kind # "none" => (import[i].kind = "kev" <=> import[j].kind = "kev")

\* The catalogue applied last is on record, and every flag follows it.
Flagged == ~raced => applied \subseteq entries /\ NothingStaysUnchecked /\ ListedIsNeverCleared

\* What an import wrote it could write now.
Current(i) ==
    /\ import[i].step # "" => import[i].kind # "none"
    /\ import[i].kind = "kev" => \A c \in Cve : import[i].got[c] = 0
    /\ import[i].kind # "kev" => import[i].seen = {}
    /\ import[i].step = "written" /\ ~raced =>
        \A c \in Cve : import[i].says[c] = IF import[i].kind = "kev"
                                           THEN IF stored[c] = 0 THEN "same" ELSE IF c \in import[i].seen THEN "listed" ELSE "cleared"
                                           ELSE IF import[i].got[c] = 0 THEN "same" ELSE KevState(c)

\* It has the last revision of each CVE, if that was made before it looked and its
\* window reaches back to it.
Newer(i) ==
    /\ import[i].since <= mark /\ import[i].taken <= feedClock
    /\ import[i].step = "written" /\ import[i].kind # "kev" =>
        /\ import[i].at <= feedClock
        /\ \A c \in Cve : \A r \in revisions[c] :
            /\ \A q \in revisions[c] : q <= r
            /\ import[i].since <= r /\ r < import[i].at /\ r < import[i].taken
            /\ import[i].kind = "bundle" \/ r >= import[i].taken - MaxWindow
            => import[i].got[c] = r \/ c \in import[i].rejected

FeedInv == FeedTypeOK /\ Apart /\ Flagged /\ (\A i \in Importer : Current(i)) /\ (\A i \in Importer : Newer(i))

LEMMA FeedParts ==
    /\ FeedInv <=> FeedTypeOK /\ Apart /\ Flagged /\ (\A i \in Importer : Current(i)) /\ (\A i \in Importer : Newer(i))
    /\ FeedTypeOK => feedClock \in Nat /\ mark \in Nat /\ mark <= feedClock
    /\ FeedTypeOK => \A c \in Cve : revisions[c] \in SUBSET Nat /\ \A r \in revisions[c] : r <= feedClock
<1>1. FeedInv <=> FeedTypeOK /\ Apart /\ Flagged /\ (\A i \in Importer : Current(i)) /\ (\A i \in Importer : Newer(i))
  BY DEF FeedInv
<1>2. FeedTypeOK => feedClock \in Nat /\ mark \in Nat /\ mark <= feedClock
  BY DEF FeedTypeOK
<1>3. FeedTypeOK => \A c \in Cve : revisions[c] \in SUBSET Nat /\ \A r \in revisions[c] : r <= feedClock
  BY DEF FeedTypeOK
<1> QED BY <1>1, <1>2, <1>3

\* An import's record.
LEMMA ImportIs ==
    ASSUME FeedTypeOK, NEW i \in Importer
    PROVE  /\ import[i].kind \in {"none", "nvd", "bundle", "kev"} /\ import[i].step \in {"", "fetch", "written"}
           /\ import[i].since \in Nat /\ import[i].taken \in Nat /\ import[i].at \in Nat
           /\ import[i].got \in [Cve -> Nat] /\ import[i].says \in [Cve -> {"same", "listed", "cleared"}]
           /\ import[i].seen \in SUBSET Cve /\ import[i].rejected \in SUBSET Cve
<1>1. import[i] \in AnImport
  BY DEF FeedTypeOK
<1> QED BY <1>1 DEF AnImport

LEMMA FeedInitInv == FeedInit => FeedInv
<1> SUFFICES ASSUME FeedInit PROVE FeedInv
  OBVIOUS
<1>1. /\ feedClock = 1 /\ revisions = [c \in Cve |-> {}] /\ catalogue = {} /\ stored = [c \in Cve |-> 0]
      /\ flag = [c \in Cve |-> "unchecked"] /\ entries = {} /\ applied = {} /\ mark = 0
      /\ import = [i \in Importer |-> NoImport]
  BY DEF FeedInit
<1>2. NoImport \in AnImport
  BY DEF NoImport, AnImport
<1>4. FeedTypeOK
  <2>1. \A c \in Cve : \A r \in revisions[c] : r <= feedClock
    BY <1>1
  <2>2. revisions \in [Cve -> SUBSET Nat] /\ stored \in [Cve -> Nat] /\ flag \in [Cve -> {"unchecked", "listed", "cleared"}]
    BY <1>1
  <2>3. import \in [Importer -> AnImport]
    BY <1>1, <1>2
  <2>4. feedClock \in Nat /\ mark \in Nat /\ mark <= feedClock
    BY <1>1
  <2> QED BY <1>1, <2>1, <2>2, <2>3, <2>4 DEF FeedTypeOK
<1>5. Apart /\ Flagged
  BY <1>1 DEF Apart, Flagged, NothingStaysUnchecked, ListedIsNeverCleared, NoImport
<1>6. ASSUME NEW i \in Importer PROVE Current(i) /\ Newer(i)
  <2>1. import[i].kind = "none" /\ import[i].step = "" /\ import[i].since = 0 /\ import[i].taken = 0 /\ import[i].at = 0 /\ import[i].seen = {}
    BY <1>1 DEF NoImport
  <2>2. Current(i)
    BY <2>1 DEF Current
  <2>3. Newer(i)
    <3>3. import[i].since = 0 /\ import[i].taken = 0 /\ mark = 0 /\ feedClock = 1
      BY <1>1, <2>1
    <3>1. import[i].since <= mark /\ import[i].taken <= feedClock
      BY <3>3
    <3>2. import[i].step # "written"
      BY <2>1
    <3> QED BY <3>1, <3>2 DEF Newer
  <2> QED BY <2>2, <2>3
<1> QED BY <1>4, <1>5, <1>6, FeedParts

\* The last revision made by a time.
LEMMA LatestIs ==
    ASSUME FeedTypeOK, NEW c \in Cve, NEW by \in Nat
    PROVE  /\ Latest(c, by) \in Nat
           /\ Latest(c, by) # 0 => Latest(c, by) \in revisions[c] /\ Latest(c, by) <= by
           /\ \A r \in revisions[c] : r <= by => r <= Latest(c, by)
<1> DEFINE S == {r \in revisions[c] : r <= by} \cup {0}
<1>1. revisions[c] \subseteq Nat
  BY FeedParts
<1>2. S \subseteq 0 .. by /\ S # {}
  BY <1>1
<1>3. Max(S) \in S /\ \A x \in S : x <= Max(S)
  <2> HIDE DEF S
  <2> QED BY <1>2, Greatest
<1> QED BY <1>1, <1>2, <1>3 DEF Latest

\* Time passes, NVD revises, the catalogue changes.
LEMMA WorldKeeps == FeedInv /\ (FeedTick \/ \E c \in Cve : Revise(c) \/ Recatalogue(c)) => FeedInv'
<1> SUFFICES ASSUME FeedInv, FeedTick \/ \E c \in Cve : Revise(c) \/ Recatalogue(c) PROVE FeedInv'
  OBVIOUS
<1>0. FeedTypeOK /\ Apart /\ Flagged /\ (\A i \in Importer : Current(i)) /\ (\A i \in Importer : Newer(i))
  BY FeedParts
<1>1. UNCHANGED <<stored, flag, entries, applied, mark, import, raced>>
  BY DEF FeedTick, Revise, Recatalogue
<1>2. feedClock' \in Nat /\ feedClock <= feedClock' /\ catalogue' \subseteq Cve /\ feedClock \in Nat
  <2>1. feedClock \in Nat /\ catalogue \subseteq Cve
    BY <1>0 DEF FeedTypeOK
  <2> QED BY <2>1 DEF FeedTick, Revise, Recatalogue
<1>3. \/ revisions' = revisions
      \/ feedClock' = feedClock /\ \E c \in Cve : revisions' = [revisions EXCEPT ![c] = @ \cup {feedClock}]
  BY DEF FeedTick, Revise, Recatalogue
<1>4. revisions' \in [Cve -> SUBSET Nat]
  <2>1. \A S \in SUBSET Nat : S \cup {feedClock} \in SUBSET Nat
    BY <1>2
  <2>2. revisions \in [Cve -> SUBSET Nat]
    BY <1>0 DEF FeedTypeOK
  <2> QED BY <1>3, <2>1, <2>2
<1>5. ASSUME NEW c \in Cve
      PROVE  revisions[c] \subseteq revisions'[c] /\ \A r \in revisions'[c] : r \in revisions[c] \/ r = feedClock
  <2>1. \/ revisions'[c] = revisions[c]
        \/ revisions'[c] = revisions[c] \cup {feedClock}
    BY <1>0, <1>3 DEF FeedTypeOK
  <2> QED BY <2>1
<1>6. ASSUME NEW i \in Importer PROVE Newer(i)'
  <2>1. import[i].since <= mark /\ import[i].taken <= feedClock /\ import[i].taken \in Nat /\ import[i].at \in Nat /\ mark \in Nat
    BY <1>0, ImportIs, FeedParts DEF Newer
  <2>2. ASSUME import[i].step = "written", import[i].kind # "kev"
        PROVE  /\ import[i].at <= feedClock'
               /\ \A c \in Cve : \A r \in revisions'[c] :
                    /\ \A q \in revisions'[c] : q <= r
                    /\ import[i].since <= r /\ r < import[i].at /\ r < import[i].taken
                    /\ import[i].kind = "bundle" \/ r >= import[i].taken - MaxWindow
                    => import[i].got[c] = r \/ c \in import[i].rejected
    <3>1. import[i].at <= feedClock
      BY <1>0, <2>2 DEF Newer
    <3>2. ASSUME NEW c \in Cve, NEW r \in revisions'[c], \A q \in revisions'[c] : q <= r,
                 import[i].since <= r, r < import[i].at, r < import[i].taken,
                 import[i].kind = "bundle" \/ r >= import[i].taken - MaxWindow
          PROVE  import[i].got[c] = r \/ c \in import[i].rejected
      <4>1. r \in revisions[c] /\ \A q \in revisions[c] : q <= r
        BY <1>2, <1>5, <2>1, <3>1, <3>2
      <4> QED BY <1>0, <2>2, <3>2, <4>1 DEF Newer
    <3> QED BY <1>2, <2>1, <3>1, <3>2
  <2>3. import[i].taken <= feedClock'
    BY <1>2, <2>1
  <2> QED BY <1>1, <2>1, <2>2, <2>3 DEF Newer
<1>7. FeedTypeOK'
  <2>1. mark \in Nat /\ mark <= feedClock'
    BY <1>0, <1>2, FeedParts
  <2>2. \A c \in Cve : \A r \in revisions'[c] : r <= feedClock'
    BY <1>0, <1>2, <1>5, FeedParts
  <2> QED BY <1>0, <1>1, <1>2, <1>4, <2>1, <2>2 DEF FeedTypeOK
<1>8. Apart' /\ Flagged'
  BY <1>0, <1>1 DEF Apart, Flagged, NothingStaysUnchecked, ListedIsNeverCleared
<1>9. ASSUME NEW i \in Importer PROVE Current(i)'
  BY <1>0, <1>1 DEF Current, KevState
<1> QED BY <1>6, <1>7, <1>8, <1>9 DEF FeedInv

\* A step of one import that commits nothing.
LEMMA OneImports ==
    ASSUME FeedInv, NEW i \in Importer, NEW new \in AnImport, import' = [import EXCEPT ![i] = new],
           UNCHANGED <<feedClock, revisions, catalogue, stored, flag, entries, applied, mark>>,
           raced => raced', Apart', Current(i)', Newer(i)'
    PROVE  FeedInv'
<1>1. FeedTypeOK /\ Flagged /\ (\A j \in Importer : Current(j)) /\ (\A j \in Importer : Newer(j)) /\ import \in [Importer -> AnImport]
  BY FeedParts DEF FeedTypeOK
<1>2. FeedTypeOK'
  <2>1. import' \in [Importer -> AnImport]
    BY <1>1
  <2> QED BY <1>1, <2>1 DEF FeedTypeOK
<1>3. Flagged'
  BY <1>1 DEF Flagged, NothingStaysUnchecked, ListedIsNeverCleared
<1>4. ASSUME NEW j \in Importer, j # i PROVE Current(j)' /\ Newer(j)'
  <2>1. import'[j] = import[j]
    BY <1>1, <1>4
  <2>2. Current(j)'
    <3>1. Current(j) /\ (~raced' => ~raced)
      BY <1>1
    <3> QED BY <2>1, <3>1 DEF Current, KevState
  <2>3. Newer(j)'
    BY <1>1, <2>1 DEF Newer
  <2> QED BY <2>2, <2>3
<1> QED BY <1>2, <1>3, <1>4 DEF FeedInv

LEMMA BeginsKeeps ==
    ASSUME FeedInv, NEW i \in Importer, NEW record \in AnImport, Begins(i, record), record.kind # "none", record.step = "fetch",
           record.kind = "kev" => \A c \in Cve : record.got[c] = 0, record.kind # "kev" => record.seen = {},
           record.since <= mark, record.taken <= feedClock
    PROVE  FeedInv'
<1>1. FeedTypeOK /\ Apart /\ import \in [Importer -> AnImport]
  BY FeedParts DEF FeedTypeOK
<1>2. /\ import' = [import EXCEPT ![i] = record] /\ UNCHANGED <<feedClock, revisions, catalogue, stored, flag, entries, applied, mark>>
      /\ raced' = (raced \/ \E j \in Importer : import[j].kind # "none" /\ (import[j].kind = "kev") # (record.kind = "kev"))
  BY <1>1 DEF Begins
<1>3. import'[i] = record /\ \A j \in Importer \ {i} : import'[j] = import[j]
  BY <1>1, <1>2
<1>4. raced => raced'
  BY <1>2
<1>5. Apart'
  <2>1. ASSUME ~raced', NEW j \in Importer, import[j].kind # "none" PROVE import[j].kind = "kev" <=> record.kind = "kev"
    BY <1>2, <2>1
  <2>2. ~raced' => ~raced
    BY <1>4
  <2> QED BY <1>1, <1>3, <2>1, <2>2 DEF Apart
<1>6. Current(i)'
  BY <1>3 DEF Current
<1>7. Newer(i)'
  <2>1. import'[i].since <= mark' /\ import'[i].taken <= feedClock'
    BY <1>2, <1>3
  <2>2. import'[i].step # "written"
    BY <1>3
  <2> QED BY <2>1, <2>2 DEF Newer
<1> QED BY <1>2, <1>4, <1>5, <1>6, <1>7, OneImports

\* An import's first and later records.
LEMMA ImportingIs ==
    ASSUME NEW kind \in {"nvd", "bundle", "kev"}, NEW since \in Nat, NEW taken \in Nat, NEW seen \in SUBSET Cve
    PROVE  /\ Importing(kind, since, taken, seen) \in AnImport
           /\ Importing(kind, since, taken, seen).kind = kind /\ Importing(kind, since, taken, seen).step = "fetch"
           /\ Importing(kind, since, taken, seen).since = since /\ Importing(kind, since, taken, seen).taken = taken
           /\ Importing(kind, since, taken, seen).seen = seen
           /\ \A c \in Cve : Importing(kind, since, taken, seen).got[c] = 0
<1>1. [c \in Cve |-> 0] \in [Cve -> Nat] /\ [c \in Cve |-> "same"] \in [Cve -> {"same", "listed", "cleared"}]
  OBVIOUS
<1>2. Importing(kind, since, taken, seen) \in AnImport
  BY <1>1 DEF Importing, AnImport
<1>3. \A c \in Cve : Importing(kind, since, taken, seen).got[c] = 0
  BY DEF Importing
<1> QED BY <1>2, <1>3 DEF Importing

LEMMA WrittenIs ==
    ASSUME FeedTypeOK, NEW i \in Importer, NEW got \in [Cve -> Nat], NEW says \in [Cve -> {"same", "listed", "cleared"}],
           NEW rejected \in SUBSET Cve
    PROVE  /\ Written(i, got, says, rejected) \in AnImport
           /\ Written(i, got, says, rejected).kind = import[i].kind /\ Written(i, got, says, rejected).step = "written"
           /\ Written(i, got, says, rejected).since = import[i].since /\ Written(i, got, says, rejected).taken = import[i].taken
           /\ Written(i, got, says, rejected).at = feedClock /\ Written(i, got, says, rejected).got = got
           /\ Written(i, got, says, rejected).says = says /\ Written(i, got, says, rejected).rejected = rejected
           /\ Written(i, got, says, rejected).seen = import[i].seen
<1>1. feedClock \in Nat
  BY FeedParts
<1>2. Written(i, got, says, rejected) \in AnImport
  BY <1>1, ImportIs DEF Written, AnImport
<1> QED BY <1>2 DEF Written

LEMMA StartsKeep == \A i \in Importer : FeedInv /\ (StartNvd(i) \/ StartBundle(i) \/ StartKev(i)) => FeedInv'
<1> SUFFICES ASSUME NEW i \in Importer, FeedInv, StartNvd(i) \/ StartBundle(i) \/ StartKev(i) PROVE FeedInv'
  OBVIOUS
<1>1. feedClock \in Nat /\ mark \in Nat /\ mark <= feedClock /\ catalogue \in SUBSET Cve
  BY FeedParts DEF FeedTypeOK
<1>2. ASSUME NEW kind \in {"nvd", "bundle", "kev"}, NEW since \in Nat, NEW taken \in Nat, NEW seen \in SUBSET Cve,
             since <= mark, taken <= feedClock, kind # "kev" => seen = {}, Begins(i, Importing(kind, since, taken, seen))
      PROVE  FeedInv'
  <2> DEFINE new == Importing(kind, since, taken, seen)
  <2>1. /\ new \in AnImport /\ new.kind = kind /\ new.step = "fetch" /\ new.since = since /\ new.taken = taken /\ new.seen = seen
        /\ \A c \in Cve : new.got[c] = 0
    BY <1>2, ImportingIs
  <2>2. Begins(i, new)
    BY <1>2
  <2> HIDE DEF new
  <2> QED BY <1>2, <2>1, <2>2, BeginsKeeps
<1>3. CASE StartNvd(i)
  BY <1>1, <1>2, <1>3 DEF StartNvd
<1>4. CASE StartBundle(i)
  BY <1>1, <1>2, <1>4 DEF StartBundle
<1>5. CASE StartKev(i)
  BY <1>1, <1>2, <1>5 DEF StartKev
<1> QED BY <1>3, <1>4, <1>5

LEMMA AbandonKeeps == \A i \in Importer : FeedInv /\ Abandon(i) => FeedInv'
<1> SUFFICES ASSUME NEW i \in Importer, FeedInv, Abandon(i) PROVE FeedInv'
  OBVIOUS
<1>1. FeedTypeOK /\ Apart /\ import \in [Importer -> AnImport] /\ feedClock \in Nat /\ mark \in Nat
  BY FeedParts DEF FeedTypeOK
<1>2. import' = [import EXCEPT ![i] = NoImport] /\ UNCHANGED <<feedClock, revisions, catalogue, stored, flag, entries, applied, mark, raced>>
  BY DEF Abandon
<1>3. import'[i] = NoImport /\ \A j \in Importer \ {i} : import'[j] = import[j]
  BY <1>1, <1>2
<1>4. /\ NoImport \in AnImport /\ NoImport.kind = "none" /\ NoImport.step = "" /\ NoImport.since = 0 /\ NoImport.taken = 0
      /\ NoImport.seen = {}
  BY DEF NoImport, AnImport
<1>5. Apart'
  BY <1>1, <1>2, <1>3, <1>4 DEF Apart
<1>6. Current(i)'
  BY <1>3, <1>4 DEF Current
<1>7. Newer(i)'
  <2>1. import'[i].since <= mark' /\ import'[i].taken <= feedClock'
    <3>1. 0 <= mark /\ 0 <= feedClock
      BY <1>1
    <3> QED BY <1>2, <1>3, <1>4, <3>1
  <2>2. import'[i].step # "written"
    BY <1>3, <1>4
  <2> QED BY <2>1, <2>2 DEF Newer
<1> QED BY <1>2, <1>4, <1>5, <1>6, <1>7, OneImports

LEMMA CurrentIf ==
    ASSUME NEW i, NEW new, import'[i] = new, new.kind # "none",
           new.kind = "kev" => \A c \in Cve : new.got[c] = 0, new.kind # "kev" => new.seen = {},
           \A c \in Cve : new.says[c] = IF new.kind = "kev"
                                        THEN IF stored'[c] = 0 THEN "same" ELSE IF c \in new.seen THEN "listed" ELSE "cleared"
                                        ELSE IF new.got[c] = 0 THEN "same" ELSE KevState(c)'
    PROVE  Current(i)'
BY DEF Current, KevState

\* A run's row and records are written and not committed.
LEMMA WritesKeep ==
    ASSUME FeedInv, NEW i \in Importer, import[i].kind # "none", NEW got \in [Cve -> Nat], NEW says \in [Cve -> {"same", "listed", "cleared"}],
           NEW rejected \in SUBSET Cve,
           import' = [import EXCEPT ![i] = Written(i, got, says, rejected)],
           UNCHANGED <<feedClock, revisions, catalogue, stored, flag, entries, applied, mark, raced>>,
           import[i].kind = "kev" => \A c \in Cve : got[c] = 0 /\ says[c] = Verdicts(import[i].seen)[c],
           import[i].kind # "kev" => \A c \in Cve : says[c] = IF got[c] = 0 THEN "same" ELSE KevState(c),
           import[i].kind # "kev" =>
             \A c \in Cve : \A r \in revisions[c] :
               /\ \A q \in revisions[c] : q <= r
               /\ import[i].since <= r /\ r < import[i].taken
               /\ import[i].kind = "bundle" \/ r >= import[i].taken - MaxWindow
               => got[c] = r \/ c \in rejected
    PROVE  FeedInv'
<1> DEFINE new == Written(i, got, says, rejected)
<1>1. FeedTypeOK /\ Apart /\ Current(i) /\ Newer(i) /\ import \in [Importer -> AnImport]
  BY FeedParts DEF FeedTypeOK
<1>2. /\ new \in AnImport /\ new.kind = import[i].kind /\ new.step = "written" /\ new.since = import[i].since
      /\ new.taken = import[i].taken /\ new.at = feedClock /\ new.got = got /\ new.says = says
      /\ new.rejected = rejected /\ new.seen = import[i].seen
  BY <1>1, WrittenIs
<1>0. import' = [import EXCEPT ![i] = new]
  OBVIOUS
<1> HIDE DEF new
<1>3. import'[i] = new /\ \A j \in Importer \ {i} : import'[j] = import[j]
  BY <1>0, <1>1
<1>4. \A j \in Importer : import'[j].kind = import[j].kind
  BY <1>2, <1>3
<1>5. Apart'
  BY <1>1, <1>4 DEF Apart
<1>6. Current(i)'
  <2>1. import[i].kind # "kev" => import[i].seen = {}
    BY <1>1 DEF Current
  <2>2. ASSUME NEW c \in Cve
        PROVE  new.says[c] = IF new.kind = "kev"
                             THEN IF stored[c] = 0 THEN "same" ELSE IF c \in new.seen THEN "listed" ELSE "cleared"
                             ELSE IF new.got[c] = 0 THEN "same" ELSE KevState(c)
    BY <1>2 DEF Verdicts
  <2>3. \A c \in Cve : stored'[c] = stored[c] /\ KevState(c)' = KevState(c)
    BY DEF KevState
  <2>4. new.kind = "kev" => \A c \in Cve : new.got[c] = 0
    BY <1>2
  <2>5. new.kind # "none" /\ (new.kind # "kev" => new.seen = {})
    BY <1>2, <2>1
  <2>6. \A c \in Cve : new.says[c] = IF new.kind = "kev"
                                     THEN IF stored'[c] = 0 THEN "same" ELSE IF c \in new.seen THEN "listed" ELSE "cleared"
                                     ELSE IF new.got[c] = 0 THEN "same" ELSE KevState(c)'
    BY <2>2, <2>3
  <2>7. import'[i] = new
    BY <1>3
  <2> QED BY <2>4, <2>5, <2>6, <2>7, CurrentIf
<1>7. Newer(i)'
  <2>1. import[i].since <= mark /\ import[i].taken <= feedClock /\ feedClock <= feedClock
    BY <1>1, FeedParts DEF Newer
  <2>2. ASSUME new.kind # "kev", NEW c \in Cve, NEW r \in revisions[c], \A q \in revisions[c] : q <= r,
               new.since <= r, r < new.at, r < new.taken, new.kind = "bundle" \/ r >= new.taken - MaxWindow
        PROVE  new.got[c] = r \/ c \in new.rejected
    BY <1>2, <2>2
  <2> QED BY <1>2, <1>3, <2>1, <2>2 DEF Newer
<1> QED BY <1>0, <1>2, <1>5, <1>6, <1>7, OneImports

LEMMA IngestNvdKeeps == \A i \in Importer : FeedInv /\ IngestNvd(i) => FeedInv'
<1> SUFFICES ASSUME NEW i \in Importer, FeedInv, IngestNvd(i) PROVE FeedInv'
  OBVIOUS
<1>0. PICK rejected \in SUBSET {c \in Cve : Offered(i, c) # 0} :
        LET g == [c \in Cve |-> IF c \in rejected THEN 0 ELSE Offered(i, c)]
        IN  import' = [import EXCEPT ![i] =
               Written(i, g, [c \in Cve |-> IF g[c] = 0 THEN "same" ELSE KevState(c)], rejected)]
  BY DEF IngestNvd
<1> DEFINE got == [c \in Cve |-> IF c \in rejected THEN 0 ELSE Offered(i, c)]
           says == [c \in Cve |-> IF got[c] = 0 THEN "same" ELSE KevState(c)]
<1>1. FeedTypeOK /\ Newer(i) /\ feedClock \in Nat /\ mark \in Nat /\ MaxWindow \in Nat \ {0}
  BY FeedParts, FeedAssumption
<1>2. /\ import[i].kind \in {"nvd", "bundle"} /\ import' = [import EXCEPT ![i] = Written(i, got, says, rejected)]
      /\ UNCHANGED <<feedClock, revisions, catalogue, stored, flag, entries, applied, mark, raced>>
      /\ rejected \in SUBSET Cve
  BY <1>0 DEF IngestNvd
<1>3. import[i].since \in Nat /\ import[i].taken \in Nat /\ import[i].taken <= feedClock
  BY <1>1, ImportIs DEF Newer
<1>4. ASSUME NEW c \in Cve
      PROVE  /\ Offered(i, c) \in Nat
             /\ \A r \in revisions[c] :
                  /\ \A q \in revisions[c] : q <= r
                  /\ import[i].since <= r /\ r < import[i].taken
                  /\ import[i].kind = "bundle" \/ r >= import[i].taken - MaxWindow
                  => Offered(i, c) = r
  <2>1. \A by \in Nat : /\ Latest(c, by) \in Nat
                        /\ Latest(c, by) # 0 => Latest(c, by) \in revisions[c] /\ Latest(c, by) <= by
                        /\ \A r \in revisions[c] : r <= by => r <= Latest(c, by)
    BY <1>1, LatestIs
  <2>2. Offered(i, c) \in Nat
    BY <1>1, <1>3, <2>1 DEF Offered
  <2>3. ASSUME NEW r \in revisions[c], \A q \in revisions[c] : q <= r,
               import[i].since <= r, r < import[i].taken,
               import[i].kind = "bundle" \/ r >= import[i].taken - MaxWindow
        PROVE  Offered(i, c) = r
    <3>1. r \in Nat /\ r <= feedClock
      BY <1>1, FeedParts
    <3>2. \A by \in Nat : r <= by => Latest(c, by) = r
      BY <2>1, <2>3, <3>1
    <3>3. Latest(c, import[i].taken) = r /\ Latest(c, feedClock) = r
      BY <1>1, <1>3, <2>3, <3>1, <3>2
    <3>4. import[i].kind # "bundle" => r \in WindowStart(import[i].since, import[i].taken) .. import[i].taken
      BY <1>1, <1>3, <2>3, <3>1, LargerIs DEF WindowStart
    <3> QED BY <3>3, <3>4 DEF Offered
  <2> QED BY <2>2, <2>3
<1>5. got \in [Cve -> Nat] /\ \A c \in Cve : got[c] = Offered(i, c) \/ c \in rejected
  BY <1>4
<1> HIDE DEF got
<1>6. says \in [Cve -> {"same", "listed", "cleared"}] /\ \A c \in Cve : says[c] = IF got[c] = 0 THEN "same" ELSE KevState(c)
  BY DEF KevState
<1> HIDE DEF says
<1>7. import[i].kind # "none" /\ import[i].kind # "kev"
  BY <1>2
<1>8. \A c \in Cve : \A r \in revisions[c] :
        /\ \A q \in revisions[c] : q <= r
        /\ import[i].since <= r /\ r < import[i].taken
        /\ import[i].kind = "bundle" \/ r >= import[i].taken - MaxWindow
        => got[c] = r \/ c \in rejected
  BY <1>4, <1>5
<1> QED BY <1>2, <1>5, <1>6, <1>7, <1>8, WritesKeep

LEMMA IngestKevKeeps == \A i \in Importer : FeedInv /\ IngestKev(i) => FeedInv'
<1> SUFFICES ASSUME NEW i \in Importer, FeedInv, IngestKev(i) PROVE FeedInv'
  OBVIOUS
<1> DEFINE got == import[i].got
           says == Verdicts(import[i].seen)
<1>1. FeedTypeOK /\ Current(i)
  BY FeedParts
<1>2. /\ import[i].kind = "kev" /\ import' = [import EXCEPT ![i] = Written(i, got, says, {})]
      /\ UNCHANGED <<feedClock, revisions, catalogue, stored, flag, entries, applied, mark, raced>>
  BY DEF IngestKev
<1>3. got \in [Cve -> Nat] /\ \A c \in Cve : got[c] = 0
  BY <1>1, <1>2, ImportIs DEF Current
<1>4. says \in [Cve -> {"same", "listed", "cleared"}] /\ \A c \in Cve : says[c] = Verdicts(import[i].seen)[c]
  BY DEF Verdicts
<1> HIDE DEF got, says
<1>5. {} \in SUBSET Cve
  OBVIOUS
<1> QED BY <1>2, <1>3, <1>4, <1>5, WritesKeep

LEMMA FinishKeeps == \A i \in Importer, ok \in BOOLEAN : FeedInv /\ Finish(i, ok) => FeedInv'
<1> SUFFICES ASSUME NEW i \in Importer, NEW ok \in BOOLEAN, FeedInv, Finish(i, ok) PROVE FeedInv'
  OBVIOUS
<1>1. /\ FeedTypeOK /\ Apart /\ Flagged /\ (\A j \in Importer : Current(j)) /\ (\A j \in Importer : Newer(j))
      /\ import \in [Importer -> AnImport] /\ feedClock \in Nat /\ mark \in Nat /\ mark <= feedClock
  BY FeedParts DEF FeedTypeOK
<1>2. /\ import[i].step = "written" /\ import' = [import EXCEPT ![i] = NoImport] /\ UNCHANGED <<feedClock, revisions, catalogue, raced>>
      /\ stored' = [c \in Cve |-> IF ok /\ import[i].got[c] # 0 THEN import[i].got[c] ELSE stored[c]]
      /\ flag' = [c \in Cve |-> IF ok /\ import[i].says[c] # "same" THEN import[i].says[c] ELSE flag[c]]
      /\ entries' = IF ok THEN entries \cup import[i].seen ELSE entries
      /\ applied' = IF ok /\ import[i].kind = "kev" THEN import[i].seen ELSE applied
      /\ mark' = IF Succeeded(i, ok) THEN Max({mark, import[i].at}) ELSE mark
  BY DEF Finish
<1>3. import'[i] = NoImport /\ \A j \in Importer \ {i} : import'[j] = import[j]
  BY <1>1, <1>2
<1>4. /\ NoImport \in AnImport /\ NoImport.kind = "none" /\ NoImport.step = "" /\ NoImport.since = 0 /\ NoImport.taken = 0
      /\ NoImport.seen = {}
  BY DEF NoImport, AnImport
<1>5. import[i].kind # "none" /\ import[i].at \in Nat /\ import[i].seen \in SUBSET Cve
      /\ import[i].got \in [Cve -> Nat] /\ import[i].says \in [Cve -> {"same", "listed", "cleared"}]
  BY <1>1, <1>2, ImportIs DEF Current
<1>6. mark' \in Nat /\ mark <= mark' /\ mark' <= feedClock
  <2>1. CASE Succeeded(i, ok)
    <3>1. import[i].kind # "kev" /\ import[i].at <= feedClock
      BY <1>1, <1>2, <2>1 DEF Succeeded, Newer
    <3>2. mark' = IF mark < import[i].at THEN import[i].at ELSE mark
      BY <1>1, <1>2, <1>5, <2>1, LargerIs
    <3> QED BY <1>1, <1>5, <3>1, <3>2
  <2>2. CASE ~Succeeded(i, ok)
    BY <1>1, <1>2, <2>2
  <2> QED BY <2>1, <2>2
<1>7. stored' \in [Cve -> Nat] /\ flag' \in [Cve -> {"unchecked", "listed", "cleared"}]
  <2>1. stored \in [Cve -> Nat] /\ flag \in [Cve -> {"unchecked", "listed", "cleared"}]
    BY <1>1 DEF FeedTypeOK
  <2>2. \A c \in Cve : (IF ok /\ import[i].got[c] # 0 THEN import[i].got[c] ELSE stored[c]) \in Nat
    BY <1>5, <2>1
  <2>3. \A c \in Cve : (IF ok /\ import[i].says[c] # "same" THEN import[i].says[c] ELSE flag[c]) \in {"unchecked", "listed", "cleared"}
    BY <1>5, <2>1
  <2> QED BY <1>2, <2>2, <2>3
<1>8. FeedTypeOK'
  <2>1. import' \in [Importer -> AnImport]
    BY <1>1, <1>2, <1>4
  <2>2. entries' \subseteq Cve /\ applied' \subseteq Cve /\ catalogue' \subseteq Cve
    BY <1>1, <1>2, <1>5 DEF FeedTypeOK
  <2>3. revisions' \in [Cve -> SUBSET Nat] /\ \A c \in Cve : \A r \in revisions'[c] : r <= feedClock'
    BY <1>1, <1>2 DEF FeedTypeOK
  <2>4. feedClock' \in Nat /\ mark' \in Nat /\ mark' <= feedClock'
    BY <1>1, <1>2, <1>6
  <2> QED BY <1>7, <2>1, <2>2, <2>3, <2>4 DEF FeedTypeOK
<1>9. Apart'
  <2>1. \A j \in Importer : import'[j].kind # "none" => import'[j].kind = import[j].kind
    BY <1>3, <1>4
  <2> QED BY <1>1, <1>2, <2>1 DEF Apart
<1>10. \A c \in Cve : /\ stored'[c] = IF ok /\ import[i].got[c] # 0 THEN import[i].got[c] ELSE stored[c]
                      /\ flag'[c] = IF ok /\ import[i].says[c] # "same" THEN import[i].says[c] ELSE flag[c]
  BY <1>2
<1>11. import[i].kind = "kev" => \A c \in Cve : import[i].got[c] = 0 /\ stored'[c] = stored[c]
  BY <1>1, <1>10 DEF Current
<1>12. import[i].kind # "kev" => import[i].seen = {} /\ entries' = entries /\ applied' = applied
  <2>1. import[i].kind # "kev" => import[i].seen = {}
    BY <1>1 DEF Current
  <2> QED BY <1>2, <2>1
<1>16. applied \subseteq Cve
  BY <1>1 DEF FeedTypeOK
<1>13. Flagged'
  <2> SUFFICES ASSUME ~raced' PROVE applied' \subseteq entries' /\ NothingStaysUnchecked' /\ ListedIsNeverCleared'
    BY DEF Flagged
  <2>1. ~raced /\ applied \subseteq entries /\ NothingStaysUnchecked /\ ListedIsNeverCleared
    BY <1>1, <1>2 DEF Flagged
  <2>2. \A c \in Cve : import[i].says[c] = IF import[i].kind = "kev"
                                           THEN IF stored[c] = 0 THEN "same" ELSE IF c \in import[i].seen THEN "listed" ELSE "cleared"
                                           ELSE IF import[i].got[c] = 0 THEN "same" ELSE KevState(c)
    BY <1>1, <1>2, <2>1 DEF Current
  <2>3. CASE ~ok
    <3>1. entries' = entries /\ applied' = applied
      BY <1>2, <2>3
    <3>2. \A c \in Cve : stored'[c] = stored[c] /\ flag'[c] = flag[c]
      BY <1>10, <2>3
    <3> QED BY <1>2, <1>16, <2>1, <3>1, <3>2 DEF NothingStaysUnchecked, ListedIsNeverCleared
  <2>4. CASE ok /\ import[i].kind = "kev"
    <3>1. applied' = import[i].seen /\ entries' = entries \cup import[i].seen
      BY <1>2, <2>4
    <3>2. \A c \in Cve : stored'[c] # 0 => flag'[c] = IF c \in import[i].seen THEN "listed" ELSE "cleared"
      BY <1>10, <1>11, <2>2, <2>4
    <3> QED BY <1>5, <3>1, <3>2 DEF NothingStaysUnchecked, ListedIsNeverCleared
  <2>5. CASE ok /\ import[i].kind # "kev"
    <3>1. ASSUME NEW c \in Cve, stored'[c] # 0, entries # {} PROVE flag'[c] # "unchecked" /\ (c \in applied => flag'[c] = "listed")
      <4>1. CASE import[i].got[c] = 0
        BY <1>10, <2>1, <2>2, <2>5, <3>1, <4>1 DEF NothingStaysUnchecked, ListedIsNeverCleared
      <4>2. CASE import[i].got[c] # 0
        <5>1. import[i].says[c] = IF c \in entries THEN "listed" ELSE "cleared"
          BY <2>2, <2>5, <3>1, <4>2 DEF KevState
        <5> QED BY <1>10, <2>1, <2>5, <5>1
      <4> QED BY <4>1, <4>2
    <3>2. applied # {} => entries # {}
      BY <2>1
    <3> QED BY <1>12, <1>16, <2>1, <2>5, <3>1, <3>2 DEF NothingStaysUnchecked, ListedIsNeverCleared
  <2> QED BY <2>3, <2>4, <2>5
<1>14. ASSUME NEW j \in Importer PROVE Newer(j)'
  <2>1. CASE j = i
    <3>1. import'[j].since <= mark' /\ import'[j].taken <= feedClock' /\ import'[j].step # "written"
      <4>1. import'[j].since = 0 /\ import'[j].taken = 0 /\ import'[j].step = ""
        BY <1>3, <1>4, <2>1
      <4>2. 0 <= mark' /\ 0 <= feedClock'
        BY <1>1, <1>2, <1>6
      <4> QED BY <4>1, <4>2
    <3> QED BY <3>1 DEF Newer
  <2>2. CASE j # i
    <3>1. import'[j] = import[j] /\ import[j].since \in Nat
      BY <1>1, <1>3, <2>2, ImportIs
    <3>2. Newer(j)
      BY <1>1
    <3>3. import[j].since <= mark'
      BY <1>1, <1>6, <3>1, <3>2 DEF Newer
    <3> QED BY <1>2, <3>1, <3>2, <3>3 DEF Newer
  <2> QED BY <2>1, <2>2
<1>15. ASSUME NEW j \in Importer PROVE Current(j)'
  <2>1. CASE j = i
    <3>1. import'[j].kind = "none" /\ import'[j].step = "" /\ import'[j].seen = {}
      BY <1>3, <1>4, <2>1
    <3> QED BY <3>1 DEF Current
  <2>2. CASE j # i
    <3>1. import'[j] = import[j] /\ Current(j)
      BY <1>1, <1>3, <2>2
    <3>2. ASSUME import[j].step = "written", ~raced PROVE import[i].kind = "kev" <=> import[j].kind = "kev"
      BY <1>1, <1>5, <3>1, <3>2 DEF Apart, Current
    <3>3. ASSUME import[j].step = "written", ~raced, import[j].kind = "kev" PROVE \A c \in Cve : stored'[c] = stored[c]
      BY <1>11, <3>2, <3>3
    <3>4. ASSUME import[j].step = "written", ~raced, import[j].kind # "kev" PROVE entries' = entries
      BY <1>12, <3>2, <3>4
    <3> QED BY <1>2, <3>1, <3>3, <3>4 DEF Current, KevState
  <2> QED BY <2>1, <2>2
<1> QED BY <1>8, <1>9, <1>13, <1>14, <1>15 DEF FeedInv

\* The inductive invariant of the feeds.
THEOREM FeedInductive == FeedSpec => []FeedInv
<1>1. FeedInv /\ [FeedNext]_feedVars => FeedInv'
  <2> SUFFICES ASSUME FeedInv, [FeedNext]_feedVars PROVE FeedInv'
    OBVIOUS
  <2>1. CASE UNCHANGED feedVars
    <3>1. UNCHANGED <<feedClock, revisions, catalogue, stored, flag, entries, applied, mark, import, raced>>
      BY <2>1 DEF feedVars
    <3>2. FeedTypeOK' /\ Apart'
      BY <3>1, FeedParts DEF FeedTypeOK, Apart
    <3>3. Flagged'
      BY <3>1, FeedParts DEF Flagged, NothingStaysUnchecked, ListedIsNeverCleared
    <3>4. \A i \in Importer : Current(i)'
      BY <3>1, FeedParts DEF Current, KevState
    <3>5. \A i \in Importer : Newer(i)'
      BY <3>1, FeedParts DEF Newer
    <3> QED BY <3>2, <3>3, <3>4, <3>5 DEF FeedInv
  <2>2. CASE FeedNext
    BY <2>2, WorldKeeps, StartsKeep, IngestNvdKeeps, IngestKevKeeps, AbandonKeeps, FinishKeeps DEF FeedNext
  <2> QED BY <2>1, <2>2
<1> QED BY <1>1, FeedInitInv, PTL DEF FeedSpec

\* In whatever order the feeds arrive, the exploited flag of every CVE on record
\* follows the catalogue applied last, unless imports of the two kinds overlapped.
THEOREM FlagsFollow == FeedSpec => []FlagsFollowCatalogue
<1>1. FeedInv => FlagsFollowCatalogue
  BY FeedParts DEF Flagged, FlagsFollowCatalogue, NothingStaysUnchecked, ListedIsNeverCleared
<1> QED BY <1>1, FeedInductive, PTL

\* Over any number of CVEs, importers, failures and rejected records, the watermark
\* passes a revision that is not stored only where the row of the run says PARTIAL,
\* or in one of the three gaps NoSilentGap names.
THEOREM WatermarkIsSound == FeedSpec => NoSilentGap
<1> DEFINE Sound(i, ok) ==
             Finish(i, ok) /\ mark' > mark =>
                \A c \in Cve : LET r == Latest(c, feedClock) IN
                    r # 0 /\ r \in mark .. mark' - 1 =>
                       \/ stored'[c] = r
                       \/ RunStatus(i, ok) = "partial"
                       \/ r >= import[i].taken
                       \/ import[i].kind = "nvd" /\ import[i].since = 0 /\ r < import[i].taken - MaxWindow
<1>1. ASSUME FeedInv, NEW i \in Importer, NEW ok \in BOOLEAN, Finish(i, ok), mark' > mark, NEW c \in Cve,
             Latest(c, feedClock) # 0, Latest(c, feedClock) \in mark .. mark' - 1,
             RunStatus(i, ok) # "partial", ~(Latest(c, feedClock) >= import[i].taken),
             ~(import[i].kind = "nvd" /\ import[i].since = 0 /\ Latest(c, feedClock) < import[i].taken - MaxWindow)
      PROVE  stored'[c] = Latest(c, feedClock)
  <2> DEFINE r == Latest(c, feedClock)
  <2>1. FeedTypeOK /\ Newer(i) /\ feedClock \in Nat /\ mark \in Nat /\ MaxWindow \in Nat
    BY <1>1, FeedParts, FeedAssumption
  <2>2. r \in Nat /\ r \in revisions[c] /\ \A q \in revisions[c] : q <= r
    BY <1>1, <2>1, LatestIs, FeedParts
  <2>3. /\ import[i].since \in Nat /\ import[i].taken \in Nat /\ import[i].at \in Nat
        /\ import[i].since <= mark /\ import[i].step = "written"
    BY <1>1, <2>1, ImportIs DEF Newer, Finish
  <2>4. ok = TRUE /\ import[i].kind # "kev" /\ mark' = import[i].at
    <3>1. mark' = IF Succeeded(i, ok) THEN Max({mark, import[i].at}) ELSE mark
      BY <1>1 DEF Finish
    <3>2. Succeeded(i, ok)
      BY <1>1, <2>1, <3>1
    <3>3. Max({mark, import[i].at}) = IF mark < import[i].at THEN import[i].at ELSE mark
      BY <2>1, <2>3, LargerIs
    <3>4. ok /\ import[i].kind # "kev"
      BY <3>2 DEF Succeeded, RunStatus
    <3> QED BY <1>1, <2>1, <2>3, <3>1, <3>2, <3>3, <3>4
  <2>5. stored'[c] = IF import[i].got[c] # 0 THEN import[i].got[c] ELSE stored[c]
    BY <1>1, <2>4 DEF Finish
  <2>6. mark <= r /\ r < mark' /\ r < import[i].taken
    BY <1>1, <2>1, <2>2, <2>3, <2>4
  <2>10. import[i].rejected = {} /\ ~Skips(i)
    BY <1>1, <2>4 DEF RunStatus
  <2>11. ~(import[i].kind = "nvd" /\ import[i].since = 0 /\ r < import[i].taken - MaxWindow)
    BY <1>1
  <2> HIDE DEF r
  <2>7. import[i].since <= r /\ r < import[i].at
    BY <2>1, <2>2, <2>3, <2>4, <2>6
  <2>12. import[i].kind = "nvd" \/ import[i].kind = "bundle"
    BY <1>1, <2>1, <2>3, <2>4, ImportIs, FeedParts DEF Current
  <2>13. import[i].kind = "bundle" \/ r >= import[i].taken - MaxWindow
    BY <2>1, <2>2, <2>3, <2>6, <2>7, <2>10, <2>11, <2>12 DEF Skips
  <2>8. import[i].got[c] = r
    BY <2>1, <2>2, <2>3, <2>4, <2>6, <2>7, <2>10, <2>13 DEF Newer
  <2>9. r # 0
    BY <1>1 DEF r
  <2> QED BY <2>5, <2>8, <2>9 DEF r
<1>2. FeedInv => \A i \in Importer, ok \in BOOLEAN : Sound(i, ok)
  BY <1>1
<1>3. ASSUME FeedInv, FeedInv', [FeedNext]_feedVars PROVE [\A i \in Importer, ok \in BOOLEAN : Sound(i, ok)]_feedVars
  BY <1>2, <1>3
<1> QED BY <1>3, FeedInductive, PTL DEF FeedSpec, NoSilentGap

-----------------------------------------------------------------------------
(* The lifecycle of findings *)

Stage == {"store", "drift", "checks", "vulns"}
Status == {"none", "new", "open", "reopened", "resolved", "risk_accepted", "false_positive"}
Outcome == {"untouched", "kept", "new", "reopened", "resolved"}
Said == [key : Key, says : {"fail", "pass"}]
Kind == {"collect", "upload", "collect_and_assess", "assess_only", "vuln_rematch"}

ARun ==
    [busy : BOOLEAN, kind : Kind, plan : Seq(Stage), conf : Config \cup {NoOne}, row : Nat, left : Seq(Said),
     seen : Status \cup {NoOne}, wrote : [Key -> Outcome], device : BOOLEAN, audit : BOOLEAN, alone : BOOLEAN]

ASnap == [conf : Config \cup {NoOne}, by : Run \cup {NoOne, Lost}]

\* An update of a run's record, field by field.
LEMMA RunFields ==
    ASSUME NEW x \in ARun
    PROVE  /\ x.busy \in BOOLEAN /\ x.kind \in Kind /\ x.plan \in Seq(Stage) /\ x.conf \in Config \cup {NoOne} /\ x.row \in Nat
           /\ x.left \in Seq(Said) /\ x.seen \in Status \cup {NoOne} /\ x.wrote \in [Key -> Outcome]
           /\ x.device \in BOOLEAN /\ x.audit \in BOOLEAN /\ x.alone \in BOOLEAN
BY DEF ARun

AsDisturbed(x) == [x EXCEPT !.alone = FALSE]
AsStarted(x, kind, plan, c, audit, alone) ==
    [x EXCEPT !.busy = TRUE, !.kind = kind, !.plan = plan, !.conf = c, !.audit = audit, !.alone = alone]
AsStored(x, plan, own, device) == [x EXCEPT !.plan = plan, !.row = own, !.device = device]
AsBegun(x, plan, todo) == [x EXCEPT !.plan = plan, !.left = todo]
AsLooked(x, seen) == [x EXCEPT !.seen = seen]
AsWritten(x, todo, k, status) == [x EXCEPT !.left = todo, !.seen = NoOne, !.wrote = [x.wrote EXCEPT ![k] = status]]

LEMMA RunDisturbed ==
    ASSUME NEW x \in ARun
    PROVE  LET y == AsDisturbed(x) IN
           /\ y \in ARun /\ ~y.alone /\ y.busy = x.busy /\ y.kind = x.kind /\ y.plan = x.plan /\ y.conf = x.conf /\ y.row = x.row
           /\ y.left = x.left /\ y.seen = x.seen /\ y.wrote = x.wrote
BY DEF ARun, AsDisturbed

LEMMA RunStarted ==
    ASSUME NEW x \in ARun, NEW kind \in Kind, NEW plan \in Seq(Stage), NEW c \in Config, NEW audit \in BOOLEAN, NEW alone \in BOOLEAN
    PROVE  LET y == AsStarted(x, kind, plan, c, audit, alone) IN
           /\ y \in ARun /\ y.busy /\ y.kind = kind /\ y.plan = plan /\ y.conf = c /\ y.alone = alone /\ y.row = x.row
           /\ y.left = x.left /\ y.seen = x.seen /\ y.wrote = x.wrote
BY DEF ARun, AsStarted

LEMMA RunStored ==
    ASSUME NEW x \in ARun, NEW plan \in Seq(Stage), NEW own \in Nat, NEW device \in BOOLEAN
    PROVE  LET y == AsStored(x, plan, own, device) IN
           /\ y \in ARun /\ y.busy = x.busy /\ y.kind = x.kind /\ y.plan = plan /\ y.conf = x.conf /\ y.row = own
           /\ y.left = x.left /\ y.seen = x.seen /\ y.wrote = x.wrote /\ y.alone = x.alone
BY DEF ARun, AsStored

LEMMA RunBegun ==
    ASSUME NEW x \in ARun, NEW plan \in Seq(Stage), NEW todo \in Seq(Said)
    PROVE  LET y == AsBegun(x, plan, todo) IN
           /\ y \in ARun /\ y.busy = x.busy /\ y.kind = x.kind /\ y.plan = plan /\ y.conf = x.conf /\ y.row = x.row
           /\ y.left = todo /\ y.seen = x.seen /\ y.wrote = x.wrote /\ y.alone = x.alone
BY DEF ARun, AsBegun

LEMMA RunLooked ==
    ASSUME NEW x \in ARun, NEW seen \in Status
    PROVE  LET y == AsLooked(x, seen) IN
           /\ y \in ARun /\ y.busy = x.busy /\ y.kind = x.kind /\ y.plan = x.plan /\ y.conf = x.conf /\ y.row = x.row
           /\ y.left = x.left /\ y.seen = seen /\ y.wrote = x.wrote /\ y.alone = x.alone
BY DEF ARun, AsLooked

LEMMA RunWrote ==
    ASSUME NEW x \in ARun, NEW todo \in Seq(Said), NEW k \in Key, NEW status \in Outcome
    PROVE  LET y == AsWritten(x, todo, k, status) IN
           /\ y \in ARun /\ y.busy = x.busy /\ y.kind = x.kind /\ y.plan = x.plan /\ y.conf = x.conf /\ y.row = x.row
           /\ y.left = todo /\ y.seen = NoOne /\ y.wrote = [x.wrote EXCEPT ![k] = status] /\ y.alone = x.alone
BY DEF ARun, AsWritten

LEMMA PlanIs ==
    /\ DOMAIN Plan = Kind /\ \A kind \in Kind : Plan[kind] \in Seq(Stage)
    /\ Plan["collect"] = <<"store", "drift">> /\ Plan["collect_and_assess"] = <<"store", "drift", "checks", "vulns">>
<1>1. DOMAIN Plan = Kind
  BY DEF Plan, Kind
<1>2. /\ Plan["collect"] = <<"store", "drift">> /\ Plan["collect_and_assess"] = <<"store", "drift", "checks", "vulns">>
      /\ Plan["upload"] = <<"store", "drift">> /\ Plan["assess_only"] = <<"checks">> /\ Plan["vuln_rematch"] = <<"vulns">>
  BY DEF Plan
<1>3. /\ <<"store", "drift">> \in Seq(Stage) /\ <<"store", "drift", "checks", "vulns">> \in Seq(Stage)
      /\ <<"checks">> \in Seq(Stage) /\ <<"vulns">> \in Seq(Stage)
  BY DEF Stage
<1>4. ASSUME NEW kind \in Kind PROVE Plan[kind] \in Seq(Stage)
  <2>1. \/ kind = "collect" \/ kind = "upload" \/ kind = "collect_and_assess" \/ kind = "assess_only" \/ kind = "vuln_rematch"
    BY DEF Kind
  <2> HIDE DEF Stage
  <2> QED BY <1>2, <1>3, <2>1
<1> QED BY <1>1, <1>2, <1>4

\* A finite set as a sequence: every member once.
LEMMA AsSequence ==
    ASSUME NEW S, IsFiniteSet(S)
    PROVE  /\ SetToSeq(S) \in Seq(S)
           /\ \A i, j \in DOMAIN SetToSeq(S) : SetToSeq(S)[i] = SetToSeq(S)[j] => i = j
           /\ \A v \in S : \E i \in DOMAIN SetToSeq(S) : SetToSeq(S)[i] = v
<1> DEFINE n == Cardinality(S)
           f == SetToSeq(S)
<1>1. n \in Nat /\ ExistsBijection(1 .. n, S)
  BY FS_CardinalityType
<1>2. IsFiniteSet(1 .. n) /\ Cardinality(1 .. n) = n
  <2>1. 1 \in Int /\ n \in Int
    BY <1>1
  <2>2. IsFiniteSet(1 .. n) /\ Cardinality(1 .. n) = IF 1 > n THEN 0 ELSE n - 1 + 1
    BY <2>1, FS_Interval
  <2> HIDE DEF n
  <2> QED BY <1>1, <2>2
<1>3. \E g \in [1 .. n -> S] : IsInjective(g)
  BY <1>1 DEF ExistsBijection, Bijection, Injection
<1>4. f \in [1 .. n -> S] /\ IsInjective(f)
  BY <1>3 DEF SetToSeq
<1>5. f \in Injection(1 .. n, S)
  BY <1>4 DEF Injection
<1> HIDE DEF f
<1>6. f \in Surjection(1 .. n, S)
  BY <1>2, <1>5, FS_Injection
<1> HIDE DEF n
<1>7. f \in Seq(S)
  BY <1>1, <1>4
<1>8. DOMAIN f = 1 .. n
  BY <1>4
<1>9. \A i, j \in DOMAIN f : f[i] = f[j] => i = j
  BY <1>4 DEF IsInjective
<1>10. \A v \in S : \E i \in DOMAIN f : f[i] = v
  BY <1>6, <1>8 DEF Surjection
<1> QED BY <1>7, <1>9, <1>10 DEF f

FindTypeOK ==
    /\ config \in Config /\ snaps \in Seq(ASnap) /\ baseline \in Nat
    /\ finding \in [Key -> Status] /\ excepted \in SUBSET CheckKey
    /\ runs \in [Run -> ARun]

\* Rows that were not undone hold a configuration, and the pinned row exists.
Stored ==
    /\ \A i \in DOMAIN snaps : snaps[i].by # Lost => snaps[i].conf \in Config
    /\ baseline # 0 => baseline \in DOMAIN snaps

\* Some row the run sees passes the finding.
Passes(r, k) == \E i \in Rows(r) : Verdict[snaps[i].conf][k] = "pass"

\* A run under way has a configuration, its row is one it sees, and what it is about to close or has closed some row passes.
Grounded(r) ==
    /\ runs[r].busy => runs[r].conf \in Config
    /\ runs[r].seen # NoOne => runs[r].left # <<>>
    /\ runs[r].row # 0 => runs[r].row \in Rows(r)
    /\ \A j \in DOMAIN runs[r].left :
         runs[r].left[j].says = "pass" /\ runs[r].left[j].key # Drift => Passes(r, runs[r].left[j].key)
    /\ \A k \in CheckKey \cup VulnKey : runs[r].wrote[k] = "resolved" => Passes(r, k)

GroundInv == FindTypeOK /\ Stored /\ \A r \in Run : Grounded(r)

LEMMA RowIs ==
    ASSUME FindTypeOK, NEW r
    PROVE  /\ \A i \in Rows(r) : i \in Nat /\ i # 0 /\ i \in DOMAIN snaps /\ snaps[i].by \in {NoOne, r}
           /\ \A i \in DOMAIN snaps : snaps[i].by \in {NoOne, r} => i \in Rows(r)
           /\ Committed \subseteq Rows(r)
           /\ Newest(Rows(r)) # 0 => Newest(Rows(r)) \in Rows(r)
           /\ Newest(Committed) # 0 => Newest(Committed) \in Committed
<1>1. snaps \in Seq(ASnap) /\ Len(snaps) \in Nat /\ DOMAIN snaps = 1 .. Len(snaps)
  BY DEF FindTypeOK
<1>2. \A i \in Rows(r) : i \in DOMAIN snaps /\ snaps[i].by \in {NoOne, r}
  BY DEF Rows
<1>3. Committed \subseteq Rows(r)
  BY DEF Committed, Rows
<1>4. ASSUME NEW S, S \subseteq DOMAIN snaps, Newest(S) # 0 PROVE Newest(S) \in S
  <2>1. S \cup {0} \subseteq 0 .. Len(snaps) /\ S \cup {0} # {}
    BY <1>1, <1>4
  <2>2. Max(S \cup {0}) \in S \cup {0}
    BY <1>1, <2>1, Greatest
  <2> QED BY <1>4, <2>2 DEF Newest
<1>5. \A i \in DOMAIN snaps : i \in Nat /\ i # 0
  BY <1>1
<1>6. \A i \in DOMAIN snaps : snaps[i].by \in {NoOne, r} => i \in Rows(r)
  BY DEF Rows
<1> QED BY <1>2, <1>3, <1>4, <1>5, <1>6 DEF Rows, Committed

LEMMA IdleIs ==
    /\ Idle \in ARun /\ ~Idle.busy /\ Idle.plan = <<>> /\ Idle.row = 0 /\ Idle.left = <<>> /\ Idle.seen = NoOne
    /\ \A k \in Key : Idle.wrote[k] = "untouched"
<1>1. [k \in Key |-> "untouched"] \in [Key -> Outcome]
  BY DEF Outcome
<1>2. Idle \in ARun
  BY <1>1 DEF Idle, ARun, Kind
<1>3. \A k \in Key : Idle.wrote[k] = "untouched"
  BY DEF Idle
<1> QED BY <1>2, <1>3 DEF Idle

LEMMA DisturbedIs ==
    ASSUME FindTypeOK, NEW r \in Run
    PROVE  /\ Disturbed(r) \in ARun
           /\ Underway(r) => /\ Disturbed(r).busy /\ ~Disturbed(r).alone /\ Disturbed(r).row = runs[r].row /\ Disturbed(r).conf = runs[r].conf
                             /\ Disturbed(r).left = runs[r].left /\ Disturbed(r).seen = runs[r].seen /\ Disturbed(r).wrote = runs[r].wrote
           /\ ~Underway(r) => Disturbed(r) = Idle
<1>1. runs[r] \in ARun
  BY DEF FindTypeOK
<1>2. LET y == AsDisturbed(runs[r]) IN
      /\ y \in ARun /\ ~y.alone /\ y.busy = runs[r].busy /\ y.conf = runs[r].conf /\ y.row = runs[r].row
      /\ y.left = runs[r].left /\ y.seen = runs[r].seen /\ y.wrote = runs[r].wrote
  BY <1>1, RunDisturbed
<1>3. Disturbed(r) = IF runs[r].busy THEN AsDisturbed(runs[r]) ELSE Idle
  BY DEF Disturbed, Underway, AsDisturbed
<1> QED BY <1>2, <1>3, IdleIs DEF Underway

\* The rows a run sees stay, with their configurations.
RowsLast(r) == \A i \in Rows(r) : i \in Rows(r)' /\ snaps'[i].conf = snaps[i].conf

LEMMA StaysGrounded ==
    ASSUME NEW r, Grounded(r), RowsLast(r), runs'[r].busy = runs[r].busy, runs'[r].conf = runs[r].conf, runs'[r].seen = runs[r].seen,
           runs'[r].row = runs[r].row, runs'[r].left = runs[r].left, runs'[r].wrote = runs[r].wrote
    PROVE  Grounded(r)'
<1>1. \A k : Passes(r, k) => Passes(r, k)'
  BY DEF Passes, RowsLast
<1> QED BY <1>1 DEF Grounded, RowsLast

LEMMA IdleGrounded == \A r : runs'[r] = Idle => Grounded(r)'
<1>1. \A k \in CheckKey \cup VulnKey : k \in Key
  BY DEF Key
<1>2. DOMAIN <<>> = {}
  OBVIOUS
<1> QED BY <1>1, <1>2, IdleIs DEF Grounded

\* What a judged row says of a set of findings, as a sequence of entries: each once.
Entered(keys, i, S) ==
    LET seq == SetToSeq(S) IN
    /\ seq \in Seq(Said)
    /\ \A j \in DOMAIN seq : /\ seq[j] \in S /\ seq[j].key \in keys
                             /\ seq[j].says = Verdict[snaps[i].conf][seq[j].key]
    /\ \A v \in S : \E j \in DOMAIN seq : seq[j] = v
    /\ \A j, m \in DOMAIN seq : seq[j].key = seq[m].key => j = m

LEMMA SaidOf ==
    ASSUME FindTypeOK, NEW keys, keys \subseteq CheckKey \cup VulnKey, NEW i \in DOMAIN snaps, snaps[i].conf \in Config,
           NEW S, S \subseteq Says(keys, i), \A v \in S : v.says # "silent"
    PROVE  Entered(keys, i, S)
<1> DEFINE verdict == Verdict[snaps[i].conf]
           f == [k \in keys |-> [key |-> k, says |-> verdict[k]]]
           seq == SetToSeq(S)
<1>1. verdict \in [CheckKey \cup VulnKey -> {"fail", "pass", "silent"}]
  BY FindingAssumption
<1>2. IsFiniteSet(keys)
  BY FindingAssumption, FS_Subset
<1>3. Says(keys, i) = {[key |-> k, says |-> verdict[k]] : k \in keys}
  BY DEF Says
<1> HIDE DEF verdict
<1>4. f \in Surjection(keys, Says(keys, i))
  BY <1>3 DEF Surjection
<1> HIDE DEF f
<1>5. IsFiniteSet(Says(keys, i))
  BY <1>2, <1>4, FS_Surjection
<1>6. IsFiniteSet(S)
  BY <1>5, FS_Subset
<1>7. /\ seq \in Seq(S) /\ \A v \in S : \E j \in DOMAIN seq : seq[j] = v
      /\ \A j, m \in DOMAIN seq : seq[j] = seq[m] => j = m
  BY <1>6, AsSequence
<1> HIDE DEF seq
<1>8. \A v \in S : /\ v.key \in keys /\ v.says = verdict[v.key] /\ v = [key |-> v.key, says |-> verdict[v.key]]
  BY <1>3
<1>9. \A j \in DOMAIN seq : seq[j] \in S
  BY <1>7
<1>10. S \subseteq Said
  <2>1. ASSUME NEW v \in S PROVE v \in Said
    <3>1. v.key \in Key /\ verdict[v.key] \in {"fail", "pass"}
      BY <1>1, <1>8 DEF Key
    <3> QED BY <1>8, <3>1 DEF Said
  <2> QED BY <2>1
<1>11. seq \in Seq(Said)
  BY <1>7, <1>10
<1>12. \A j, m \in DOMAIN seq : seq[j].key = seq[m].key => j = m
  BY <1>7, <1>8, <1>9
<1> QED BY <1>7, <1>8, <1>9, <1>11, <1>12 DEF Entered, seq, verdict

\* A step of one run.
LEMMA OneRuns ==
    ASSUME GroundInv, NEW r \in Run, NEW new \in ARun, runs' = [runs EXCEPT ![r] = new],
           UNCHANGED <<config, baseline, excepted>>, finding' \in [Key -> Status], snaps' \in Seq(ASnap), Stored',
           \A q \in Run \ {r} : RowsLast(q), Grounded(r)'
    PROVE  GroundInv'
<1>1. FindTypeOK /\ runs \in [Run -> ARun] /\ \A q \in Run : Grounded(q)
  BY DEF GroundInv, FindTypeOK
<1>2. runs' \in [Run -> ARun]
  BY <1>1
<1>3. FindTypeOK'
  BY <1>1, <1>2 DEF FindTypeOK
<1>4. ASSUME NEW q \in Run \ {r} PROVE Grounded(q)'
  <2>1. runs'[q] = runs[q]
    BY <1>1
  <2> QED BY <1>1, <2>1, StaysGrounded
<1> QED BY <1>3, <1>4 DEF GroundInv

\* Steps that store nothing.
LEMMA OneRunsOnly ==
    ASSUME GroundInv, NEW r \in Run, NEW new \in ARun, runs' = [runs EXCEPT ![r] = new],
           UNCHANGED <<config, snaps, baseline, finding, excepted>>, Grounded(r)'
    PROVE  GroundInv'
<1>1. \A q : RowsLast(q)
  BY DEF RowsLast, Rows
<1>2. finding' \in [Key -> Status] /\ snaps' \in Seq(ASnap) /\ Stored'
  BY DEF GroundInv, FindTypeOK, Stored
<1> QED BY <1>1, <1>2, OneRuns

LEMMA FindInitInv == FindingInit => GroundInv
<1> SUFFICES ASSUME FindingInit PROVE GroundInv
  OBVIOUS
<1>1. config \in Config /\ snaps = <<>> /\ baseline = 0 /\ finding = [k \in Key |-> "none"] /\ excepted = {} /\ runs = [r \in Run |-> Idle]
  BY DEF FindingInit
<1>2. finding \in [Key -> Status]
  BY <1>1 DEF Status
<1>3. runs \in [Run -> ARun]
  BY <1>1, IdleIs
<1>4. FindTypeOK
  BY <1>1, <1>2, <1>3 DEF FindTypeOK
<1>5. Stored
  BY <1>1 DEF Stored
<1>6. ASSUME NEW r \in Run PROVE Grounded(r)
  <2>1. ~runs[r].busy /\ runs[r].seen = NoOne /\ runs[r].row = 0 /\ runs[r].left = <<>> /\ \A k \in Key : runs[r].wrote[k] = "untouched"
    BY <1>1, IdleIs
  <2>2. \A k \in CheckKey \cup VulnKey : k \in Key
    BY DEF Key
  <2> QED BY <2>1, <2>2 DEF Grounded
<1> QED BY <1>4, <1>5, <1>6 DEF GroundInv

\* People and the device: every run under way is disturbed.
LEMMA DecideGrounds ==
    ASSUME GroundInv, runs' = [r \in Run |-> Disturbed(r)], snaps' = snaps, config' \in Config, baseline' = 0 \/ baseline' \in DOMAIN snaps,
           finding' \in [Key -> Status], excepted' \in SUBSET CheckKey
    PROVE  GroundInv'
<1>1. FindTypeOK /\ Stored /\ (\A r \in Run : Grounded(r)) /\ snaps \in Seq(ASnap)
  BY DEF GroundInv, FindTypeOK
<1>2. baseline' \in Nat
  BY <1>1
<1>3. runs' \in [Run -> ARun]
  BY <1>1, DisturbedIs
<1>4. FindTypeOK'
  BY <1>1, <1>2, <1>3 DEF FindTypeOK
<1>5. Stored'
  BY <1>1 DEF Stored
<1>6. ASSUME NEW r \in Run PROVE Grounded(r)'
  <2>1. runs'[r] = Disturbed(r) /\ RowsLast(r)
    BY DEF RowsLast, Rows
  <2>2. CASE Underway(r)
    <3>1. runs'[r].busy = runs[r].busy
      BY <1>1, <2>1, <2>2, DisturbedIs DEF Underway, FindTypeOK
    <3> QED BY <1>1, <2>1, <2>2, <3>1, DisturbedIs, StaysGrounded
  <2>3. CASE ~Underway(r)
    BY <1>1, <2>1, <2>3, DisturbedIs, IdleGrounded
  <2> QED BY <2>2, <2>3
<1> QED BY <1>4, <1>5, <1>6 DEF GroundInv

LEMMA DecisionsGround ==
    GroundInv /\ (Reconfigure \/ Triage \/ CreateException \/ EndException \/ PinBaseline \/ ClearBaseline) => GroundInv'
<1> SUFFICES ASSUME GroundInv, Reconfigure \/ Triage \/ CreateException \/ EndException \/ PinBaseline \/ ClearBaseline PROVE GroundInv'
  OBVIOUS
<1>1. /\ config \in Config /\ snaps \in Seq(ASnap) /\ finding \in [Key -> Status] /\ excepted \in SUBSET CheckKey
      /\ (baseline = 0 \/ baseline \in DOMAIN snaps)
  BY DEF GroundInv, FindTypeOK, Stored
<1>2. runs' = [r \in Run |-> Disturbed(r)] /\ snaps' = snaps
  BY DEF Reconfigure, Triage, CreateException, EndException, PinBaseline, ClearBaseline, Decide
<1>3. config' \in Config
  BY <1>1 DEF Reconfigure, Triage, CreateException, EndException, PinBaseline, ClearBaseline
<1>4. baseline' = 0 \/ baseline' \in DOMAIN snaps
  BY <1>1 DEF Reconfigure, Triage, CreateException, EndException, PinBaseline, ClearBaseline, Committed
<1>5. finding' \in [Key -> Status]
  <2>1. \A k \in Key, s \in Status : [finding EXCEPT ![k] = s] \in [Key -> Status]
    BY <1>1
  <2>2. {"open", "risk_accepted", "false_positive", "resolved"} \subseteq Status /\ Drift \in Key
    BY DEF Status, Key
  <2> QED BY <1>1, <2>1, <2>2 DEF Reconfigure, Triage, CreateException, EndException, PinBaseline, ClearBaseline, ResolveDrift
<1>6. excepted' \in SUBSET CheckKey
  BY <1>1 DEF Reconfigure, Triage, CreateException, EndException, PinBaseline, ClearBaseline
<1> QED BY <1>2, <1>3, <1>4, <1>5, <1>6, DecideGrounds

LEMMA StartGrounds == \A r \in Run : GroundInv /\ Start(r) => GroundInv'
<1> SUFFICES ASSUME NEW r \in Run, GroundInv, Start(r) PROVE GroundInv'
  OBVIOUS
<1>1. FindTypeOK /\ Stored /\ (\A q \in Run : Grounded(q))
  BY DEF GroundInv
<1>2. PICK kind \in DOMAIN Plan, c \in Config :
        runs' = [q \in Run |->
             IF q # r THEN Disturbed(q)
             ELSE [Idle EXCEPT !.busy = TRUE, !.kind = kind, !.plan = Plan[kind], !.conf = c,
                                  !.audit = Contacts(kind), !.alone = \A p \in Run \ {r} : ~Underway(p)]]
  BY DEF Start
<1> DEFINE plan == Plan[kind]
           audit == Contacts(kind)
           alone == \A p \in Run \ {r} : ~Underway(p)
           new == AsStarted(Idle, kind, plan, c, audit, alone)
<1>3. kind \in Kind /\ plan \in Seq(Stage)
  BY PlanIs
<1>4. audit \in BOOLEAN /\ alone \in BOOLEAN
  BY DEF Contacts
<1>5. runs' = [q \in Run |-> IF q # r THEN Disturbed(q) ELSE new]
  BY <1>2 DEF AsStarted
<1> HIDE DEF plan, audit, alone
<1>7. new \in ARun /\ new.conf = c /\ new.seen = Idle.seen /\ new.row = Idle.row /\ new.left = Idle.left /\ new.wrote = Idle.wrote
  BY <1>3, <1>4, IdleIs, RunStarted
<1> HIDE DEF new
<1>8. UNCHANGED <<config, snaps, baseline, finding, excepted>>
  BY DEF Start
<1>9. runs' \in [Run -> ARun]
  BY <1>1, <1>5, <1>7, DisturbedIs
<1>10. FindTypeOK' /\ Stored'
  BY <1>1, <1>8, <1>9 DEF FindTypeOK, Stored
<1>11. ASSUME NEW q \in Run PROVE Grounded(q)'
  <2>1. RowsLast(q)
    BY <1>8 DEF RowsLast, Rows
  <2>2. CASE q = r
    <3>1. runs'[q].conf \in Config /\ runs'[q].seen = NoOne /\ runs'[q].row = 0 /\ runs'[q].left = <<>> /\ \A k \in Key : runs'[q].wrote[k] = "untouched"
      BY <1>5, <1>7, <2>2, IdleIs
    <3>2. \A k \in CheckKey \cup VulnKey : k \in Key
      BY DEF Key
    <3>3. DOMAIN runs'[q].left = {}
      BY <3>1
    <3> QED BY <3>1, <3>2, <3>3 DEF Grounded
  <2>3. CASE q # r /\ Underway(q)
    <3>1. runs'[q].busy = runs[q].busy
      BY <1>1, <1>5, <2>3, DisturbedIs DEF Underway, FindTypeOK
    <3> QED BY <1>1, <1>5, <2>1, <2>3, <3>1, DisturbedIs, StaysGrounded
  <2>4. CASE q # r /\ ~Underway(q)
    BY <1>1, <1>5, <2>4, DisturbedIs, IdleGrounded
  <2> QED BY <2>2, <2>3, <2>4
<1> QED BY <1>10, <1>11 DEF GroundInv

LEMMA StoreGrounds == \A r \in Run : GroundInv /\ StoreSnapshot(r) => GroundInv'
<1> SUFFICES ASSUME NEW r \in Run, GroundInv, StoreSnapshot(r) PROVE GroundInv'
  OBVIOUS
<1>1. /\ FindTypeOK /\ Stored /\ Grounded(r) /\ snaps \in Seq(ASnap) /\ runs \in [Run -> ARun] /\ runs[r] \in ARun
      /\ finding \in [Key -> Status]
  BY DEF GroundInv, FindTypeOK
<1> DEFINE c == runs[r].conf
           same == SameConfig(r, c)
<1>2. PICK writes \in BOOLEAN :
        /\ snaps' = IF same = {} THEN Append(snaps, [conf |-> c, by |-> r]) ELSE snaps
        /\ runs' = [runs EXCEPT ![r].plan = Tail(runs[r].plan),
                                ![r].row = IF same = {} THEN Len(snaps') ELSE CHOOSE i \in same : TRUE,
                                ![r].device = writes]
  BY DEF StoreSnapshot
<1>3. UNCHANGED <<config, baseline, finding, excepted>> /\ runs[r].plan # <<>> /\ c \in Config
  BY <1>1, RunFields DEF StoreSnapshot, Between, Underway, Grounded
<1> DEFINE own == IF same = {} THEN Len(snaps') ELSE CHOOSE i \in same : TRUE
           plan == Tail(runs[r].plan)
           new == AsStored(runs[r], plan, own, writes)
<1>4. plan \in Seq(Stage)
  <2>1. runs[r].plan \in Seq(Stage)
    BY <1>1, RunFields
  <2> QED BY <1>3, <2>1
<1>5. same \subseteq Rows(r) /\ \A i \in same : i \in DOMAIN snaps
  BY DEF SameConfig, Rows
<1> HIDE DEF c, same
<1>6. /\ snaps' \in Seq(ASnap) /\ \A i \in DOMAIN snaps : i \in DOMAIN snaps' /\ snaps'[i] = snaps[i]
      /\ same = {} => /\ Len(snaps') \in DOMAIN snaps' /\ snaps'[Len(snaps')] = [conf |-> c, by |-> r]
                      /\ \A i \in DOMAIN snaps' : i \in DOMAIN snaps \/ i = Len(snaps')
      /\ same # {} => snaps' = snaps
  <2>1. [conf |-> c, by |-> r] \in ASnap
    BY <1>3 DEF ASnap
  <2>2. CASE same = {}
    <3>1. snaps' = Append(snaps, [conf |-> c, by |-> r])
      BY <1>2, <2>2
    <3> HIDE DEF ASnap
    <3> QED BY <1>1, <2>1, <2>2, <3>1
  <2>3. CASE same # {}
    BY <1>1, <1>2, <2>3
  <2> QED BY <2>2, <2>3
<1>7. own \in Nat /\ own \in DOMAIN snaps' /\ snaps'[own].by \in {NoOne, r}
  <2>1. CASE same = {}
    <3>1. own = Len(snaps') /\ Len(snaps') \in Nat
      BY <1>6, <2>1
    <3> QED BY <1>6, <2>1, <3>1
  <2>2. CASE same # {}
    <3>1. own \in same
      BY <2>2
    <3> QED BY <1>1, <1>5, <1>6, <2>2, <3>1, RowIs
  <2> QED BY <2>1, <2>2
<1>8. runs' = [runs EXCEPT ![r] = new]
  <2>1. runs' = [runs EXCEPT ![r].plan = plan, ![r].row = own, ![r].device = writes]
    BY <1>2
  <2> HIDE DEF own, plan
  <2>2. runs \in [Run -> ARun]
    BY <1>1
  <2> QED BY <2>1, <2>2 DEF AsStored
<1>9. new \in ARun /\ new.busy = runs[r].busy /\ new.conf = runs[r].conf /\ new.seen = runs[r].seen /\ new.row = own /\ new.left = runs[r].left /\ new.wrote = runs[r].wrote
  <2> HIDE DEF own, plan
  <2> QED BY <1>1, <1>4, <1>7, RunStored
<1> HIDE DEF new, own, plan
<1>10. \A q : RowsLast(q)
  BY <1>6 DEF RowsLast, Rows
<1>11. Stored'
  <2>1. \A i \in DOMAIN snaps' : snaps'[i].by # Lost => snaps'[i].conf \in Config
    <3>1. \A i \in DOMAIN snaps : snaps'[i].by # Lost => snaps'[i].conf \in Config
      BY <1>1, <1>6 DEF Stored
    <3>2. same = {} => c \in Config
      BY <1>3
    <3> QED BY <1>6, <3>1, <3>2
  <2>2. baseline # 0 => baseline \in DOMAIN snaps'
    BY <1>1, <1>6 DEF Stored
  <2> QED BY <1>3, <2>1, <2>2 DEF Stored
<1>13. Grounded(r)'
  <2>1. runs'[r] = new
    BY <1>1, <1>8
  <2>2. own \in Rows(r)'
    BY <1>7 DEF Rows
  <2>3. \A k : Passes(r, k) => Passes(r, k)'
    BY <1>10 DEF Passes, RowsLast
  <2> QED BY <1>1, <1>9, <2>1, <2>2, <2>3 DEF Grounded
<1> QED BY <1>1, <1>3, <1>6, <1>8, <1>9, <1>10, <1>11, <1>13, OneRuns

\* A stage begins with its entries.
LEMMA BegunGrounds ==
    ASSUME GroundInv, NEW r \in Run, runs[r].plan # <<>>, runs[r].left = <<>>, NEW todo \in Seq(Said), runs' = [runs EXCEPT ![r] = AsBegun(runs[r], Tail(runs[r].plan), todo)],
           UNCHANGED <<config, snaps, baseline, finding, excepted>>,
           \A j \in DOMAIN todo : todo[j].says = "pass" /\ todo[j].key # Drift => Passes(r, todo[j].key)
    PROVE  GroundInv'
<1> DEFINE plan == Tail(runs[r].plan)
           new == AsBegun(runs[r], plan, todo)
<1>1. Grounded(r) /\ runs \in [Run -> ARun] /\ runs[r] \in ARun
  BY DEF GroundInv, FindTypeOK
<1>2. plan \in Seq(Stage)
  <2>1. runs[r].plan \in Seq(Stage)
    BY <1>1, RunFields
  <2> QED BY <2>1
<1> HIDE DEF plan
<1>3. /\ new \in ARun /\ new.busy = runs[r].busy /\ new.conf = runs[r].conf /\ new.row = runs[r].row /\ new.left = todo
      /\ new.seen = NoOne /\ new.wrote = runs[r].wrote
  <2>1. runs[r].seen = NoOne
    BY <1>1 DEF Grounded
  <2> QED BY <1>1, <1>2, <2>1, RunBegun
<1>4. runs' = [runs EXCEPT ![r] = new]
  BY DEF plan
<1> HIDE DEF new
<1>5. runs'[r] = new
  BY <1>1, <1>4
<1>6. \A k : Passes(r, k) <=> Passes(r, k)'
  BY DEF Passes, Rows
<1>7. Rows(r)' = Rows(r)
  BY DEF Rows
<1>8. Grounded(r)'
  BY <1>1, <1>3, <1>5, <1>6, <1>7 DEF Grounded
<1> QED BY <1>3, <1>4, <1>8, OneRunsOnly

LEMMA DriftEntry ==
    ASSUME NEW i
    PROVE  LET todo == <<[key |-> Drift, says |-> DriftSays(i)]>> IN
           /\ todo \in Seq(Said) /\ DOMAIN todo = {1} /\ todo[1].key = Drift /\ todo[1].says = DriftSays(i)
<1>1. [key |-> Drift, says |-> DriftSays(i)] \in Said
  BY DEF Said, Key, DriftSays
<1> HIDE DEF Said
<1> QED BY <1>1

LEMMA BeginDriftGrounds == \A r \in Run : GroundInv /\ BeginDrift(r) => GroundInv'
<1> SUFFICES ASSUME NEW r \in Run, GroundInv, BeginDrift(r) PROVE GroundInv'
  OBVIOUS
<1> DEFINE plan == Tail(runs[r].plan)
           todo == <<[key |-> Drift, says |-> DriftSays(runs[r].row)]>>
<1>1. runs \in [Run -> ARun]
  BY DEF GroundInv, FindTypeOK
<1>2. runs' = [runs EXCEPT ![r].plan = plan, ![r].left = todo] /\ UNCHANGED <<config, snaps, baseline, finding, excepted>>
  BY DEF BeginDrift
<1>3. todo \in Seq(Said) /\ DOMAIN todo = {1} /\ todo[1].key = Drift
  BY DriftEntry
<1>4. runs[r].plan # <<>> /\ runs[r].left = <<>>
  BY DEF BeginDrift, Between
<1>5. runs' = [runs EXCEPT ![r] = AsBegun(runs[r], Tail(runs[r].plan), todo)]
  <2> HIDE DEF todo
  <2> QED BY <1>1, <1>2 DEF AsBegun
<1>6. \A j \in DOMAIN todo : todo[j].says = "pass" /\ todo[j].key # Drift => Passes(r, todo[j].key)
  BY <1>3
<1> HIDE DEF todo, plan
<1>7. UNCHANGED <<config, snaps, baseline, finding, excepted>>
  BY <1>2
<1> QED BY <1>3, <1>4, <1>5, <1>6, <1>7, BegunGrounds

\* The entries a run takes up for a set of findings, from a row it sees.
LEMMA EntriesGround ==
    ASSUME GroundInv, NEW r \in Run, NEW keys, keys \subseteq CheckKey \cup VulnKey, NEW i \in Rows(r),
           NEW S, S \subseteq Says(keys, i), \A v \in S : v.says # "silent"
    PROVE  /\ SetToSeq(S) \in Seq(Said)
           /\ \A j \in DOMAIN SetToSeq(S) : SetToSeq(S)[j].says = "pass" /\ SetToSeq(S)[j].key # Drift => Passes(r, SetToSeq(S)[j].key)
<1>1. FindTypeOK /\ Stored
  BY DEF GroundInv
<1>2. i \in DOMAIN snaps /\ snaps[i].by \in {NoOne, r}
  BY <1>1, RowIs
<1>3. snaps[i].conf \in Config
  BY <1>1, <1>2, FindingAssumption DEF Stored
<1>4. Entered(keys, i, S)
  BY <1>1, <1>2, <1>3, SaidOf
<1> DEFINE seq == SetToSeq(S)
<1>5. seq \in Seq(Said) /\ \A j \in DOMAIN seq : seq[j].says = Verdict[snaps[i].conf][seq[j].key]
  BY <1>4 DEF Entered
<1> HIDE DEF seq
<1>6. \A j \in DOMAIN seq : seq[j].says = "pass" => Passes(r, seq[j].key)
  BY <1>5 DEF Passes
<1> QED BY <1>5, <1>6 DEF seq

LEMMA BeginChecksGrounds == \A r \in Run : GroundInv /\ (BeginChecks(r) \/ BeginVulns(r)) => GroundInv'
<1> SUFFICES ASSUME NEW r \in Run, GroundInv, BeginChecks(r) \/ BeginVulns(r) PROVE GroundInv'
  OBVIOUS
<1>1. runs \in [Run -> ARun] /\ FindTypeOK /\ Grounded(r)
  BY DEF GroundInv, FindTypeOK
<1>2. runs[r].plan # <<>> /\ runs[r].left = <<>> /\ UNCHANGED <<config, snaps, baseline, finding, excepted>>
  BY DEF BeginChecks, BeginVulns, Between
<1>3. ASSUME NEW keys, keys \subseteq CheckKey \cup VulnKey, NEW i \in Rows(r), NEW S, S \subseteq Says(keys, i), \A v \in S : v.says # "silent",
             runs' = [runs EXCEPT ![r].plan = Tail(@), ![r].left = SetToSeq(S)]
      PROVE  GroundInv'
  <2> DEFINE todo == SetToSeq(S)
  <2>1. /\ todo \in Seq(Said)
        /\ \A j \in DOMAIN todo : todo[j].says = "pass" /\ todo[j].key # Drift => Passes(r, todo[j].key)
    BY <1>3, EntriesGround
  <2>2. runs' = [runs EXCEPT ![r] = AsBegun(runs[r], Tail(runs[r].plan), todo)]
    <3>1. runs' = [runs EXCEPT ![r].plan = Tail(@), ![r].left = todo]
      BY <1>3
    <3> HIDE DEF todo
    <3> QED BY <1>1, <3>1 DEF AsBegun
  <2> HIDE DEF todo
  <2> QED BY <1>2, <2>1, <2>2, BegunGrounds
<1>4. CASE BeginChecks(r)
  <2> DEFINE S == {v \in Says(CheckKey, Judged(r)) : v.says # "silent" /\ ~Suppressed(v)}
  <2>1. Judged(r) # 0 /\ runs' = [runs EXCEPT ![r].plan = Tail(@), ![r].left = SetToSeq(S)]
    BY <1>4 DEF BeginChecks
  <2>2. Judged(r) \in Rows(r)
    BY <1>1, <2>1, RowIs DEF Judged, Grounded
  <2>3. S \subseteq Says(CheckKey, Judged(r)) /\ \A v \in S : v.says # "silent"
    OBVIOUS
  <2> HIDE DEF S
  <2> QED BY <1>3, <2>1, <2>2, <2>3
<1>5. CASE BeginVulns(r)
  <2> DEFINE S == {v \in Says(VulnKey, Newest(Rows(r))) : v.says # "silent"}
  <2>1. Newest(Rows(r)) # 0 /\ runs' = [runs EXCEPT ![r].plan = Tail(@), ![r].left = SetToSeq(S)]
    BY <1>5 DEF BeginVulns
  <2>2. Newest(Rows(r)) \in Rows(r)
    BY <1>1, <2>1, RowIs
  <2>3. S \subseteq Says(VulnKey, Newest(Rows(r))) /\ \A v \in S : v.says # "silent"
    OBVIOUS
  <2> HIDE DEF S
  <2> QED BY <1>3, <2>1, <2>2, <2>3
<1> QED BY <1>4, <1>5

\* The entry at the head, and the rest.
LEMMA HeadAndTail ==
    ASSUME NEW S, NEW s \in Seq(S), s # <<>>
    PROVE  /\ Head(s) \in S /\ Tail(s) \in Seq(S) /\ 1 \in DOMAIN s /\ Head(s) = s[1]
           /\ \A j \in DOMAIN Tail(s) : j + 1 \in DOMAIN s /\ j \in Nat /\ Tail(s)[j] = s[j + 1]
           /\ \A j \in DOMAIN s : j # 1 => j - 1 \in DOMAIN Tail(s) /\ j \in Nat /\ Tail(s)[j - 1] = s[j]
OBVIOUS

LEMMA LookUpGrounds == \A r \in Run : GroundInv /\ LookUp(r) => GroundInv'
<1> SUFFICES ASSUME NEW r \in Run, GroundInv, LookUp(r) PROVE GroundInv'
  OBVIOUS
<1>1. runs \in [Run -> ARun] /\ runs[r] \in ARun /\ finding \in [Key -> Status] /\ Grounded(r)
  BY DEF GroundInv, FindTypeOK
<1>2. runs[r].left # <<>> /\ UNCHANGED <<config, snaps, baseline, finding, excepted>>
  BY DEF LookUp
<1> DEFINE seen == finding[Head(runs[r].left).key]
           new == AsLooked(runs[r], seen)
<1>3. seen \in Status
  <2>1. Head(runs[r].left) \in Said
    BY <1>1, <1>2, RunFields, HeadAndTail
  <2> QED BY <1>1, <2>1 DEF Said
<1>4. runs' = [runs EXCEPT ![r] = new]
  <2>1. runs' = [runs EXCEPT ![r].seen = seen]
    BY DEF LookUp
  <2> HIDE DEF seen
  <2> QED BY <1>1, <2>1 DEF AsLooked
<1>5. /\ new \in ARun /\ new.busy = runs[r].busy /\ new.conf = runs[r].conf /\ new.row = runs[r].row /\ new.left = runs[r].left
      /\ new.wrote = runs[r].wrote
  <2> HIDE DEF seen
  <2> QED BY <1>1, <1>3, RunLooked
<1> HIDE DEF seen, new
<1>6. RowsLast(r)
  BY <1>2 DEF RowsLast, Rows
<1>7. runs'[r] = new
  BY <1>1, <1>4
<1>9. \A k : Passes(r, k) => Passes(r, k)'
  BY <1>6 DEF Passes, RowsLast
<1>8. Grounded(r)'
  BY <1>1, <1>2, <1>5, <1>6, <1>7, <1>9 DEF Grounded, RowsLast
<1> QED BY <1>2, <1>4, <1>5, <1>8, OneRunsOnly

LEMMA OutcomeIs == \A s, says : /\ AfterVerdict(s, says) \in Outcome
                                /\ AfterVerdict(s, says) = "resolved" => says # "fail"
BY DEF AfterVerdict, Outcome

LEMMA WriteGrounds == \A r \in Run : GroundInv /\ WriteFinding(r) => GroundInv'
<1> SUFFICES ASSUME NEW r \in Run, GroundInv, WriteFinding(r) PROVE GroundInv'
  OBVIOUS
<1>1. runs \in [Run -> ARun] /\ runs[r] \in ARun /\ Grounded(r)
  BY DEF GroundInv, FindTypeOK
<1> DEFINE v == Head(runs[r].left)
           k == v.key
           status == AfterVerdict(runs[r].seen, v.says)
           todo == Tail(runs[r].left)
           new == AsWritten(runs[r], todo, k, status)
<1>2. UNCHANGED <<config, snaps, baseline, finding, excepted>> /\ runs[r].left # <<>>
  <2>1. runs[r].seen # NoOne /\ UNCHANGED <<config, snaps, baseline, finding, excepted>>
    BY DEF WriteFinding
  <2> QED BY <1>1, <2>1 DEF Grounded
<1>3. /\ runs[r].left \in Seq(Said) /\ runs[r].wrote \in [Key -> Outcome]
      /\ v \in Said /\ todo \in Seq(Said) /\ 1 \in DOMAIN runs[r].left /\ v = runs[r].left[1]
      /\ \A j \in DOMAIN todo : j + 1 \in DOMAIN runs[r].left /\ todo[j] = runs[r].left[j + 1]
  <2>1. runs[r].left \in Seq(Said) /\ runs[r].wrote \in [Key -> Outcome]
    BY <1>1, RunFields
  <2> QED BY <1>2, <2>1, HeadAndTail
<1>4. k \in Key /\ v.says \in {"fail", "pass"} /\ status \in Outcome /\ (status = "resolved" => v.says = "pass")
  <2>1. k \in Key /\ v.says \in {"fail", "pass"}
    BY <1>3 DEF Said
  <2> QED BY <2>1, OutcomeIs
<1>5. runs' = [runs EXCEPT ![r] = new]
  <2>1. runs' = [runs EXCEPT ![r].left = todo, ![r].seen = NoOne, ![r].wrote[k] = status]
    BY DEF WriteFinding
  <2> HIDE DEF v, k, todo, status
  <2> QED BY <1>1, <2>1 DEF AsWritten
<1> HIDE DEF v, k, todo, status
<1>6. /\ new \in ARun /\ new.busy = runs[r].busy /\ new.conf = runs[r].conf /\ new.row = runs[r].row /\ new.left = todo
      /\ new.seen = NoOne /\ new.wrote = [runs[r].wrote EXCEPT ![k] = status]
  BY <1>1, <1>3, <1>4, RunWrote
<1> HIDE DEF new
<1>7. RowsLast(r) /\ (\A x : Passes(r, x) => Passes(r, x)')
  BY <1>2 DEF RowsLast, Rows, Passes
<1>8. runs'[r] = new
  BY <1>1, <1>5
<1>9. ASSUME NEW x \in CheckKey \cup VulnKey, new.wrote[x] = "resolved" PROVE Passes(r, x)
  <2>1. x \in Key /\ x # Drift
    BY FindingAssumption DEF Key
  <2>2. CASE x = k
    <3>1. status = "resolved"
      BY <1>3, <1>6, <1>9, <2>1, <2>2
    <3>2. runs[r].left[1].says = "pass" /\ runs[r].left[1].key = x
      BY <1>3, <1>4, <2>2, <3>1 DEF k
    <3> QED BY <1>1, <1>3, <2>1, <3>2 DEF Grounded
  <2>3. CASE x # k
    <3>1. runs[r].wrote[x] = "resolved"
      BY <1>3, <1>6, <1>9, <2>1, <2>3
    <3> QED BY <1>1, <3>1 DEF Grounded
  <2> QED BY <2>2, <2>3
<1>10. ASSUME NEW j \in DOMAIN todo, todo[j].says = "pass", todo[j].key # Drift PROVE Passes(r, todo[j].key)
  BY <1>1, <1>3, <1>10 DEF Grounded
<1>11. Grounded(r)'
  <2>1. runs[r].row # 0 => runs[r].row \in Rows(r)'
    BY <1>1, <1>7 DEF Grounded, RowsLast
  <2>2. runs[r].busy => runs[r].conf \in Config
    BY <1>1 DEF Grounded
  <2> QED BY <1>6, <1>7, <1>8, <1>9, <1>10, <2>1, <2>2 DEF Grounded
<1> QED BY <1>2, <1>5, <1>6, <1>11, OneRunsOnly

\* What a commit or an end does to the rows.
Freed(s) == [s EXCEPT !.by = NoOne]

LEMMA FreedIs == \A s \in ASnap : Freed(s).by = NoOne /\ Freed(s).conf = s.conf /\ Freed(s) \in ASnap
BY DEF ASnap, Freed

LEMMA EndGrounds ==
    ASSUME GroundInv, NEW r \in Run, runs' = [runs EXCEPT ![r] = Idle], UNCHANGED <<config, baseline, excepted>>,
           finding' \in [Key -> Status],
           \/ snaps' = [i \in DOMAIN snaps |-> IF snaps[i].by = r THEN [snaps[i] EXCEPT !.by = NoOne] ELSE snaps[i]]
           \/ snaps' = [i \in DOMAIN snaps |-> IF snaps[i].by = r THEN [conf |-> NoOne, by |-> Lost] ELSE snaps[i]]
    PROVE  GroundInv'
<1>1. FindTypeOK /\ Stored /\ snaps \in Seq(ASnap)
  BY DEF GroundInv, FindTypeOK
<1>2. /\ DOMAIN snaps' = DOMAIN snaps
      /\ \A i \in DOMAIN snaps : snaps[i].by # r => snaps'[i] = snaps[i]
      /\ \A i \in DOMAIN snaps : snaps[i].by = r =>
            \/ snaps'[i].by = NoOne /\ snaps'[i].conf = snaps[i].conf /\ snaps'[i] \in ASnap
            \/ snaps'[i].by = Lost /\ snaps'[i] \in ASnap
  <2>1. \A i \in DOMAIN snaps : snaps[i] \in ASnap
    BY <1>1
  <2>2. [conf |-> NoOne, by |-> Lost] \in ASnap
    BY DEF ASnap
  <2> HIDE DEF ASnap
  <2>3. CASE snaps' = [i \in DOMAIN snaps |-> IF snaps[i].by = r THEN [snaps[i] EXCEPT !.by = NoOne] ELSE snaps[i]]
    <3>1. DOMAIN snaps' = DOMAIN snaps
      BY <2>3
    <3>2. \A i \in DOMAIN snaps : snaps[i].by # r => snaps'[i] = snaps[i]
      BY <2>3
    <3>3. \A i \in DOMAIN snaps : snaps[i].by = r => snaps'[i] = Freed(snaps[i])
      BY <2>3 DEF Freed
    <3>4. \A i \in DOMAIN snaps : snaps[i].by = r => snaps'[i].by = NoOne /\ snaps'[i].conf = snaps[i].conf /\ snaps'[i] \in ASnap
      BY <2>1, <3>3, FreedIs
    <3> QED BY <3>1, <3>2, <3>4
  <2>4. CASE snaps' = [i \in DOMAIN snaps |-> IF snaps[i].by = r THEN [conf |-> NoOne, by |-> Lost] ELSE snaps[i]]
    <3>1. DOMAIN snaps' = DOMAIN snaps
      BY <2>4
    <3>2. \A i \in DOMAIN snaps : snaps[i].by # r => snaps'[i] = snaps[i]
      BY <2>4
    <3>3. \A i \in DOMAIN snaps : snaps[i].by = r => snaps'[i] = [conf |-> NoOne, by |-> Lost]
      BY <2>4
    <3>4. \A i \in DOMAIN snaps : snaps[i].by = r => snaps'[i].by = Lost /\ snaps'[i] \in ASnap
      BY <2>2, <3>3
    <3> QED BY <3>1, <3>2, <3>4
  <2> QED BY <2>3, <2>4
<1>3. snaps' \in Seq(ASnap)
  <2>1. \A i \in DOMAIN snaps : snaps[i] \in ASnap
    BY <1>1
  <2>2. \A i \in DOMAIN snaps : snaps'[i] \in ASnap
    BY <1>2, <2>1
  <2>3. Len(snaps) \in Nat /\ DOMAIN snaps = 1 .. Len(snaps)
    BY <1>1
  <2>4. snaps' = [i \in 1 .. Len(snaps) |-> snaps'[i]]
    BY <2>3
  <2> QED BY <2>2, <2>3, <2>4
<1>4. Stored'
  <2>1. ASSUME NEW i \in DOMAIN snaps, snaps'[i].by # Lost PROVE snaps'[i].conf \in Config
    <3>1. snaps[i].by # Lost /\ snaps'[i].conf = snaps[i].conf
      BY <1>2, <2>1, FindingAssumption
    <3> QED BY <1>1, <3>1 DEF Stored
  <2>2. baseline' # 0 => baseline' \in DOMAIN snaps'
    BY <1>1, <1>2 DEF Stored
  <2> QED BY <1>2, <2>1, <2>2 DEF Stored
<1>5. ASSUME NEW q \in Run \ {r} PROVE RowsLast(q)
  <2>1. ASSUME NEW i \in Rows(q) PROVE i \in Rows(q)' /\ snaps'[i].conf = snaps[i].conf
    <3>1. i \in DOMAIN snaps /\ snaps[i].by \in {NoOne, q}
      BY DEF Rows
    <3>2. snaps[i].by # r
      BY <1>5, <3>1, FindingAssumption
    <3> QED BY <1>2, <3>1, <3>2 DEF Rows
  <2> QED BY <2>1 DEF RowsLast
<1>6. runs'[r] = Idle /\ Idle \in ARun
  BY IdleIs DEF GroundInv, FindTypeOK
<1> QED BY <1>3, <1>4, <1>5, <1>6, IdleGrounded, OneRuns

LEMMA CommitGrounds == \A r \in Run : GroundInv /\ (CommitRun(r) \/ Undo(r)) => GroundInv'
<1> SUFFICES ASSUME NEW r \in Run, GroundInv, CommitRun(r) \/ Undo(r) PROVE GroundInv'
  OBVIOUS
<1>1. finding \in [Key -> Status] /\ runs[r].wrote \in [Key -> Outcome]
  BY RunFields DEF GroundInv, FindTypeOK
<1>2. finding' \in [Key -> Status]
  <2>1. CASE CommitRun(r)
    <3>1. finding' = [k \in Key |-> IF runs[r].wrote[k] \in {"untouched", "kept"} THEN finding[k] ELSE runs[r].wrote[k]]
      BY <2>1 DEF CommitRun
    <3>2. \A o \in Outcome : o \in {"untouched", "kept"} \/ o \in Status
      BY DEF Outcome, Status
    <3>3. \A k \in Key : (IF runs[r].wrote[k] \in {"untouched", "kept"} THEN finding[k] ELSE runs[r].wrote[k]) \in Status
      BY <1>1, <3>2
    <3> HIDE DEF Status
    <3> QED BY <3>1, <3>3
  <2>2. CASE Undo(r)
    BY <1>1, <2>2 DEF Undo
  <2> QED BY <2>1, <2>2
<1>3. runs' = [runs EXCEPT ![r] = Idle] /\ UNCHANGED <<config, baseline, excepted>>
  BY DEF CommitRun, Undo
<1>4. \/ snaps' = [i \in DOMAIN snaps |-> IF snaps[i].by = r THEN [snaps[i] EXCEPT !.by = NoOne] ELSE snaps[i]]
      \/ snaps' = [i \in DOMAIN snaps |-> IF snaps[i].by = r THEN [conf |-> NoOne, by |-> Lost] ELSE snaps[i]]
  BY DEF CommitRun, Undo
<1> QED BY <1>2, <1>3, <1>4, EndGrounds

\* What the findings rest on is an inductive invariant.
THEOREM FindingInductive == FindingSpec => []GroundInv
<1>1. GroundInv /\ [FindingNext]_findingVars => GroundInv'
  <2> SUFFICES ASSUME GroundInv, [FindingNext]_findingVars PROVE GroundInv'
    OBVIOUS
  <2>1. CASE UNCHANGED findingVars
    BY <2>1 DEF findingVars, GroundInv, FindTypeOK, Stored, Grounded, Passes, Rows
  <2>2. CASE FindingNext
    BY <2>2, StartGrounds, StoreGrounds, BeginDriftGrounds, BeginChecksGrounds, LookUpGrounds, WriteGrounds, CommitGrounds, DecisionsGround
       DEF FindingNext
  <2> QED BY <2>1, <2>2
<1> QED BY <1>1, FindInitInv, PTL DEF FindingSpec

\* However runs overlap, fail and are undone, and whatever people decide meanwhile,
\* no finding of a check, the analysis or an advisory is closed without a stored
\* configuration that passes it.
THEOREM ClosedOnEvidenceAlways == FindingSpec => ClosedOnEvidence
<1> DEFINE Based(k) == finding[k] # "resolved" /\ finding'[k] = "resolved" =>
             \E i \in {i \in DOMAIN snaps : snaps[i].by # Lost} : Verdict[snaps[i].conf][k] = "pass"
<1>1. ASSUME GroundInv, FindingNext, NEW k \in CheckKey \cup VulnKey, finding[k] # "resolved", finding'[k] = "resolved"
      PROVE  \E i \in {i \in DOMAIN snaps : snaps[i].by # Lost} : Verdict[snaps[i].conf][k] = "pass"
  <2>1. FindTypeOK /\ (\A r \in Run : Grounded(r)) /\ finding \in [Key -> Status] /\ k \in Key /\ k # Drift
    BY <1>1, FindingAssumption DEF GroundInv, FindTypeOK, Key
  <2>2. ASSUME finding' = finding \/ Triage \/ PinBaseline PROVE FALSE
    BY <1>1, <2>1, <2>2 DEF Triage, PinBaseline, ResolveDrift
  <2>3. \E r \in Run : CommitRun(r)
    BY <1>1, <2>2 DEF FindingNext, Start, StoreSnapshot, BeginDrift, BeginChecks, BeginVulns, LookUp, WriteFinding, Undo,
                         Reconfigure, CreateException, EndException, ClearBaseline
  <2>4. PICK r \in Run : CommitRun(r)
    BY <2>3
  <2>5. runs[r].wrote[k] = "resolved"
    BY <1>1, <2>1, <2>4 DEF CommitRun
  <2>6. Passes(r, k)
    BY <1>1, <2>1, <2>5 DEF Grounded
  <2>7. \A i \in Rows(r) : i \in DOMAIN snaps /\ snaps[i].by # Lost
    BY FindingAssumption DEF Rows
  <2> QED BY <2>6, <2>7 DEF Passes
<1>2. ASSUME GroundInv, [FindingNext]_findingVars PROVE [\A k \in CheckKey \cup VulnKey : Based(k)]_findingVars
  BY <1>1, <1>2
<1> QED BY <1>2, FindingInductive, PTL DEF FindingSpec, ClosedOnEvidence
-----------------------------------------------------------------------------
(* A collection that nothing overlaps *)

\* Stages to go, counted alike for both kinds of collection, and the place of each.
Rank == [vulns |-> 1, checks |-> 2, drift |-> 3, store |-> 4]
Skipped(kind) == IF kind = "collect" THEN 2 ELSE 0
Togo(x) == Len(x.plan) + Skipped(x.kind)
Ordered(x) == Togo(x) <= 4 /\ \A i \in DOMAIN x.plan : Rank[x.plan[i]] = Togo(x) + 1 - i

\* What the device says of a finding, and what its row is to get.
Measured == {Drift} \cup CheckKey
Truth(k) ==
    IF k = Drift THEN IF baseline = 0 \/ snaps[baseline].conf = config THEN "pass" ELSE "fail"
    ELSE IF Verdict[config][k] = "fail" /\ k \in excepted THEN "silent" ELSE Verdict[config][k]
Final(k) == IF Truth(k) = "silent" THEN "untouched" ELSE AfterVerdict(finding[k], Truth(k))

Reached(x, k) == Togo(x) <= IF k = Drift THEN 2 ELSE 1
Absent(x, k) == \A i \in DOMAIN x.left : x.left[i].key # k

\* Before its stage a finding is untouched; then an entry of it says the truth, and without one it got what it should.
Telling(x, k) ==
    /\ ~Reached(x, k) => x.wrote[k] = "untouched" /\ Absent(x, k)
    /\ Reached(x, k) => \A i \in DOMAIN x.left : x.left[i].key = k => x.left[i].says = Truth(k)
    /\ Reached(x, k) => (Absent(x, k) => x.wrote[k] = Final(k))

Faithful(x) ==
    /\ x.conf = config /\ Ordered(x)
    /\ Togo(x) <= 3 => x.row \in DOMAIN snaps /\ snaps[x.row].conf = config
    /\ x.seen # NoOne => x.seen = finding[x.left[1].key]
    /\ \A i, j \in DOMAIN x.left : x.left[i].key = x.left[j].key => i = j
    /\ \A k \in Measured : Telling(x, k)

Unhurried(r) ==
    runs[r].busy /\ runs[r].alone =>
        /\ \A q \in Run \ {r} : ~runs[q].busy
        /\ Contacts(runs[r].kind) => Faithful(runs[r])

TruthInv == \A r \in Run : Unhurried(r)

\* A run's own step leaves the others not alone.
LEMMA OneTells ==
    ASSUME GroundInv, TruthInv, NEW r \in Run, runs[r].busy, NEW new, runs' = [runs EXCEPT ![r] = new],
           new.busy, new.alone = runs[r].alone, new.kind = runs[r].kind,
           runs[r].alone /\ Contacts(runs[r].kind) => Faithful(runs[r])'
    PROVE  TruthInv'
<1>1. runs'[r] = new /\ \A q \in Run \ {r} : runs'[q] = runs[q]
  BY DEF GroundInv, FindTypeOK
<1>2. ASSUME NEW q \in Run PROVE Unhurried(q)'
  <2>1. CASE q = r
    <3> HIDE DEF Faithful
    <3> QED BY <1>1, <2>1 DEF TruthInv, Unhurried
  <2>2. CASE q # r
    <3>1. ~(runs[q].busy /\ runs[q].alone)
      BY <2>2 DEF TruthInv, Unhurried
    <3> QED BY <1>1, <2>2, <3>1 DEF Unhurried
  <2> QED BY <2>1, <2>2
<1> QED BY <1>2 DEF TruthInv

LEMMA FaithfulKeeps ==
    ASSUME NEW r, NEW x, Faithful(x), runs'[r] = x, UNCHANGED <<config, snaps, baseline, finding, excepted>>
    PROVE  Faithful(runs[r])'
<1>1. \A k : Truth(k)' = Truth(k)
  BY DEF Truth
<1>2. \A k : Final(k)' = Final(k)
  BY <1>1 DEF Final
<1>3. ASSUME NEW k \in Measured PROVE Telling(runs[r], k)'
  <2>1. Telling(x, k)
    BY DEF Faithful
  <2> QED BY <1>1, <1>2, <2>1 DEF Telling, Reached, Absent, Togo
<1> QED BY <1>3 DEF Faithful, Ordered, Togo

\* ... and changes only its record.
LEMMA OneTellsOnly ==
    ASSUME GroundInv, TruthInv, NEW r \in Run, runs[r].busy, NEW new, runs' = [runs EXCEPT ![r] = new],
           new.busy, new.alone = runs[r].alone, new.kind = runs[r].kind,
           UNCHANGED <<config, snaps, baseline, finding, excepted>>,
           Contacts(runs[r].kind) /\ Faithful(runs[r]) => Faithful(new)
    PROVE  TruthInv'
<1>1. ASSUME runs[r].alone, Contacts(runs[r].kind) PROVE Faithful(runs[r])'
  <2>1. Faithful(runs[r])
    BY <1>1 DEF TruthInv, Unhurried
  <2>2. Faithful(new)
    BY <1>1, <2>1
  <2>3. runs'[r] = new
    BY DEF GroundInv, FindTypeOK
  <2> QED BY <2>2, <2>3, FaithfulKeeps
<1> QED BY <1>1, OneTells

\* The stages behind the first.
LEMMA NextStage ==
    ASSUME NEW x \in ARun, x.plan # <<>>, Ordered(x), NEW y, y.plan = Tail(x.plan), y.kind = x.kind
    PROVE  /\ Togo(x) \in Nat /\ Togo(y) = Togo(x) - 1 /\ Rank[Head(x.plan)] = Togo(x) /\ Ordered(y)
<1>1. x.plan \in Seq(Stage) /\ Len(x.plan) \in Nat /\ Len(x.plan) # 0
  BY RunFields
<1>2. Len(y.plan) = Len(x.plan) - 1 /\ DOMAIN y.plan = 1 .. (Len(x.plan) - 1) /\ \A i \in DOMAIN y.plan : i + 1 \in DOMAIN x.plan /\ y.plan[i] = x.plan[i + 1]
  BY <1>1
<1>3. 1 \in DOMAIN x.plan /\ Head(x.plan) = x.plan[1]
  BY <1>1
<1>4. Togo(x) \in Nat /\ Togo(y) = Togo(x) - 1
  <2>1. Skipped(x.kind) \in Nat /\ Skipped(y.kind) = Skipped(x.kind)
    BY DEF Skipped
  <2> QED BY <1>1, <1>2, <2>1 DEF Togo
<1>5. Rank[Head(x.plan)] = Togo(x)
  BY <1>3, <1>4 DEF Ordered
<1>6. \A i \in DOMAIN y.plan : Rank[y.plan[i]] = Togo(y) + 1 - i
  BY <1>2, <1>4 DEF Ordered
<1> QED BY <1>4, <1>5, <1>6 DEF Ordered

\* A new collection has everything to do.
LEMMA BegunFaithful ==
    ASSUME NEW x \in ARun, Contacts(x.kind), x.plan = Plan[x.kind], x.conf = config, x.left = <<>>, x.seen = NoOne,
           \A k \in Key : x.wrote[k] = "untouched"
    PROVE  Faithful(x)
<1>1. Ordered(x) /\ Togo(x) = 4
  <2>1. CASE x.kind = "collect"
    <3>1. x.plan = <<"store", "drift">>
      BY <2>1, PlanIs
    <3>2. Len(x.plan) = 2 /\ DOMAIN x.plan = {1, 2} /\ x.plan[1] = "store" /\ x.plan[2] = "drift"
      BY <3>1
    <3>3. Togo(x) = 4
      <4>1. Skipped(x.kind) = 2
        BY <2>1 DEF Skipped
      <4> QED BY <3>2, <4>1 DEF Togo
    <3>4. Rank["store"] = 4 /\ Rank["drift"] = 3
      BY DEF Rank
    <3>5. \A i \in DOMAIN x.plan : Rank[x.plan[i]] = Togo(x) + 1 - i
      BY <3>2, <3>3, <3>4
    <3> QED BY <3>3, <3>5 DEF Ordered
  <2>2. CASE x.kind = "collect_and_assess"
    <3>1. x.plan = <<"store", "drift", "checks", "vulns">>
      BY <2>2, PlanIs
    <3>2. Len(x.plan) = 4 /\ DOMAIN x.plan = {1, 2, 3, 4} /\ x.plan[1] = "store" /\ x.plan[2] = "drift"
          /\ x.plan[3] = "checks" /\ x.plan[4] = "vulns"
      BY <3>1
    <3>3. Togo(x) = 4
      <4>1. Skipped(x.kind) = 0
        BY <2>2 DEF Skipped
      <4> QED BY <3>2, <4>1 DEF Togo
    <3>4. Rank["store"] = 4 /\ Rank["drift"] = 3 /\ Rank["checks"] = 2 /\ Rank["vulns"] = 1
      BY DEF Rank
    <3>5. \A i \in DOMAIN x.plan : Rank[x.plan[i]] = Togo(x) + 1 - i
      BY <3>2, <3>3, <3>4
    <3> QED BY <3>3, <3>5 DEF Ordered
  <2> QED BY <2>1, <2>2 DEF Contacts
<1>2. DOMAIN x.left = {}
  OBVIOUS
<1>3. \A k \in Measured : k \in Key
  BY DEF Measured, Key
<1>4. \A k \in Measured : Telling(x, k)
  BY <1>1, <1>2, <1>3 DEF Telling, Reached, Absent
<1> QED BY <1>1, <1>2, <1>4 DEF Faithful

LEMMA StartTells == \A r \in Run : GroundInv /\ TruthInv /\ Start(r) => TruthInv'
<1> SUFFICES ASSUME NEW r \in Run, GroundInv, TruthInv, Start(r) PROVE TruthInv'
  OBVIOUS
<1>1. FindTypeOK
  BY DEF GroundInv
<1>2. PICK kind \in DOMAIN Plan, c \in Config :
        /\ kind # "upload" => c = config
        /\ Contacts(kind) => AuditFree(r)
        /\ runs' = [q \in Run |->
             IF q # r THEN Disturbed(q)
             ELSE [Idle EXCEPT !.busy = TRUE, !.kind = kind, !.plan = Plan[kind], !.conf = c,
                                  !.audit = Contacts(kind), !.alone = \A p \in Run \ {r} : ~Underway(p)]]
  BY DEF Start
<1> DEFINE plan == Plan[kind]
           audit == Contacts(kind)
           alone == \A p \in Run \ {r} : ~Underway(p)
           new == AsStarted(Idle, kind, plan, c, audit, alone)
<1>3. kind \in Kind /\ plan \in Seq(Stage)
  BY PlanIs
<1>4. audit \in BOOLEAN /\ alone \in BOOLEAN
  BY DEF Contacts
<1>5. runs' = [q \in Run |-> IF q # r THEN Disturbed(q) ELSE new]
  BY <1>2 DEF AsStarted
<1>6. (alone => \A p \in Run \ {r} : ~Underway(p)) /\ plan = Plan[kind]
  OBVIOUS
<1> HIDE DEF plan, audit, alone
<1>7. /\ new \in ARun /\ new.kind = kind /\ new.plan = plan /\ new.conf = c /\ new.alone = alone /\ new.seen = NoOne /\ new.left = <<>>
      /\ \A k \in Key : new.wrote[k] = "untouched"
  BY <1>3, <1>4, IdleIs, RunStarted
<1> HIDE DEF new
<1>8. runs'[r] = new /\ \A q \in Run \ {r} : runs'[q] = Disturbed(q)
  BY <1>5
<1>9. UNCHANGED <<config, snaps, baseline, finding, excepted>>
  BY DEF Start
<1>10. ASSUME Contacts(kind) PROVE Faithful(runs[r])'
  <2>1. c = config
    BY <1>2, <1>10 DEF Contacts
  <2>2. Faithful(new)
    BY <1>6, <1>7, <1>10, <2>1, BegunFaithful
  <2> QED BY <1>8, <1>9, <2>2, FaithfulKeeps
<1>11. \A q \in Run \ {r} : ~(Disturbed(q).busy /\ Disturbed(q).alone) /\ (~Underway(q) => ~Disturbed(q).busy)
  BY <1>1, DisturbedIs, IdleIs
<1>12. ASSUME NEW q \in Run PROVE Unhurried(q)'
  <2>1. CASE q = r
    BY <1>6, <1>7, <1>8, <1>10, <1>11, <2>1 DEF Unhurried
  <2>2. CASE q # r
    BY <1>8, <1>11, <2>2 DEF Unhurried
  <2> QED BY <2>1, <2>2
<1> QED BY <1>12 DEF TruthInv

LEMMA DecisionsTell ==
    GroundInv /\ (Reconfigure \/ Triage \/ CreateException \/ EndException \/ PinBaseline \/ ClearBaseline) => TruthInv'
<1> SUFFICES ASSUME GroundInv, Reconfigure \/ Triage \/ CreateException \/ EndException \/ PinBaseline \/ ClearBaseline PROVE TruthInv'
  OBVIOUS
<1>1. runs' = [r \in Run |-> Disturbed(r)]
  BY DEF Reconfigure, Triage, CreateException, EndException, PinBaseline, ClearBaseline, Decide
<1>2. \A r \in Run : ~(Disturbed(r).busy /\ Disturbed(r).alone)
  BY DisturbedIs, IdleIs DEF GroundInv
<1> QED BY <1>1, <1>2 DEF TruthInv, Unhurried

LEMMA EndTells == \A r \in Run : GroundInv /\ TruthInv /\ (CommitRun(r) \/ Undo(r)) => TruthInv'
<1> SUFFICES ASSUME NEW r \in Run, GroundInv, TruthInv, CommitRun(r) \/ Undo(r) PROVE TruthInv'
  OBVIOUS
<1>1. runs' = [runs EXCEPT ![r] = Idle] /\ runs[r].busy /\ runs \in [Run -> ARun]
  BY DEF CommitRun, Undo, Underway, GroundInv, FindTypeOK
<1>2. runs'[r] = Idle /\ ~Idle.busy /\ \A q \in Run \ {r} : runs'[q] = runs[q]
  BY <1>1, IdleIs
<1>3. \A q \in Run \ {r} : ~(runs[q].busy /\ runs[q].alone)
  BY <1>1 DEF TruthInv, Unhurried
<1> QED BY <1>2, <1>3 DEF TruthInv, Unhurried

LEMMA StoreTells == \A r \in Run : GroundInv /\ TruthInv /\ StoreSnapshot(r) => TruthInv'
<1> SUFFICES ASSUME NEW r \in Run, GroundInv, TruthInv, StoreSnapshot(r) PROVE TruthInv'
  OBVIOUS
<1>1. /\ FindTypeOK /\ Stored /\ Grounded(r) /\ snaps \in Seq(ASnap) /\ runs \in [Run -> ARun] /\ runs[r] \in ARun
  BY DEF GroundInv, FindTypeOK
<1> DEFINE c == runs[r].conf
           same == SameConfig(r, c)
<1>2. PICK writes \in BOOLEAN :
        /\ snaps' = IF same = {} THEN Append(snaps, [conf |-> c, by |-> r]) ELSE snaps
        /\ runs' = [runs EXCEPT ![r].plan = Tail(runs[r].plan),
                                ![r].row = IF same = {} THEN Len(snaps') ELSE CHOOSE i \in same : TRUE,
                                ![r].device = writes]
  BY DEF StoreSnapshot
<1>3. /\ UNCHANGED <<config, baseline, finding, excepted>> /\ runs[r].plan # <<>> /\ runs[r].busy /\ runs[r].left = <<>>
      /\ Head(runs[r].plan) = "store"
  BY DEF StoreSnapshot, Between, Underway
<1> DEFINE own == IF same = {} THEN Len(snaps') ELSE CHOOSE i \in same : TRUE
           plan == Tail(runs[r].plan)
           new == AsStored(runs[r], plan, own, writes)
<1>4. plan \in Seq(Stage)
  <2>1. runs[r].plan \in Seq(Stage)
    BY <1>1, RunFields
  <2> QED BY <1>3, <2>1
<1>5. \A i \in same : i \in DOMAIN snaps /\ snaps[i].conf = c
  BY DEF SameConfig, Rows
<1> HIDE DEF same
<1>6. /\ \A i \in DOMAIN snaps : i \in DOMAIN snaps' /\ snaps'[i] = snaps[i]
      /\ own \in DOMAIN snaps' /\ own \in Nat /\ snaps'[own].conf = c
  <2>1. CASE same = {}
    <3>1. snaps' = Append(snaps, [conf |-> c, by |-> r]) /\ own = Len(snaps')
      BY <1>2, <2>1
    <3>2. Len(snaps') = Len(snaps) + 1 /\ DOMAIN snaps' = 1 .. Len(snaps') /\ snaps'[Len(snaps')] = [conf |-> c, by |-> r]
          /\ Len(snaps) \in Nat /\ \A i \in DOMAIN snaps : i \in DOMAIN snaps' /\ snaps'[i] = snaps[i]
      <4> HIDE DEF ASnap, c
      <4> QED BY <1>1, <3>1
    <3> QED BY <3>1, <3>2
  <2>2. CASE same # {}
    <3>1. own \in same /\ snaps' = snaps
      BY <1>2, <2>2
    <3>2. own \in DOMAIN snaps /\ DOMAIN snaps = 1 .. Len(snaps)
      BY <1>1, <1>5, <3>1
    <3> QED BY <1>5, <3>1, <3>2
  <2> QED BY <2>1, <2>2
<1>8. runs' = [runs EXCEPT ![r] = new]
  <2>1. runs' = [runs EXCEPT ![r].plan = plan, ![r].row = own, ![r].device = writes]
    BY <1>2
  <2> HIDE DEF own, plan
  <2>2. runs \in [Run -> ARun]
    BY <1>1
  <2> QED BY <2>1, <2>2 DEF AsStored
<1>11. plan = Tail(runs[r].plan)
  OBVIOUS
<1>9. /\ new \in ARun /\ new.busy = runs[r].busy /\ new.kind = runs[r].kind /\ new.plan = plan /\ new.conf = runs[r].conf /\ new.row = own
      /\ new.left = runs[r].left /\ new.seen = runs[r].seen /\ new.wrote = runs[r].wrote /\ new.alone = runs[r].alone
  <2> HIDE DEF own, plan
  <2> QED BY <1>1, <1>4, <1>6, RunStored
<1> HIDE DEF new, own, plan
<1>10. runs'[r] = new
  BY <1>1, <1>8
<1>12. ASSUME runs[r].alone, Contacts(runs[r].kind) PROVE Faithful(runs[r])'
  <2>1. Faithful(runs[r])
    BY <1>3, <1>12 DEF TruthInv, Unhurried
  <2>2. /\ Ordered(runs[r]) /\ Togo(runs[r]) \in Nat /\ Togo(new) = Togo(runs[r]) - 1 /\ Rank[Head(runs[r].plan)] = Togo(runs[r]) /\ Ordered(new)
    BY <1>1, <1>3, <1>9, <1>11, <2>1, NextStage DEF Faithful
  <2>3. Togo(runs[r]) = 4 /\ Togo(new) = 3
    BY <1>3, <2>2 DEF Rank
  <2>4. ASSUME NEW k \in Measured PROVE Telling(new, k) /\ ~Reached(new, k)
    <3>1. Telling(runs[r], k)
      BY <2>1 DEF Faithful
    <3> QED BY <1>9, <2>3, <3>1 DEF Telling, Reached, Absent
  <2>5. ASSUME NEW k \in Measured PROVE Telling(runs[r], k)'
    BY <1>10, <2>4 DEF Telling, Reached, Absent, Togo
  <2>6. (runs[r].row \in DOMAIN snaps /\ snaps[runs[r].row].conf = config)'
    BY <1>3, <1>6, <1>9, <1>10, <2>1 DEF Faithful
  <2>7. Ordered(runs[r])'
    BY <1>10, <2>2 DEF Ordered, Togo
  <2>8. runs[r].seen = NoOne
    BY <1>1, <1>3 DEF Grounded
  <2>9. DOMAIN new.left = {}
    BY <1>3, <1>9
  <2> QED BY <1>3, <1>9, <1>10, <2>1, <2>5, <2>6, <2>7, <2>8, <2>9 DEF Faithful
<1>13. new.busy /\ new.alone = runs[r].alone /\ new.kind = runs[r].kind
  BY <1>3, <1>9
<1> QED BY <1>3, <1>8, <1>12, <1>13, OneTells

\* A stage with entries begins: they tell the truth of what is measured in it, and miss only what nothing is said of.
LEMMA BegunTells ==
    ASSUME GroundInv, TruthInv, NEW r \in Run, runs[r].busy, runs[r].plan # <<>>, runs[r].left = <<>>, NEW todo \in Seq(Said),
           runs' = [runs EXCEPT ![r] = AsBegun(runs[r], Tail(runs[r].plan), todo)],
           UNCHANGED <<config, snaps, baseline, finding, excepted>>,
           \A i, j \in DOMAIN todo : todo[i].key = todo[j].key => i = j,
           Contacts(runs[r].kind) /\ Faithful(runs[r]) =>
               /\ Togo(runs[r]) # 4
               /\ \A k \in Measured :
                    IF Togo(runs[r]) = (IF k = Drift THEN 3 ELSE 2)
                    THEN /\ \A i \in DOMAIN todo : todo[i].key = k => todo[i].says = Truth(k)
                         /\ (\A i \in DOMAIN todo : todo[i].key # k) => Truth(k) = "silent"
                    ELSE \A i \in DOMAIN todo : todo[i].key # k
    PROVE  TruthInv'
<1> DEFINE plan == Tail(runs[r].plan)
           new == AsBegun(runs[r], plan, todo)
<1>1. Grounded(r) /\ runs \in [Run -> ARun] /\ runs[r] \in ARun
  BY DEF GroundInv, FindTypeOK
<1>2. plan \in Seq(Stage)
  <2>1. runs[r].plan \in Seq(Stage)
    BY <1>1, RunFields
  <2> QED BY <2>1
<1>3. plan = Tail(runs[r].plan)
  OBVIOUS
<1>4. runs' = [runs EXCEPT ![r] = new]
  OBVIOUS
<1> HIDE DEF plan
<1>5. /\ new \in ARun /\ new.busy = runs[r].busy /\ new.kind = runs[r].kind /\ new.plan = plan /\ new.conf = runs[r].conf
      /\ new.row = runs[r].row /\ new.left = todo /\ new.seen = runs[r].seen /\ new.wrote = runs[r].wrote /\ new.alone = runs[r].alone
  <2>1. todo \in Seq(Said)
    OBVIOUS
  <2> QED BY ONLY <1>1, <1>2, <2>1, RunBegun
<1> HIDE DEF new
<1>6. ASSUME Contacts(runs[r].kind), Faithful(runs[r]) PROVE Faithful(new)
  <2>1. /\ Togo(runs[r]) \in Nat /\ Togo(new) = Togo(runs[r]) - 1 /\ Ordered(new)
    BY <1>1, <1>3, <1>5, <1>6, NextStage DEF Faithful
  <2>2. runs[r].seen = NoOne
    BY <1>1 DEF Grounded
  <2>3. Togo(runs[r]) <= 3
    BY <1>6, <2>1 DEF Faithful, Ordered
  <2>4. DOMAIN runs[r].left = {}
    OBVIOUS
  <2>5. ASSUME NEW k \in Measured PROVE Telling(new, k)
    <3> DEFINE due == IF k = Drift THEN 3 ELSE 2
    <3>1. Telling(runs[r], k) /\ due \in {2, 3} /\ (Reached(runs[r], k) <=> Togo(runs[r]) <= due - 1) /\ (Reached(new, k) <=> Togo(runs[r]) - 1 <= due - 1)
      BY <1>6, <2>1 DEF Faithful, Reached
    <3>2. IF Togo(runs[r]) = due
          THEN /\ \A i \in DOMAIN todo : todo[i].key = k => todo[i].says = Truth(k)
               /\ (\A i \in DOMAIN todo : todo[i].key # k) => Truth(k) = "silent"
          ELSE \A i \in DOMAIN todo : todo[i].key # k
      BY <1>6
    <3> HIDE DEF due
    <3>3. CASE Togo(runs[r]) = due
      <4>1. Reached(new, k) /\ ~Reached(runs[r], k)
        BY <2>1, <3>1, <3>3
      <4>2. new.wrote[k] = "untouched"
        BY <1>5, <3>1, <4>1 DEF Telling
      <4> QED BY <1>5, <3>2, <3>3, <4>1, <4>2 DEF Telling, Absent, Final
    <3>4. CASE Togo(runs[r]) # due
      <4>1. Reached(new, k) <=> Reached(runs[r], k)
        BY <2>1, <3>1, <3>4
      <4>2. Absent(new, k) /\ Absent(runs[r], k)
        BY <1>5, <2>4, <3>2, <3>4 DEF Absent
      <4>3. \A i \in DOMAIN new.left : new.left[i].key # k
        BY <4>2 DEF Absent
      <4> QED BY <1>5, <3>1, <4>1, <4>2, <4>3 DEF Telling
    <3> QED BY <3>3, <3>4
  <2> QED BY <1>5, <1>6, <2>1, <2>2, <2>3, <2>5 DEF Faithful
<1>7. new.busy /\ new.alone = runs[r].alone /\ new.kind = runs[r].kind
  BY <1>5
<1> QED BY <1>4, <1>6, <1>7, OneTellsOnly

LEMMA BeginDriftTells == \A r \in Run : GroundInv /\ TruthInv /\ BeginDrift(r) => TruthInv'
<1> SUFFICES ASSUME NEW r \in Run, GroundInv, TruthInv, BeginDrift(r) PROVE TruthInv'
  OBVIOUS
<1> DEFINE plan == Tail(runs[r].plan)
           todo == <<[key |-> Drift, says |-> DriftSays(runs[r].row)]>>
<1>1. runs \in [Run -> ARun] /\ runs[r] \in ARun
  BY DEF GroundInv, FindTypeOK
<1>2. runs' = [runs EXCEPT ![r].plan = plan, ![r].left = todo] /\ UNCHANGED <<config, snaps, baseline, finding, excepted>>
  BY DEF BeginDrift
<1>3. todo \in Seq(Said) /\ DOMAIN todo = {1} /\ todo[1].key = Drift /\ todo[1].says = DriftSays(runs[r].row)
  BY DriftEntry
<1>4. runs[r].plan # <<>> /\ runs[r].left = <<>> /\ runs[r].busy /\ Head(runs[r].plan) = "drift"
  BY DEF BeginDrift, Between, Underway
<1>5. runs' = [runs EXCEPT ![r] = AsBegun(runs[r], Tail(runs[r].plan), todo)]
  <2> HIDE DEF todo
  <2> QED BY <1>1, <1>2 DEF AsBegun
<1> HIDE DEF todo, plan
<1>6. ASSUME Contacts(runs[r].kind), Faithful(runs[r]), NEW k \in Measured
      PROVE  /\ Togo(runs[r]) = 3
             /\ k = Drift => \A i \in DOMAIN todo : todo[i].says = Truth(k)
             /\ k # Drift => \A i \in DOMAIN todo : todo[i].key # k
             /\ ~\A i \in DOMAIN todo : todo[i].key # Drift
  <2>1. Togo(runs[r]) = 3
    <3>1. Rank["drift"] = 3
      BY DEF Rank
    <3>2. Rank[Head(runs[r].plan)] = Togo(runs[r])
      <4>1. Ordered(runs[r])
        BY <1>6 DEF Faithful
      <4> DEFINE y == [plan |-> Tail(runs[r].plan), kind |-> runs[r].kind]
      <4>2. y.plan = Tail(runs[r].plan) /\ y.kind = runs[r].kind
        OBVIOUS
      <4> HIDE DEF y
      <4> QED BY <1>1, <1>4, <4>1, <4>2, NextStage
    <3> QED BY <1>4, <3>1, <3>2
  <2>2. DriftSays(runs[r].row) = Truth(Drift)
    BY <1>6, <2>1 DEF Faithful, DriftSays, Truth
  <2> QED BY <1>3, <2>1, <2>2
<1>7. ASSUME Contacts(runs[r].kind), Faithful(runs[r])
      PROVE  /\ Togo(runs[r]) # 4
             /\ \A k \in Measured :
                    IF Togo(runs[r]) = (IF k = Drift THEN 3 ELSE 2)
                    THEN /\ \A i \in DOMAIN todo : todo[i].key = k => todo[i].says = Truth(k)
                         /\ (\A i \in DOMAIN todo : todo[i].key # k) => Truth(k) = "silent"
                    ELSE \A i \in DOMAIN todo : todo[i].key # k
  <2>1. Drift \in Measured
    BY DEF Measured
  <2>2. Togo(runs[r]) = 3
    BY <1>6, <1>7, <2>1
  <2> QED BY <1>6, <1>7, <2>2
<1>8. UNCHANGED <<config, snaps, baseline, finding, excepted>>
  BY <1>2
<1>9. \A i, j \in DOMAIN todo : todo[i].key = todo[j].key => i = j
  BY <1>3
<1> QED BY <1>3, <1>4, <1>5, <1>7, <1>8, <1>9, BegunTells

LEMMA BeginChecksTells == \A r \in Run : GroundInv /\ TruthInv /\ BeginChecks(r) => TruthInv'
<1> SUFFICES ASSUME NEW r \in Run, GroundInv, TruthInv, BeginChecks(r) PROVE TruthInv'
  OBVIOUS
<1> DEFINE S == {v \in Says(CheckKey, Judged(r)) : v.says # "silent" /\ ~Suppressed(v)}
           todo == SetToSeq(S)
<1>1. runs \in [Run -> ARun] /\ runs[r] \in ARun /\ FindTypeOK /\ Stored /\ Grounded(r)
  BY DEF GroundInv, FindTypeOK
<1>2. /\ runs[r].plan # <<>> /\ runs[r].left = <<>> /\ runs[r].busy /\ Head(runs[r].plan) = "checks" /\ Judged(r) # 0
      /\ runs' = [runs EXCEPT ![r].plan = Tail(@), ![r].left = todo] /\ UNCHANGED <<config, snaps, baseline, finding, excepted>>
  BY DEF BeginChecks, Between, Underway
<1>3. Judged(r) \in Rows(r)
  BY <1>1, <1>2, RowIs DEF Judged, Grounded
<1>4. Judged(r) \in DOMAIN snaps /\ snaps[Judged(r)].conf \in Config
  BY <1>1, <1>3, RowIs, FindingAssumption DEF Stored
<1>5. S \subseteq Says(CheckKey, Judged(r)) /\ \A v \in S : v.says # "silent"
  OBVIOUS
<1>6. \A v : v \in S <=> v \in Says(CheckKey, Judged(r)) /\ v.says # "silent" /\ ~Suppressed(v)
  OBVIOUS
<1> HIDE DEF S
<1>7. Entered(CheckKey, Judged(r), S)
  BY <1>1, <1>4, <1>5, SaidOf
<1>8. /\ todo \in Seq(Said)
      /\ \A j \in DOMAIN todo : todo[j] \in S /\ todo[j].key \in CheckKey /\ todo[j].says = Verdict[snaps[Judged(r)].conf][todo[j].key]
      /\ \A v \in S : \E j \in DOMAIN todo : todo[j] = v
      /\ \A j, m \in DOMAIN todo : todo[j].key = todo[m].key => j = m
  BY <1>7 DEF Entered
<1> HIDE DEF todo
<1>9. runs' = [runs EXCEPT ![r] = AsBegun(runs[r], Tail(runs[r].plan), todo)]
  BY <1>1, <1>2 DEF AsBegun
<1>10. ASSUME Contacts(runs[r].kind), Faithful(runs[r])
      PROVE  /\ Togo(runs[r]) # 4
             /\ \A k \in Measured :
                    IF Togo(runs[r]) = (IF k = Drift THEN 3 ELSE 2)
                    THEN /\ \A i \in DOMAIN todo : todo[i].key = k => todo[i].says = Truth(k)
                         /\ (\A i \in DOMAIN todo : todo[i].key # k) => Truth(k) = "silent"
                    ELSE \A i \in DOMAIN todo : todo[i].key # k
  <2>1. Togo(runs[r]) = 2
    <3>1. Rank["checks"] = 2
      BY DEF Rank
    <3>2. Rank[Head(runs[r].plan)] = Togo(runs[r])
      <4>1. Ordered(runs[r])
        BY <1>10 DEF Faithful
      <4> DEFINE y == [plan |-> Tail(runs[r].plan), kind |-> runs[r].kind]
      <4>2. y.plan = Tail(runs[r].plan) /\ y.kind = runs[r].kind
        OBVIOUS
      <4> HIDE DEF y
      <4> QED BY <1>1, <1>2, <4>1, <4>2, NextStage
    <3> QED BY <1>2, <3>1, <3>2
  <2>2. runs[r].row \in DOMAIN snaps /\ snaps[runs[r].row].conf = config
    BY <1>10, <2>1 DEF Faithful
  <2>3. Judged(r) = runs[r].row
    BY <1>1, <2>2 DEF Judged, FindTypeOK
  <2>4. snaps[Judged(r)].conf = config
    BY <2>2, <2>3
  <2>5. ASSUME NEW k \in CheckKey
        PROVE  /\ k # Drift
               /\ \A i \in DOMAIN todo : todo[i].key = k => todo[i].says = Truth(k)
               /\ (\A i \in DOMAIN todo : todo[i].key # k) => Truth(k) = "silent"
    <3>1. k # Drift
      BY FindingAssumption
    <3>2. \A i \in DOMAIN todo : todo[i].key = k => todo[i].says = Truth(k)
      BY <1>6, <1>8, <2>4, <3>1 DEF Truth, Suppressed
    <3>3. ASSUME \A i \in DOMAIN todo : todo[i].key # k PROVE Truth(k) = "silent"
      <4> DEFINE v == [key |-> k, says |-> Verdict[snaps[Judged(r)].conf][k]]
      <4>1. v \in Says(CheckKey, Judged(r)) /\ v.key = k /\ v.says = Verdict[config][k]
        BY <2>4 DEF Says
      <4> HIDE DEF v
      <4>2. v \notin S
        BY <1>8, <3>3, <4>1
      <4>3. v.says = "silent" \/ Suppressed(v)
        BY <1>6, <4>1, <4>2
      <4> QED BY <3>1, <4>1, <4>3 DEF Truth, Suppressed
    <3> QED BY <3>1, <3>2, <3>3
  <2>6. \A i \in DOMAIN todo : todo[i].key # Drift
    BY <1>8, FindingAssumption
  <2>7. \A k \in Measured : k = Drift \/ k \in CheckKey
    BY DEF Measured
  <2> QED BY <2>1, <2>5, <2>6, <2>7
<1>11. UNCHANGED <<config, snaps, baseline, finding, excepted>>
  BY <1>2
<1> QED BY <1>2, <1>8, <1>9, <1>10, <1>11, BegunTells

LEMMA BeginVulnsTells == \A r \in Run : GroundInv /\ TruthInv /\ BeginVulns(r) => TruthInv'
<1> SUFFICES ASSUME NEW r \in Run, GroundInv, TruthInv, BeginVulns(r) PROVE TruthInv'
  OBVIOUS
<1> DEFINE i == Newest(Rows(r))
           S == {v \in Says(VulnKey, i) : v.says # "silent"}
           todo == SetToSeq(S)
<1>1. runs \in [Run -> ARun] /\ runs[r] \in ARun /\ FindTypeOK /\ Stored
  BY DEF GroundInv, FindTypeOK
<1>2. /\ runs[r].plan # <<>> /\ runs[r].left = <<>> /\ runs[r].busy /\ Head(runs[r].plan) = "vulns" /\ i # 0
      /\ runs' = [runs EXCEPT ![r].plan = Tail(@), ![r].left = todo] /\ UNCHANGED <<config, snaps, baseline, finding, excepted>>
  BY DEF BeginVulns, Between, Underway
<1>3. i \in Rows(r)
  BY <1>1, <1>2, RowIs
<1>4. i \in DOMAIN snaps /\ snaps[i].conf \in Config
  BY <1>1, <1>3, RowIs, FindingAssumption DEF Stored
<1> HIDE DEF i
<1>5. S \subseteq Says(VulnKey, i) /\ \A v \in S : v.says # "silent"
  OBVIOUS
<1> HIDE DEF S
<1>7. Entered(VulnKey, i, S)
  BY <1>1, <1>4, <1>5, SaidOf
<1>8. /\ todo \in Seq(Said) /\ \A j \in DOMAIN todo : todo[j].key \in VulnKey
      /\ \A j, m \in DOMAIN todo : todo[j].key = todo[m].key => j = m
  BY <1>7 DEF Entered
<1> HIDE DEF todo
<1>9. runs' = [runs EXCEPT ![r] = AsBegun(runs[r], Tail(runs[r].plan), todo)]
  BY <1>1, <1>2 DEF AsBegun
<1>10. ASSUME Contacts(runs[r].kind), Faithful(runs[r])
      PROVE  /\ Togo(runs[r]) # 4
             /\ \A k \in Measured :
                    IF Togo(runs[r]) = (IF k = Drift THEN 3 ELSE 2)
                    THEN /\ \A j \in DOMAIN todo : todo[j].key = k => todo[j].says = Truth(k)
                         /\ (\A j \in DOMAIN todo : todo[j].key # k) => Truth(k) = "silent"
                    ELSE \A j \in DOMAIN todo : todo[j].key # k
  <2>1. Togo(runs[r]) = 1
    <3>1. Rank["vulns"] = 1
      BY DEF Rank
    <3>2. Rank[Head(runs[r].plan)] = Togo(runs[r])
      <4>1. Ordered(runs[r])
        BY <1>10 DEF Faithful
      <4> DEFINE y == [plan |-> Tail(runs[r].plan), kind |-> runs[r].kind]
      <4>2. y.plan = Tail(runs[r].plan) /\ y.kind = runs[r].kind
        OBVIOUS
      <4> HIDE DEF y
      <4> QED BY <1>1, <1>2, <4>1, <4>2, NextStage
    <3> QED BY <1>2, <3>1, <3>2
  <2>2. \A k \in Measured : k \notin VulnKey
    BY FindingAssumption DEF Measured
  <2> QED BY <1>8, <2>1, <2>2
<1>11. UNCHANGED <<config, snaps, baseline, finding, excepted>>
  BY <1>2
<1> QED BY <1>2, <1>8, <1>9, <1>10, <1>11, BegunTells

LEMMA LookUpTells == \A r \in Run : GroundInv /\ TruthInv /\ LookUp(r) => TruthInv'
<1> SUFFICES ASSUME NEW r \in Run, GroundInv, TruthInv, LookUp(r) PROVE TruthInv'
  OBVIOUS
<1>1. runs \in [Run -> ARun] /\ runs[r] \in ARun /\ finding \in [Key -> Status] /\ Grounded(r)
  BY DEF GroundInv, FindTypeOK
<1>2. runs[r].left # <<>> /\ runs[r].busy /\ UNCHANGED <<config, snaps, baseline, finding, excepted>>
  BY DEF LookUp, Underway
<1> DEFINE seen == finding[Head(runs[r].left).key]
           new == AsLooked(runs[r], seen)
<1>3. Head(runs[r].left) \in Said /\ Head(runs[r].left) = runs[r].left[1]
  BY <1>1, <1>2, RunFields, HeadAndTail
<1>4. seen \in Status /\ seen = finding[runs[r].left[1].key]
  BY <1>1, <1>3 DEF Said
<1>5. runs' = [runs EXCEPT ![r] = new]
  <2>1. runs' = [runs EXCEPT ![r].seen = seen]
    BY DEF LookUp
  <2> HIDE DEF seen
  <2> QED BY <1>1, <2>1 DEF AsLooked
<1> HIDE DEF seen
<1>6. /\ new \in ARun /\ new.busy = runs[r].busy /\ new.kind = runs[r].kind /\ new.plan = runs[r].plan /\ new.conf = runs[r].conf
      /\ new.row = runs[r].row /\ new.left = runs[r].left /\ new.seen = seen /\ new.wrote = runs[r].wrote /\ new.alone = runs[r].alone
  BY <1>1, <1>4, RunLooked
<1> HIDE DEF new
<1>7. ASSUME Faithful(runs[r]) PROVE Faithful(new)
  <2>1. \A k \in Measured : Telling(new, k)
    BY <1>6, <1>7 DEF Faithful, Telling, Reached, Absent, Togo
  <2> QED BY <1>4, <1>6, <1>7, <2>1 DEF Faithful, Ordered, Togo
<1>8. new.busy /\ new.alone = runs[r].alone /\ new.kind = runs[r].kind
  BY <1>2, <1>6
<1> QED BY <1>2, <1>5, <1>7, <1>8, OneTellsOnly

LEMMA WriteTells == \A r \in Run : GroundInv /\ TruthInv /\ WriteFinding(r) => TruthInv'
<1> SUFFICES ASSUME NEW r \in Run, GroundInv, TruthInv, WriteFinding(r) PROVE TruthInv'
  OBVIOUS
<1>1. runs \in [Run -> ARun] /\ runs[r] \in ARun /\ Grounded(r)
  BY DEF GroundInv, FindTypeOK
<1> DEFINE v == Head(runs[r].left)
           k == v.key
           status == AfterVerdict(runs[r].seen, v.says)
           todo == Tail(runs[r].left)
           new == AsWritten(runs[r], todo, k, status)
<1>2. UNCHANGED <<config, snaps, baseline, finding, excepted>> /\ runs[r].left # <<>> /\ runs[r].seen # NoOne /\ runs[r].busy
  <2>1. runs[r].seen # NoOne /\ runs[r].busy /\ UNCHANGED <<config, snaps, baseline, finding, excepted>>
    BY DEF WriteFinding, Underway
  <2> QED BY <1>1, <2>1 DEF Grounded
<1>3. /\ runs[r].left \in Seq(Said) /\ runs[r].wrote \in [Key -> Outcome]
      /\ v \in Said /\ todo \in Seq(Said) /\ 1 \in DOMAIN runs[r].left /\ v = runs[r].left[1]
      /\ \A j \in DOMAIN todo : j + 1 \in DOMAIN runs[r].left /\ j \in Nat /\ todo[j] = runs[r].left[j + 1]
      /\ \A j \in DOMAIN runs[r].left : j # 1 => j - 1 \in DOMAIN todo /\ j \in Nat /\ todo[j - 1] = runs[r].left[j]
  <2>1. runs[r].left \in Seq(Said) /\ runs[r].wrote \in [Key -> Outcome]
    BY <1>1, RunFields
  <2> QED BY <1>2, <2>1, HeadAndTail
<1>4. k \in Key /\ v.says \in {"fail", "pass"} /\ status \in Outcome
  <2>1. k \in Key /\ v.says \in {"fail", "pass"}
    BY <1>3 DEF Said
  <2> QED BY <2>1, OutcomeIs
<1>5. runs' = [runs EXCEPT ![r] = new]
  <2>1. runs' = [runs EXCEPT ![r].left = todo, ![r].seen = NoOne, ![r].wrote[k] = status]
    BY DEF WriteFinding
  <2> HIDE DEF v, k, todo, status
  <2> QED BY <1>1, <2>1 DEF AsWritten
<1>6. k = v.key /\ status = AfterVerdict(runs[r].seen, v.says)
  OBVIOUS
<1> HIDE DEF v, k, todo, status
<1>7. /\ new \in ARun /\ new.busy = runs[r].busy /\ new.kind = runs[r].kind /\ new.plan = runs[r].plan /\ new.conf = runs[r].conf
      /\ new.row = runs[r].row /\ new.left = todo /\ new.seen = NoOne /\ new.wrote = [runs[r].wrote EXCEPT ![k] = status]
      /\ new.alone = runs[r].alone
  BY <1>1, <1>3, <1>4, RunWrote
<1> HIDE DEF new
<1>8. ASSUME Faithful(runs[r]) PROVE Faithful(new)
  <2>1. \A i, j \in DOMAIN todo : todo[i].key = todo[j].key => i = j
    <3> SUFFICES ASSUME NEW i \in DOMAIN todo, NEW j \in DOMAIN todo, todo[i].key = todo[j].key PROVE i = j
      OBVIOUS
    <3>1. i + 1 = j + 1
      BY <1>3, <1>8 DEF Faithful
    <3> QED BY <1>3, <3>1
  <2>2. Togo(new) = Togo(runs[r]) /\ Ordered(new)
    BY <1>7, <1>8 DEF Faithful, Ordered, Togo
  <2>3. ASSUME NEW i \in DOMAIN todo PROVE todo[i].key # k
    <3>1. i + 1 # 1 /\ i + 1 \in DOMAIN runs[r].left /\ todo[i] = runs[r].left[i + 1]
      BY <1>3
    <3> QED BY <1>3, <1>6, <1>8, <3>1 DEF Faithful
  <2>4. ASSUME NEW m \in Measured PROVE Telling(new, m)
    <3>1. Telling(runs[r], m) /\ (Reached(new, m) <=> Reached(runs[r], m))
      BY <1>8, <2>2 DEF Faithful, Reached
    <3>2. CASE m = k
      <4>1. ~Absent(runs[r], k)
        BY <1>3, <1>6 DEF Absent
      <4>2. Reached(runs[r], k)
        BY <3>1, <3>2, <4>1 DEF Telling
      <4>3. v.says = Truth(k)
        BY <1>3, <1>6, <3>1, <3>2, <4>2 DEF Telling
      <4>4. runs[r].seen = finding[k]
        BY <1>2, <1>3, <1>6, <1>8 DEF Faithful
      <4>5. status = Final(k)
        BY <1>4, <1>6, <4>3, <4>4 DEF Final
      <4>6. new.wrote[k] = Final(k)
        BY <1>3, <1>4, <1>7, <4>5
      <4> QED BY <1>7, <2>3, <3>1, <3>2, <4>2, <4>6 DEF Telling
    <3>3. CASE m # k
      <4>1. new.wrote[m] = runs[r].wrote[m]
        <5>1. m \in Key
          BY DEF Measured, Key
        <5> QED BY <1>3, <1>7, <3>3, <5>1
      <4>2. Absent(new, m) <=> Absent(runs[r], m)
        <5>1. ASSUME Absent(new, m), NEW j \in DOMAIN runs[r].left PROVE runs[r].left[j].key # m
          <6>1. CASE j = 1
            BY <1>3, <1>6, <3>3, <6>1
          <6>2. CASE j # 1
            <7>1. j - 1 \in DOMAIN todo /\ todo[j - 1] = runs[r].left[j]
              BY <1>3, <6>2
            <7> QED BY <1>7, <5>1, <7>1 DEF Absent
          <6> QED BY <6>1, <6>2
        <5>2. ASSUME Absent(runs[r], m), NEW j \in DOMAIN new.left PROVE new.left[j].key # m
          BY <1>3, <1>7, <5>2 DEF Absent
        <5> QED BY <5>1, <5>2 DEF Absent
      <4>3. ASSUME Reached(new, m), NEW j \in DOMAIN new.left, new.left[j].key = m PROVE new.left[j].says = Truth(m)
        BY <1>3, <1>7, <3>1, <4>3 DEF Telling
      <4>4. Reached(new, m) => \A j \in DOMAIN new.left : new.left[j].key = m => new.left[j].says = Truth(m)
        BY <4>3
      <4> QED BY <3>1, <4>1, <4>2, <4>4 DEF Telling
    <3> QED BY <3>2, <3>3
  <2> QED BY <1>7, <1>8, <2>1, <2>2, <2>4 DEF Faithful
<1>9. new.busy /\ new.alone = runs[r].alone /\ new.kind = runs[r].kind
  BY <1>2, <1>7
<1> QED BY <1>2, <1>5, <1>8, <1>9, OneTellsOnly

LEMMA TruthInit == FindingInit => TruthInv
<1> SUFFICES ASSUME FindingInit PROVE TruthInv
  OBVIOUS
<1>1. \A r \in Run : ~runs[r].busy
  BY IdleIs DEF FindingInit
<1> QED BY <1>1 DEF TruthInv, Unhurried

LEMMA TruthInductive == FindingSpec => []TruthInv
<1>1. GroundInv /\ TruthInv /\ [FindingNext]_findingVars => TruthInv'
  <2> SUFFICES ASSUME GroundInv, TruthInv, [FindingNext]_findingVars PROVE TruthInv'
    OBVIOUS
  <2>1. CASE UNCHANGED findingVars
    <3>1. UNCHANGED <<config, snaps, baseline, finding, excepted, runs>>
      BY <2>1 DEF findingVars
    <3>2. ASSUME NEW r \in Run PROVE Unhurried(r)'
      <4>1. CASE ~(runs[r].busy /\ runs[r].alone)
        BY <3>1, <4>1 DEF Unhurried
      <4>2. CASE runs[r].busy /\ runs[r].alone
        <5>1. Contacts(runs[r].kind) => Faithful(runs[r])
          BY <4>2 DEF TruthInv, Unhurried
        <5>2. Contacts(runs[r].kind) => Faithful(runs[r])'
          BY <3>1, <5>1, FaithfulKeeps
        <5> QED BY <3>1, <4>2, <5>2 DEF TruthInv, Unhurried
      <4> QED BY <4>1, <4>2
    <3> QED BY <3>2 DEF TruthInv
  <2>2. CASE FindingNext
    BY <2>2, StartTells, StoreTells, BeginDriftTells, BeginChecksTells, BeginVulnsTells, LookUpTells, WriteTells, EndTells, DecisionsTell
       DEF FindingNext
  <2> QED BY <2>1, <2>2
<1> QED BY <1>1, TruthInit, FindingInductive, PTL DEF FindingSpec

\* What is written is what the device says.
LEMMA FinalSettles ==
    ASSUME FindTypeOK, NEW r \in Run, CommitRun(r), NEW k \in Measured, runs[r].wrote[k] = Final(k)
    PROVE  Settles(k, Truth(k))
<1>1. k \in Key /\ finding[k] \in Status
  BY DEF FindTypeOK, Measured, Key
<1>2. finding'[k] = IF runs[r].wrote[k] \in {"untouched", "kept"} THEN finding[k] ELSE runs[r].wrote[k]
  BY <1>1 DEF CommitRun
<1>3. CASE Truth(k) = "silent"
  BY <1>2, <1>3 DEF Settles, Final
<1>4. CASE Truth(k) = "fail"
  <2>1. runs[r].wrote[k] = AfterVerdict(finding[k], "fail")
    BY <1>4 DEF Final
  <2>2. finding'[k] \in Active
    BY <1>2, <2>1 DEF AfterVerdict, Active
  <2> QED BY <1>4, <2>2 DEF Settles
<1>5. CASE Truth(k) = "pass"
  <2>1. runs[r].wrote[k] = AfterVerdict(finding[k], "pass")
    BY <1>5 DEF Final
  <2>2. finding'[k] \notin Active
    BY <1>2, <2>1 DEF AfterVerdict, Active
  <2> QED BY <1>5, <2>2 DEF Settles
<1>6. CASE Truth(k) \notin {"silent", "fail", "pass"}
  <2>1. k # Drift /\ k \in CheckKey
    BY <1>6 DEF Truth, Measured
  <2>2. Verdict[config][k] \in {"fail", "pass", "silent"}
    BY <2>1, FindingAssumption DEF FindTypeOK
  <2> QED BY <1>6, <2>1, <2>2 DEF Truth
<1> QED BY <1>3, <1>4, <1>5, <1>6

\* Whatever was open, closed, accepted or reopened before, and whatever overlapping
\* runs did earlier, a collection that nothing overlaps leaves drift and every check
\* as the device's configuration and the exceptions in force have them.
THEOREM CollectionsTell == FindingSpec => CollectionsTellTheTruth
<1> DEFINE Tells(r) ==
        CommitRun(r) /\ runs[r].alone /\ Contacts(runs[r].kind) =>
            /\ Settles(Drift, IF baseline = 0 \/ snaps[baseline].conf = config THEN "pass" ELSE "fail")
            /\ runs[r].kind = "collect_and_assess" =>
                \A k \in CheckKey : LET says == Verdict[config][k]
                                    IN Settles(k, IF says = "fail" /\ k \in excepted THEN "silent" ELSE says)
<1>1. ASSUME GroundInv, TruthInv, NEW r \in Run PROVE Tells(r)
  <2> SUFFICES ASSUME CommitRun(r), runs[r].alone, Contacts(runs[r].kind) PROVE Tells(r)
    OBVIOUS
  <2>1. runs[r].busy /\ runs[r].plan = <<>> /\ runs[r].left = <<>> /\ FindTypeOK
    BY <1>1 DEF CommitRun, Underway, GroundInv
  <2>2. Faithful(runs[r])
    BY <1>1, <2>1 DEF TruthInv, Unhurried
  <2>3. Togo(runs[r]) = Skipped(runs[r].kind) /\ Skipped(runs[r].kind) \in {0, 2}
    <3>1. Len(runs[r].plan) = 0 /\ Skipped(runs[r].kind) \in {0, 2}
      BY <2>1 DEF Skipped
    <3> QED BY <3>1 DEF Togo
  <2>4. DOMAIN runs[r].left = {}
    BY <2>1
  <2>5. ASSUME NEW k \in Measured, Reached(runs[r], k) PROVE Settles(k, Truth(k))
    <3>1. runs[r].wrote[k] = Final(k)
      BY <2>2, <2>4, <2>5 DEF Faithful, Telling, Absent
    <3> QED BY <2>1, <3>1, FinalSettles
  <2>6. Settles(Drift, Truth(Drift))
    BY <2>3, <2>5 DEF Reached, Measured
  <2>7. ASSUME runs[r].kind = "collect_and_assess", NEW k \in CheckKey PROVE Settles(k, Truth(k)) /\ k # Drift
    <3>1. k # Drift /\ Skipped(runs[r].kind) = 0
      BY <2>7, FindingAssumption DEF Skipped
    <3> QED BY <2>3, <2>5, <3>1 DEF Reached, Measured
  <2>8. Truth(Drift) = IF baseline = 0 \/ snaps[baseline].conf = config THEN "pass" ELSE "fail"
    BY DEF Truth
  <2>9. \A k \in CheckKey : k # Drift => Truth(k) = IF Verdict[config][k] = "fail" /\ k \in excepted THEN "silent" ELSE Verdict[config][k]
    BY DEF Truth
  <2> HIDE DEF Truth, Settles
  <2> QED BY <2>6, <2>7, <2>8, <2>9
<1>2. ASSUME GroundInv, TruthInv PROVE [\A r \in Run : Tells(r)]_findingVars
  BY <1>1, <1>2
<1> QED BY <1>2, FindingInductive, TruthInductive, PTL DEF CollectionsTellTheTruth
-----------------------------------------------------------------------------
(* Discovered hosts *)

HostStatus == {"unseen", "pending", "approved", "rejected"}
Host == [status : HostStatus, identified : BOOLEAN]
Ruled(host) == host.status \in {"approved", "rejected"}

AScan == [on : BOOLEAN, auto : BOOLEAN, todo : SUBSET Addr, failed : BOOLEAN, answered : SUBSET Addr, sure : SUBSET Addr,
          added : SUBSET Addr, wrote : [Addr -> Host]]

\* A device is made of a host that was onboarded with an identity, over no
\* approval.
Warranted(x, a) ==
    /\ x.auto
    /\ IF queue[a].status = "rejected" THEN queue[a].identified ELSE queue[a].status # "approved" /\ a \in x.sure

\* What a run will write of a host it holds leaves what people ruled, unless it
\* makes a device of one they rejected.
Careful(x, a) ==
    /\ a \in x.answered =>
         /\ a \notin x.todo /\ x.wrote[a].status # "unseen"
         /\ Ruled(queue[a]) =>
              \/ x.wrote[a] = queue[a]
              \/ queue[a].status = "rejected" /\ a \in x.added /\ x.wrote[a] = Overruled(queue[a])
    /\ a \in x.added => a \in x.answered /\ Warranted(x, a)

DiscoveryInv ==
    /\ queue \in [Addr -> Host] /\ scan \in [Scan -> AScan]
    /\ \A s, t \in Scan : s # t => scan[s].answered \cap scan[t].answered = {}
    /\ \A s \in Scan, a \in Addr : Careful(scan[s], a)

AsSilent(x, a) == [x EXCEPT !.todo = @ \ {a}]

LEMMA ScanSilent ==
    ASSUME NEW x \in AScan, NEW a
    PROVE  LET y == AsSilent(x, a) IN
           /\ y \in AScan /\ y.answered = x.answered /\ y.sure = x.sure /\ y.added = x.added /\ y.wrote = x.wrote
           /\ y.auto = x.auto /\ y.todo = x.todo \ {a}
<1> HIDE DEF Host
<1> QED BY DEF AScan, AsSilent

AsScanning(auto) == [NoScan EXCEPT !.on = TRUE, !.auto = auto, !.todo = Addr]

LEMMA ScanFresh ==
    /\ NoScan \in AScan /\ NoScan.answered = {} /\ NoScan.added = {}
    /\ \A auto \in BOOLEAN : AsScanning(auto) \in AScan /\ AsScanning(auto).answered = {} /\ AsScanning(auto).added = {}
<1>1. Unseen \in Host
  BY DEF Unseen, Host, HostStatus
<1> HIDE DEF Host
<1>2. NoScan \in AScan /\ NoScan.answered = {} /\ NoScan.added = {}
  BY <1>1 DEF NoScan, AScan
<1>3. ASSUME NEW auto \in BOOLEAN PROVE AsScanning(auto) \in AScan /\ AsScanning(auto).answered = {} /\ AsScanning(auto).added = {}
  BY <1>2, <1>3 DEF AScan, AsScanning
<1> QED BY <1>2, <1>3

\* The other scans, and the hosts they hold, are left alone.
LEMMA OneScans ==
    ASSUME DiscoveryInv, NEW s \in Scan, NEW x \in AScan, scan' = [scan EXCEPT ![s] = x], queue' = queue,
           \A t \in Scan \ {s} : scan[t].answered \cap x.answered = {}, \A a \in Addr : Careful(x, a)
    PROVE  DiscoveryInv'
<1>1. scan' \in [Scan -> AScan] /\ scan'[s] = x /\ \A t \in Scan \ {s} : scan'[t] = scan[t]
  BY DEF DiscoveryInv
<1>2. \A t, u \in Scan : t # u => scan'[t].answered \cap scan'[u].answered = {}
  BY <1>1 DEF DiscoveryInv
<1>3. \A t \in Scan, a \in Addr : Careful(scan'[t], a)
  BY <1>1 DEF DiscoveryInv
<1>4. \A t \in Scan, a \in Addr : Careful(scan[t], a)'
  BY <1>3 DEF Careful, Warranted
<1> QED BY <1>1, <1>2, <1>4 DEF DiscoveryInv

\* What people do to hosts no run holds.
LEMMA PeopleScan ==
    ASSUME DiscoveryInv, scan' = scan, queue' \in [Addr -> Host],
           \A a \in Addr : (\E s \in Scan : a \in scan[s].answered) => queue'[a] = queue[a]
    PROVE  DiscoveryInv'
<1>1. ASSUME NEW s \in Scan, NEW a \in Addr PROVE Careful(scan[s], a)'
  <2>1. Careful(scan[s], a)
    BY DEF DiscoveryInv
  <2>2. CASE a \in scan[s].answered
    BY <2>1, <2>2 DEF Careful, Warranted
  <2>3. CASE a \notin scan[s].answered
    BY <2>1, <2>3 DEF Careful
  <2> QED BY <2>2, <2>3
<1> QED BY <1>1 DEF DiscoveryInv

LEMMA AnswerIsCareful == \A s \in Scan : DiscoveryInv /\ Answer(s) => DiscoveryInv'
<1> SUFFICES ASSUME NEW s \in Scan, DiscoveryInv, Answer(s) PROVE DiscoveryInv'
  OBVIOUS
<1>1. scan[s] \in AScan /\ queue \in [Addr -> Host]
  BY DEF DiscoveryInv
<1>2. scan[s].todo \subseteq Addr /\ scan[s].answered \subseteq Addr /\ scan[s].wrote \in [Addr -> Host]
  BY <1>1 DEF AScan
<1>3. PICK a \in scan[s].todo, identified, contested \in BOOLEAN :
        /\ contested => identified
        /\ ~Held(a, s)
        /\ LET host == Recorded(queue[a], identified)
               onboard == Onboards(scan[s].auto, host, contested)
               refused == onboard /\ (host.status = "approved" \/ a \in devices)
               added == onboard /\ ~refused
           IN scan' = [scan EXCEPT ![s] = Noted(scan[s], a, refused, identified /\ ~contested, added,
                                                IF added THEN [host EXCEPT !.status = "approved"] ELSE host)]
  BY DEF Answer
<1> DEFINE host == Recorded(queue[a], identified)
           onboard == Onboards(scan[s].auto, host, contested)
           refused == onboard /\ (host.status = "approved" \/ a \in devices)
           added == onboard /\ ~refused
           sure == identified /\ ~contested
           written == IF added THEN [host EXCEPT !.status = "approved"] ELSE host
           x == Noted(scan[s], a, refused, sure, added, written)
<1>4. a \in Addr /\ queue[a] \in Host
  BY <1>1, <1>2, <1>3
<1>5. /\ host \in Host /\ host.status # "unseen"
      /\ Ruled(queue[a]) => host = queue[a]
      /\ ~Ruled(queue[a]) => host.identified = identified
  BY <1>4 DEF Host, HostStatus, Recorded, Ruled
<1> HIDE DEF host
<1>6. /\ written \in Host /\ written.status # "unseen"
      /\ added => written = Overruled(host)
      /\ ~added => written = host
  BY <1>5 DEF Host, HostStatus, Overruled
<1>7. added => host.identified /\ ~contested /\ scan[s].auto /\ host.status # "approved"
  BY DEF Onboards
<1>8. scan' = [scan EXCEPT ![s] = x]
  BY <1>3 DEF host
<1>9. refused \in BOOLEAN /\ sure \in BOOLEAN /\ added \in BOOLEAN
  OBVIOUS
<1> HIDE DEF refused, sure, added, written
<1>10. /\ x \in AScan /\ x.answered = scan[s].answered \cup {a} /\ x.sure = scan[s].sure \cup (IF sure THEN {a} ELSE {})
       /\ x.added = scan[s].added \cup (IF added THEN {a} ELSE {}) /\ x.wrote = [scan[s].wrote EXCEPT ![a] = written]
       /\ x.auto = scan[s].auto /\ x.todo = scan[s].todo \ {a}
  <2> HIDE DEF written, Host
  <2> QED BY <1>1, <1>4, <1>6, <1>9 DEF AScan, Noted
<1> HIDE DEF x
<1>11. \A t \in Scan \ {s} : scan[t].answered \cap x.answered = {}
  BY <1>3, <1>10 DEF Held, DiscoveryInv
<1>12. ASSUME NEW b \in Addr PROVE Careful(x, b)
  <2>1. Careful(scan[s], b)
    BY DEF DiscoveryInv
  <2>2. CASE b # a
    BY <1>2, <1>4, <1>10, <2>1, <2>2 DEF Careful, Warranted
  <2>3. CASE b = a
    <3>1. x.wrote[a] = written /\ a \in x.answered
      BY <1>2, <1>4, <1>10
    <3>2. Ruled(queue[a]) => \/ written = queue[a]
                              \/ (queue[a].status = "rejected" /\ added /\ written = Overruled(queue[a]))
      BY <1>5, <1>6, <1>7 DEF Ruled
    <3>3. added => Warranted(x, a)
      <4>1. ASSUME added, Ruled(queue[a]) PROVE queue[a].status = "rejected" /\ queue[a].identified
        BY <1>5, <1>7, <4>1 DEF Ruled
      <4>2. ASSUME added, ~Ruled(queue[a]) PROVE sure
        BY <1>5, <1>7, <4>2 DEF sure
      <4>3. sure => a \in x.sure
        BY <1>10
      <4> QED BY <1>7, <1>10, <4>1, <4>2, <4>3 DEF Warranted, Ruled
    <3>4. a \in x.added <=> added
      BY <1>3, <1>10, <2>1, <2>3 DEF Careful
    <3>5. a \notin x.todo
      BY <1>10
    <3> QED BY <1>6, <2>3, <3>1, <3>2, <3>3, <3>4, <3>5 DEF Careful
  <2> QED BY <2>2, <2>3
<1>13. queue' = queue
  BY DEF Answer
<1> QED BY <1>8, <1>10, <1>11, <1>12, <1>13, OneScans

LEMMA ScanIsCareful == \A s \in Scan : DiscoveryInv /\ (StartScan(s) \/ Silent(s) \/ EndScan(s) \/ UndoScan(s)) => DiscoveryInv'
<1> SUFFICES ASSUME NEW s \in Scan, DiscoveryInv PROVE StartScan(s) \/ Silent(s) \/ EndScan(s) \/ UndoScan(s) => DiscoveryInv'
  OBVIOUS
<1>1. scan \in [Scan -> AScan] /\ scan[s] \in AScan /\ queue \in [Addr -> Host]
  BY DEF DiscoveryInv
<1>2. ASSUME NEW x, x.answered = {}, x.added = {} PROVE \A a \in Addr : Careful(x, a)
  BY <1>2 DEF Careful
<1>3. ASSUME StartScan(s) PROVE DiscoveryInv'
  <2>1. PICK auto \in BOOLEAN : scan' = [scan EXCEPT ![s] = AsScanning(auto)]
    BY <1>3 DEF StartScan, AsScanning
  <2>2. AsScanning(auto) \in AScan /\ AsScanning(auto).answered = {} /\ AsScanning(auto).added = {}
    BY ScanFresh
  <2> QED BY <1>2, <1>3, <2>1, <2>2, OneScans DEF StartScan
<1>4. ASSUME UndoScan(s) PROVE DiscoveryInv'
  <2>1. NoScan \in AScan /\ NoScan.answered = {} /\ NoScan.added = {}
    BY ScanFresh
  <2> QED BY <1>2, <1>4, <2>1, OneScans DEF UndoScan
<1>5. ASSUME Silent(s) PROVE DiscoveryInv'
  <2>1. PICK a \in scan[s].todo : scan' = [scan EXCEPT ![s] = AsSilent(scan[s], a)]
    BY <1>1, <1>5 DEF Silent, AsSilent
  <2> DEFINE x == AsSilent(scan[s], a)
  <2>2. x \in AScan /\ x.answered = scan[s].answered /\ x.sure = scan[s].sure /\ x.added = scan[s].added /\ x.wrote = scan[s].wrote
        /\ x.auto = scan[s].auto /\ x.todo = scan[s].todo \ {a}
    BY <1>1, ScanSilent
  <2>3. \A b \in Addr : Careful(scan[s], b)
    BY DEF DiscoveryInv
  <2> HIDE DEF x
  <2>4. \A b \in Addr : Careful(x, b)
    BY <2>2, <2>3 DEF Careful, Warranted
  <2>5. \A t \in Scan \ {s} : scan[t].answered \cap x.answered = {}
    BY <2>2 DEF DiscoveryInv
  <2> QED BY <1>5, <2>1, <2>2, <2>4, <2>5, OneScans DEF Silent, x
<1>6. ASSUME EndScan(s) PROVE DiscoveryInv'
  <2>1. /\ queue' = [a \in Addr |-> IF a \in scan[s].answered THEN scan[s].wrote[a] ELSE queue[a]]
        /\ scan' = [scan EXCEPT ![s] = NoScan]
    BY <1>6 DEF EndScan
  <2>2. scan[s].wrote \in [Addr -> Host]
    BY <1>1 DEF AScan
  <2>3. queue' \in [Addr -> Host]
    BY <1>1, <2>1, <2>2
  <2>4. NoScan \in AScan /\ NoScan.answered = {} /\ NoScan.added = {}
    BY ScanFresh
  <2>5. scan' \in [Scan -> AScan] /\ scan'[s] = NoScan /\ \A t \in Scan \ {s} : scan'[t] = scan[t]
    BY <1>1, <2>1, <2>4
  <2>6. \A t, u \in Scan : t # u => scan'[t].answered \cap scan'[u].answered = {}
    BY <2>4, <2>5 DEF DiscoveryInv
  <2>7. ASSUME NEW t \in Scan, NEW a \in Addr PROVE Careful(scan[t], a)'
    <3>1. CASE t = s
      BY <2>4, <2>5, <3>1 DEF Careful
    <3>2. CASE t # s
      <4>1. Careful(scan[t], a) /\ (a \in scan[t].answered => a \notin scan[s].answered)
        BY <3>2 DEF DiscoveryInv
      <4>2. a \in scan[t].answered => queue'[a] = queue[a]
        BY <2>1, <4>1
      <4> QED BY <2>5, <3>2, <4>1, <4>2 DEF Careful, Warranted
    <3> QED BY <3>1, <3>2
  <2> QED BY <2>3, <2>5, <2>6, <2>7 DEF DiscoveryInv
<1> QED BY <1>3, <1>4, <1>5, <1>6

LEMMA ReviewIsCareful ==
    DiscoveryInv /\ ((\E p \in Reviewer : OpenHost(p) \/ Approve(p) \/ Reject(p) \/ GiveUp(p)) \/ CreateDevice \/ DeleteDevice)
    => DiscoveryInv'
<1> SUFFICES ASSUME DiscoveryInv,
                    (\E p \in Reviewer : OpenHost(p) \/ Approve(p) \/ Reject(p) \/ GiveUp(p)) \/ CreateDevice \/ DeleteDevice
             PROVE  DiscoveryInv'
  OBVIOUS
<1>1. scan' = scan
  BY DEF OpenHost, Approve, Reject, GiveUp, CreateDevice, DeleteDevice, Acts, Done
<1>2. CASE queue' = queue
  BY <1>1, <1>2, PeopleScan DEF DiscoveryInv
<1>3. CASE queue' # queue
  <2>1. PICK p \in Reviewer : Approve(p) \/ Reject(p)
    BY <1>3 DEF OpenHost, GiveUp, CreateDevice, DeleteDevice
  <2> DEFINE a == review[p].addr
  <2>2. ~Held(a, Nowhere) /\ \E status \in HostStatus : queue' = [queue EXCEPT ![a].status = status]
    BY <2>1 DEF Approve, Reject, HostStatus
  <2>3. PICK status \in HostStatus : queue' = [queue EXCEPT ![a].status = status]
    BY <2>2
  <2>4. \A s \in Scan : a \notin scan[s].answered
    BY <2>2, DiscoveryAssumption DEF Held
  <2> HIDE DEF a
  <2>5. queue \in [Addr -> Host] /\ \A b \in Addr : b # a => queue'[b] = queue[b]
    BY <2>3 DEF DiscoveryInv
  <2>6. \A h \in Host : [h EXCEPT !.status = status] \in Host
    BY DEF Host
  <2>7. queue' \in [Addr -> Host]
    <3> HIDE DEF Host
    <3>1. CASE a \in Addr
      BY <2>3, <2>5, <2>6, <3>1
    <3>2. CASE a \notin Addr
      BY <2>3, <2>5, <3>2
    <3> QED BY <3>1, <3>2
  <2> QED BY <1>1, <2>4, <2>5, <2>7, PeopleScan
<1> QED BY <1>2, <1>3

\* What runs of discovery hold and will write is an inductive invariant.
THEOREM DiscoveryInductive == DiscoverySpec => []DiscoveryInv
<1>1. DiscoveryInit => DiscoveryInv
  <2> SUFFICES ASSUME DiscoveryInit PROVE DiscoveryInv
    OBVIOUS
  <2>1. Unseen \in Host
    BY DEF Unseen, Host, HostStatus
  <2>2. queue \in [Addr -> Host] /\ scan = [s \in Scan |-> NoScan]
    BY <2>1 DEF DiscoveryInit
  <2>3. \A s \in Scan : scan[s] \in AScan /\ scan[s].answered = {} /\ scan[s].added = {}
    BY <2>2, ScanFresh
  <2>4. scan \in [Scan -> AScan]
    BY <2>2, <2>3
  <2> QED BY <2>2, <2>3, <2>4 DEF DiscoveryInv, Careful
<1>2. DiscoveryInv /\ [DiscoveryNext]_discoveryVars => DiscoveryInv'
  <2> SUFFICES ASSUME DiscoveryInv, [DiscoveryNext]_discoveryVars PROVE DiscoveryInv'
    OBVIOUS
  <2>1. CASE UNCHANGED discoveryVars
    BY <2>1 DEF discoveryVars, DiscoveryInv, Careful, Warranted
  <2>2. CASE DiscoveryNext
    BY <2>2, AnswerIsCareful, ScanIsCareful, ReviewIsCareful DEF DiscoveryNext
  <2> QED BY <2>1, <2>2
<1> QED BY <1>1, <1>2, PTL DEF DiscoverySpec

\* Whatever runs, reviews and the inventory's own changes interleave, a run of
\* discovery leaves every ruling as it was, but that in a scope with opt-in it may
\* make a device of a rejected host whose identity is on record; every other host
\* it onboards is one nobody ruled on and the run is sure of.
THEOREM RulingsAlwaysKept == DiscoverySpec => RulingsAreKept
<1> DEFINE Sure(s, a) == EndScan(s) /\ a \in devices' \ devices =>
                            /\ scan[s].auto
                            /\ IF queue[a].status = "rejected" THEN queue[a].identified
                               ELSE queue[a].status # "approved" /\ a \in scan[s].sure
           Stand(s, a) == EndScan(s) =>
                             /\ queue[a].status \in {"approved", "rejected"} =>
                                  \/ queue'[a] = queue[a]
                                  \/ /\ queue[a].status = "rejected" /\ scan[s].auto /\ a \in devices'
                                     /\ queue'[a] = Overruled(queue[a])
                             /\ a \in scan[s].answered => queue'[a].status # "unseen"
<1>1. ASSUME DiscoveryInv, NEW s \in Scan, NEW a \in Addr, EndScan(s) PROVE Sure(s, a) /\ Stand(s, a)
  <2>1. Careful(scan[s], a)
    BY <1>1 DEF DiscoveryInv
  <2>2. devices' = devices \cup scan[s].added
    BY <1>1 DEF EndScan
  <2>3. queue'[a] = IF a \in scan[s].answered THEN scan[s].wrote[a] ELSE queue[a]
    BY <1>1 DEF EndScan
  <2>4. Sure(s, a)
    BY <2>1, <2>2 DEF Careful, Warranted
  <2>5. Stand(s, a)
    BY <2>1, <2>2, <2>3 DEF Careful, Warranted, Ruled
  <2> QED BY <2>4, <2>5
<1>2. ASSUME DiscoveryInv
      PROVE  (\A s \in Scan, a \in Addr : Sure(s, a)) /\ (\A s \in Scan, a \in Addr : Stand(s, a))
  BY <1>1, <1>2
<1>3. ASSUME DiscoveryInv
      PROVE  [\A s \in Scan, a \in Addr : Sure(s, a)]_discoveryVars /\ [\A s \in Scan, a \in Addr : Stand(s, a)]_discoveryVars
  BY <1>2, <1>3
<1> QED BY <1>3, DiscoveryInductive, PTL DEF RulingsAreKept, OnboardedWhenSure, RulingsStand
-----------------------------------------------------------------------------
(* Policies *)

ASwitch == [at : {"rest", "got", "read"}, policy : Policy \cup {NoPolicy}, was : BOOLEAN, others : SUBSET Policy, alone : BOOLEAN]

\* Where an exception holds says whom it is for.
Scoped(x) ==
    \/ x.scope = "device" /\ x.for \in Unit
    \/ x.scope = "group" /\ x.for \in Team
    \/ x.scope = "global" /\ x.for = NoPolicy

PolicyTypeOK ==
    /\ isDefault \subseteq Policy /\ assigned \in Seq(Policy \X Team) /\ teams \in [Unit -> SUBSET Team]
    /\ \A x \in exceptions : Scoped(x)
    /\ switch \in [Request -> ASwitch] /\ open \in [Unit -> SUBSET Rule]

\* What a request that nothing overlapped has read is still so.
Informed(q) ==
    /\ Switching(q) => switch[q].policy \in Policy
    /\ switch[q].alone /\ Switching(q) =>
        /\ switch[q].was <=> switch[q].policy \in isDefault
        /\ switch[q].at = "read" => switch[q].others = isDefault \ {switch[q].policy}
        /\ \A o \in Request \ {q} : ~Switching(o)

Single == ~overlapped => isDefault = {} \/ \E p \in Policy : isDefault = {p}

PolicyInv == PolicyTypeOK /\ Single /\ \A q \in Request : Informed(q)

\* Steps that touch neither the marks nor the requests for them.
LEMMA MarksKept ==
    ASSUME PolicyInv, UNCHANGED <<isDefault, switch, overlapped>>, PolicyTypeOK'
    PROVE  PolicyInv'
BY DEF PolicyInv, Single, Informed, Switching

LEMMA PoliciesKeep ==
    ASSUME PolicyInv,
           \/ \E p \in Policy : \/ \E rules \in SUBSET Rule : CreatePolicy(p, rules)
                                \/ \E r \in Rule, mode \in {"on", "off"} : SetCheck(p, r, mode)
                                \/ \E t \in Team : Assign(p, t)
           \/ \E u \in Unit : \E groups \in SUBSET Team : SetGroups(u, groups)
           \/ \E r \in Rule : AuthorCheck(r)
           \/ \E library \in SUBSET Rule : Upgrade(library)
    PROVE  PolicyInv'
<1>1. /\ isDefault \subseteq Policy /\ assigned \in Seq(Policy \X Team) /\ teams \in [Unit -> SUBSET Team]
      /\ switch \in [Request -> ASwitch] /\ open \in [Unit -> SUBSET Rule]
      /\ \A x \in exceptions : Scoped(x)
  BY DEF PolicyInv, PolicyTypeOK
<1>2. UNCHANGED <<isDefault, switch, overlapped, exceptions, open>>
  BY DEF CreatePolicy, SetCheck, Assign, SetGroups, AuthorCheck, Upgrade
<1>3. assigned' = assigned \/ \E p \in Policy, t \in Team : assigned' = Append(assigned, <<p, t>>)
  BY DEF CreatePolicy, SetCheck, Assign, SetGroups, AuthorCheck, Upgrade
<1>4. assigned' \in Seq(Policy \X Team)
  <2>1. \A p \in Policy, t \in Team : <<p, t>> \in Policy \X Team
    OBVIOUS
  <2> DEFINE Pairs == Policy \X Team
  <2>2. \A e \in Pairs : Append(assigned, e) \in Seq(Pairs)
    <3> HIDE DEF Pairs
    <3> QED BY <1>1 DEF Pairs
  <2> QED BY <1>1, <1>3, <2>1, <2>2
<1>5. teams' = teams \/ \E u \in Unit : \E groups \in SUBSET Team : teams' = [teams EXCEPT ![u] = groups]
  BY DEF CreatePolicy, SetCheck, Assign, SetGroups, AuthorCheck, Upgrade
<1>6. teams' \in [Unit -> SUBSET Team]
  BY <1>1, <1>5
<1>7. PolicyTypeOK'
  BY <1>1, <1>2, <1>4, <1>6 DEF PolicyTypeOK, Scoped
<1> QED BY <1>2, <1>7, MarksKept

LEMMA GrantsKeep ==
    ASSUME PolicyInv,
           \/ \E r \in Rule : \/ GrantException(r, "global", NoPolicy)
                              \/ \E u \in Unit : GrantException(r, "device", u)
                              \/ \E t \in Team : GrantException(r, "group", t)
           \/ \E x \in exceptions : EndGrant(x)
    PROVE  PolicyInv'
<1>1. UNCHANGED <<isDefault, switch, overlapped, assigned, teams, open>>
  BY DEF GrantException, EndGrant
<1>2. ASSUME NEW x \in exceptions' PROVE Scoped(x)
  <2>1. CASE x \in exceptions
    BY <2>1 DEF PolicyInv, PolicyTypeOK
  <2>2. CASE x \notin exceptions
    <3>1. PICK r \in Rule, scope \in {"global", "device", "group"}, for \in {NoPolicy} \cup Unit \cup Team :
             /\ exceptions' = exceptions \cup {[rule |-> r, scope |-> scope, for |-> for]}
             /\ scope = "global" => for = NoPolicy
             /\ scope = "device" => for \in Unit
             /\ scope = "group" => for \in Team
      BY <2>2 DEF GrantException, EndGrant
    <3>2. x = [rule |-> r, scope |-> scope, for |-> for]
      BY <2>2, <3>1
    <3> QED BY <3>1, <3>2 DEF Scoped
  <2> QED BY <2>1, <2>2
<1>3. (\A x \in exceptions : Scoped(x))'
  BY <1>2 DEF Scoped
<1>4. PolicyTypeOK'
  BY <1>1, <1>3 DEF PolicyInv, PolicyTypeOK
<1> QED BY <1>1, <1>4, MarksKept

LEMMA JudgeKeeps ==
    ASSUME PolicyInv, NEW u \in Unit, NEW bad \in SUBSET Rule, NEW good \in SUBSET Rule, Judge(u, bad, good)
    PROVE  PolicyInv'
<1>1. UNCHANGED <<isDefault, switch, overlapped, assigned, teams, exceptions>>
  BY DEF Judge
<1>2. open' \in [Unit -> SUBSET Rule]
  <2> DEFINE run == Selected(PolicyOf(u))
             now == (open[u] \ (run \cap good)) \cup ((run \cap bad) \ InForce(u))
  <2>1. open' = [open EXCEPT ![u] = now] /\ open \in [Unit -> SUBSET Rule]
    BY DEF Judge, PolicyInv, PolicyTypeOK
  <2>2. now \subseteq Rule
    BY <2>1
  <2> HIDE DEF now
  <2> QED BY <2>1, <2>2
<1>3. PolicyTypeOK'
  BY <1>1, <1>2 DEF PolicyInv, PolicyTypeOK, Scoped
<1> QED BY <1>1, <1>3, MarksKept

AsRushed(x) == [x EXCEPT !.alone = FALSE]
AsRead(x, others) == [x EXCEPT !.at = "read", !.others = others]

LEMMA SwitchRecords ==
    /\ NoSwitch \in ASwitch /\ NoSwitch.at = "rest"
    /\ \A x \in ASwitch : AsRushed(x) \in ASwitch /\ AsRushed(x).at = x.at /\ AsRushed(x).policy = x.policy /\ ~AsRushed(x).alone
    /\ \A x \in ASwitch, others \in SUBSET Policy :
          /\ AsRead(x, others) \in ASwitch /\ AsRead(x, others).at = "read" /\ AsRead(x, others).policy = x.policy
          /\ AsRead(x, others).was = x.was /\ AsRead(x, others).others = others /\ AsRead(x, others).alone = x.alone
<1>1. NoSwitch \in ASwitch /\ NoSwitch.at = "rest"
  BY DEF NoSwitch, ASwitch
<1>2. \A x \in ASwitch : AsRushed(x) \in ASwitch /\ AsRushed(x).at = x.at /\ AsRushed(x).policy = x.policy /\ ~AsRushed(x).alone
  BY DEF AsRushed, ASwitch
<1>3. ASSUME NEW x \in ASwitch, NEW others \in SUBSET Policy
      PROVE  /\ AsRead(x, others) \in ASwitch /\ AsRead(x, others).at = "read" /\ AsRead(x, others).policy = x.policy
             /\ AsRead(x, others).was = x.was /\ AsRead(x, others).others = others /\ AsRead(x, others).alone = x.alone
  BY <1>3 DEF AsRead, ASwitch
<1> QED BY <1>1, <1>2, <1>3

LEMMA RequestsKeep ==
    ASSUME PolicyInv, NEW q \in Request, (\E p \in Policy : GetPolicy(q, p)) \/ ReadDefaults(q) \/ Switch(q)
    PROVE  PolicyInv'
<1>1. PolicyTypeOK /\ switch \in [Request -> ASwitch] /\ switch[q] \in ASwitch /\ Single /\ isDefault \subseteq Policy
  BY DEF PolicyInv, PolicyTypeOK
<1>2. UNCHANGED <<listed, assigned, teams, exceptions, open>>
  BY DEF GetPolicy, ReadDefaults, Switch
<1>3. ASSUME NEW p \in Policy, GetPolicy(q, p) PROVE PolicyInv'
  <2> DEFINE x == [at |-> "got", policy |-> p, was |-> p \in isDefault, others |-> {}, alone |-> \A o \in Request : ~Switching(o)]
  <2>1. switch' = [o \in Request |-> IF o # q THEN IF Switching(o) THEN AsRushed(switch[o]) ELSE NoSwitch ELSE x]
    BY <1>3 DEF GetPolicy, AsRushed
  <2>2. x \in ASwitch
    BY DEF ASwitch
  <2>3. /\ x.at = "got" /\ x.policy = p /\ (x.was <=> p \in isDefault) /\ (x.alone <=> \A o \in Request : ~Switching(o))
    OBVIOUS
  <2> HIDE DEF x
  <2>4. \A o \in Request \ {q} : switch'[o] \in ASwitch /\ (switch'[o].at # "rest" <=> Switching(o)) /\ (switch'[o].at # "rest" => ~switch'[o].alone)
    BY <1>1, <2>1, SwitchRecords DEF Switching
  <2>9. \A o \in Request \ {q} : Switching(o) => switch'[o].policy = switch[o].policy /\ switch[o].policy \in Policy
    BY <1>1, <2>1, SwitchRecords DEF PolicyInv, Informed
  <2>5. switch'[q] = x
    BY <2>1
  <2>6. switch' \in [Request -> ASwitch]
    BY <2>1, <2>2, <2>4, <2>5
  <2>7. UNCHANGED <<isDefault, overlapped>>
    BY <1>3 DEF GetPolicy
  <2>8. \A o \in Request : Informed(o)'
    BY <2>3, <2>4, <2>5, <2>7, <2>9 DEF Informed, Switching
  <2> QED BY <1>1, <1>2, <2>6, <2>7, <2>8 DEF PolicyInv, PolicyTypeOK, Single, Scoped
<1>4. ASSUME ReadDefaults(q) PROVE PolicyInv'
  <2> DEFINE x == AsRead(switch[q], isDefault \ {switch[q].policy})
  <2>1. switch' = [switch EXCEPT ![q] = x]
    BY <1>1, <1>4 DEF ReadDefaults, AsRead
  <2>2. /\ x \in ASwitch /\ x.at = "read" /\ x.policy = switch[q].policy /\ x.was = switch[q].was
        /\ x.others = isDefault \ {switch[q].policy} /\ x.alone = switch[q].alone
    BY <1>1, SwitchRecords
  <2> HIDE DEF x
  <2>3. switch' \in [Request -> ASwitch] /\ switch'[q] = x /\ \A o \in Request \ {q} : switch'[o] = switch[o]
    BY <1>1, <2>1, <2>2
  <2>4. UNCHANGED <<isDefault, overlapped>> /\ Switching(q)
    BY <1>4 DEF ReadDefaults, Switching
  <2>5. \A o \in Request : Informed(o)
    BY DEF PolicyInv
  <2>6. \A o \in Request : Informed(o)'
    BY <2>2, <2>3, <2>4, <2>5 DEF Informed, Switching
  <2> QED BY <1>1, <1>2, <2>3, <2>4, <2>6 DEF PolicyInv, PolicyTypeOK, Single, Scoped
<1>5. ASSUME Switch(q) PROVE PolicyInv'
  <2>1. /\ switch[q].at = "read" /\ switch' = [switch EXCEPT ![q] = NoSwitch] /\ overlapped' = ~switch[q].alone
        /\ isDefault' = (isDefault \ switch[q].others) \cup (IF switch[q].was THEN {} ELSE {switch[q].policy})
    BY <1>5 DEF Switch
  <2>2. Informed(q) /\ Switching(q)
    BY <2>1 DEF PolicyInv, Switching
  <2>3. switch[q].alone => isDefault' = {switch[q].policy}
    BY <1>1, <2>1, <2>2 DEF Informed
  <2>4. switch[q].policy \in Policy
    BY <2>2 DEF Informed
  <2>5. switch' \in [Request -> ASwitch] /\ switch'[q] = NoSwitch /\ \A o \in Request \ {q} : switch'[o] = switch[o]
    BY <1>1, <2>1, SwitchRecords
  <2>6. \A o \in Request : Informed(o)'
    <3> SUFFICES ASSUME NEW o \in Request PROVE Informed(o)'
      OBVIOUS
    <3>1. CASE o = q
      BY <2>5, <3>1, SwitchRecords DEF Informed, Switching
    <3>2. CASE o # q
      <4>1. Informed(o)
        BY DEF PolicyInv
      <4>2. switch'[o] = switch[o] /\ ~(switch[o].alone /\ Switching(o))
        BY <2>2, <2>5, <3>2, <4>1 DEF Informed
      <4> QED BY <4>1, <4>2 DEF Informed, Switching
    <3> QED BY <3>1, <3>2
  <2>7. isDefault' \subseteq Policy
    BY <1>1, <2>1, <2>4
  <2>8. Single'
    BY <2>1, <2>3, <2>4 DEF Single
  <2> QED BY <1>1, <1>2, <2>5, <2>6, <2>7, <2>8 DEF PolicyInv, PolicyTypeOK, Scoped
<1> QED BY <1>3, <1>4, <1>5

\* The marks and requests for them are an inductive invariant.
THEOREM PolicyInductive == PolicySpec => []PolicyInv
<1>1. PolicyInit => PolicyInv
  <2> SUFFICES ASSUME PolicyInit PROVE PolicyInv
    OBVIOUS
  <2>1. switch = [q \in Request |-> NoSwitch] /\ NoSwitch \in ASwitch /\ NoSwitch.at = "rest"
    BY SwitchRecords DEF PolicyInit
  <2>2. \A q \in Request : switch[q].at = "rest"
    BY <2>1
  <2>3. switch \in [Request -> ASwitch]
    BY <2>1
  <2>4. PolicyTypeOK
    BY <2>3 DEF PolicyInit, PolicyTypeOK
  <2> QED BY <2>2, <2>4 DEF PolicyInit, PolicyInv, Single, Informed, Switching
<1>2. PolicyInv /\ [PolicyNext]_policyVars => PolicyInv'
  <2> SUFFICES ASSUME PolicyInv, [PolicyNext]_policyVars PROVE PolicyInv'
    OBVIOUS
  <2>1. CASE UNCHANGED policyVars
    BY <2>1 DEF policyVars, PolicyInv, PolicyTypeOK, Scoped, Single, Informed, Switching
  <2>2. ASSUME NEW u \in Unit, NEW bad \in SUBSET Rule, NEW good \in SUBSET (Rule \ bad), Judge(u, bad, good) PROVE PolicyInv'
    BY <2>2, JudgeKeeps
  <2>3. CASE PolicyNext
    BY <2>2, <2>3, PoliciesKeep, GrantsKeep, RequestsKeep DEF PolicyNext
  <2> QED BY <2>1, <2>3
<1> QED BY <1>1, <1>2, PTL DEF PolicySpec

\* At most one default leaves every device with an answer.
LEMMA SingleIsOne == PolicyInv => OneDefault
<1> SUFFICES ASSUME PolicyInv, ~overlapped PROVE Cardinality(isDefault) <= 1
  BY DEF OneDefault, Answerable
<1>1. isDefault = {} \/ \E p \in Policy : isDefault = {p}
  BY DEF PolicyInv, Single
<1>2. CASE isDefault = {}
  BY <1>2, FS_EmptySet
<1>3. CASE \E p \in Policy : isDefault = {p}
  BY <1>3, FS_Singleton
<1> QED BY <1>1, <1>2, <1>3

\* The policy that answers for a device governs it; without one nothing does.
LEMMA AnswerGoverns ==
    ASSUME PolicyInv, NEW u \in Unit
    PROVE  /\ PolicyOf(u) \in Policy \cup {NoPolicy}
           /\ PolicyOf(u) # NoPolicy => Governs(u, PolicyOf(u))
           /\ PolicyOf(u) = NoPolicy => \A p \in Policy : ~Governs(u, p)
<1>1. assigned \in Seq(Policy \X Team) /\ teams[u] \subseteq Team /\ isDefault \subseteq Policy
  BY DEF PolicyInv, PolicyTypeOK
<1>2. Len(assigned) \in Nat /\ DOMAIN assigned = 1 .. Len(assigned)
  BY <1>1
<1>3. \A i \in DOMAIN assigned : assigned[i][1] \in Policy /\ assigned[i][2] \in Team /\ assigned[i] = <<assigned[i][1], assigned[i][2]>>
  <2> SUFFICES ASSUME NEW i \in DOMAIN assigned PROVE assigned[i][1] \in Policy /\ assigned[i][2] \in Team /\ assigned[i] = <<assigned[i][1], assigned[i][2]>>
    OBVIOUS
  <2>1. assigned[i] \in Policy \X Team
    BY <1>1
  <2> QED BY <2>1
<1>4. CASE Assigned(u) # {}
  <2> DEFINE i == Max(Assigned(u))
  <2>1. Assigned(u) \subseteq 0 .. Len(assigned)
    BY <1>2 DEF Assigned
  <2>2. i \in Assigned(u)
    BY <1>2, <1>4, <2>1, Greatest
  <2>3. i \in DOMAIN assigned /\ assigned[i][2] \in teams[u]
    BY <2>2 DEF Assigned
  <2>4. PolicyOf(u) = assigned[i][1]
    BY <1>4 DEF PolicyOf
  <2> HIDE DEF i
  <2>5. PolicyOf(u) \in Policy /\ assigned[i] = <<PolicyOf(u), assigned[i][2]>>
    BY <1>3, <2>3, <2>4
  <2>6. Contains(assigned, <<PolicyOf(u), assigned[i][2]>>)
    BY <1>2, <2>3, <2>5 DEF Contains
  <2> QED BY <2>3, <2>5, <2>6, PolicyAssumption DEF Governs
<1>5. CASE Assigned(u) = {}
  <2>1. ASSUME NEW t \in teams[u], NEW o \in Policy, Contains(assigned, <<o, t>>) PROVE FALSE
    <3>1. PICK i \in 1 .. Len(assigned) : assigned[i] = <<o, t>>
      BY <2>1 DEF Contains
    <3>2. i \in Assigned(u)
      BY <1>2, <3>1 DEF Assigned
    <3> QED BY <1>5, <3>2
  <2>2. CASE isDefault # {}
    <3>1. PolicyOf(u) \in isDefault
      BY <1>5, <2>2 DEF PolicyOf
    <3> QED BY <1>1, <2>1, <3>1, PolicyAssumption DEF Governs
  <2>3. CASE isDefault = {}
    <3>1. PolicyOf(u) = NoPolicy
      BY <1>5, <2>3 DEF PolicyOf
    <3> QED BY <2>1, <2>3, <3>1 DEF Governs
  <2> QED BY <2>2, <2>3
<1> QED BY <1>4, <1>5

\* Exceptions in force for a device are those that excuse it.
LEMMA ForceExcuses ==
    ASSUME PolicyInv, NEW u \in Unit, NEW r
    PROVE  r \in InForce(u) <=> Excused(u, r)
<1>1. \A x \in exceptions : Scoped(x)
  BY DEF PolicyInv, PolicyTypeOK
<1>2. teams[u] \subseteq Team
  BY DEF PolicyInv, PolicyTypeOK
<1>3. r \in InForce(u) <=> \E x \in exceptions : x.rule = r /\ (x.scope = "device" => x.for = u) /\ (x.scope = "group" => x.for \in teams[u])
  BY DEF InForce
<1>4. \A x \in exceptions : (x.scope = "device" => x.for = u) /\ (x.scope = "group" => x.for \in teams[u])
                            <=> x.for = u \/ x.for = NoPolicy \/ x.for \in teams[u]
  BY <1>1, <1>2, PolicyAssumption DEF Scoped
<1> QED BY <1>3, <1>4 DEF Excused

\* A device's assessment decides what its policy has on, and nothing else.
LEMMA JudgeDecides ==
    ASSUME PolicyInv, NEW u \in Unit, NEW bad, NEW good, Judge(u, bad, good)
    PROVE  /\ \A v \in Unit : \A r : (r \in open[v]) # (r \in open'[v]) => MayBeJudged(v, r)
           /\ \A v \in Unit : \A r : r \in open'[v] \ open[v] => ~Excused(v, r)
           /\ \A r \in bad : MustBeJudged(u, r) /\ ~Excused(u, r) => r \in open'[u]
<1> DEFINE run == Selected(PolicyOf(u))
           now == (open[u] \ (run \cap good)) \cup ((run \cap bad) \ InForce(u))
<1>1. open' = [open EXCEPT ![u] = now] /\ open \in [Unit -> SUBSET Rule]
  BY DEF Judge, PolicyInv, PolicyTypeOK
<1>2. open'[u] = now /\ \A v \in Unit \ {u} : open'[v] = open[v]
  BY <1>1
<1>3. ASSUME NEW r \in run PROVE MayBeJudged(u, r)
  <2>1. CASE PolicyOf(u) = NoPolicy
    BY <1>3, <2>1, AnswerGoverns DEF Selected, MayBeJudged
  <2>2. CASE PolicyOf(u) # NoPolicy
    BY <1>3, <2>2, AnswerGoverns DEF Selected, MayBeJudged
  <2> QED BY <2>1, <2>2
<1>4. ASSUME NEW r, MustBeJudged(u, r) PROVE r \in run
  <2>1. CASE PolicyOf(u) = NoPolicy
    BY <1>4, <2>1, AnswerGoverns DEF Selected, MayBeJudged, MustBeJudged
  <2>2. CASE PolicyOf(u) # NoPolicy
    BY <1>4, <2>2, AnswerGoverns DEF Selected, MayBeJudged, MustBeJudged
  <2> QED BY <2>1, <2>2
<1>5. \A r : r \in InForce(u) <=> Excused(u, r)
  BY ForceExcuses
<1> HIDE DEF run
<1>6. ASSUME NEW v \in Unit, NEW r, (r \in open[v]) # (r \in open'[v]) PROVE MayBeJudged(v, r)
  BY <1>2, <1>3, <1>6
<1>7. ASSUME NEW v \in Unit, NEW r, r \in open'[v] \ open[v] PROVE ~Excused(v, r)
  BY <1>2, <1>5, <1>7
<1>8. ASSUME NEW r \in bad, MustBeJudged(u, r) /\ ~Excused(u, r) PROVE r \in open'[u]
  BY <1>2, <1>4, <1>5, <1>8
<1> QED BY <1>6, <1>7, <1>8

\* Requests for the default that do not overlap leave theirs and no other; an
\* assessment opens and closes only what a policy governing the device has on at
\* that moment, opens nothing excused, and leaves no failure of it unseen.
THEOREM PoliciesGovernAlways == PolicySpec => PoliciesGovern
<1>1. ASSUME PolicyInv, PolicyInv', PolicyNext PROVE PolicyStep
  <2>1. OneDefault'
    <3>1. (PolicyInv => OneDefault)'
      BY SingleIsOne, PTL
    <3> QED BY <1>1, <3>1
  <2>2. DefaultIsMade
    <3> SUFFICES ASSUME NEW q \in Request, Switch(q), switch[q].alone PROVE isDefault' = {switch[q].policy}
      BY DEF DefaultIsMade
    <3>1. Informed(q) /\ Switching(q) /\ isDefault \subseteq Policy
      BY <1>1 DEF PolicyInv, PolicyTypeOK, Switch, Switching
    <3> QED BY <3>1 DEF Informed, Switch
  <2>3. ASSUME NEW u \in Unit, NEW bad, NEW good, Judge(u, bad, good) PROVE OnlyDecided
    BY <1>1, <2>3, JudgeDecides DEF OnlyDecided
  <2>4. ASSUME ~\E u \in Unit : \E bad \in SUBSET Rule : \E good \in SUBSET (Rule \ bad) : Judge(u, bad, good) PROVE OnlyDecided
    <3>1. open' = open
      BY <1>1, <2>4 DEF PolicyNext, CreatePolicy, SetCheck, Assign, GetPolicy, ReadDefaults, Switch, SetGroups,
                        AuthorCheck, GrantException, Upgrade, EndGrant
    <3> QED BY <3>1 DEF OnlyDecided
  <2>5. OnlyDecided
    BY <2>3, <2>4
  <2>6. NothingUnseen
    BY <1>1, JudgeDecides DEF NothingUnseen
  <2> QED BY <2>1, <2>2, <2>5, <2>6 DEF PolicyStep
<1>2. ASSUME PolicyInv, PolicyInv', [PolicyNext]_policyVars PROVE [part = "policies" => PolicyStep]_policyVars
  BY <1>1, <1>2
<1> QED BY <1>2, PolicyInductive, PTL DEF PolicySpec, PoliciesGovern
-----------------------------------------------------------------------------
(* Devices derived from others *)

ARow == [kind : {"other", "ap"}, name : Name \cup {NoValue}, serial : Serial \cup {NoValue}, status : Statuses,
         parent : Controller \cup Manager \cup {NoValue}, admitted : BOOLEAN, steady : BOOLEAN]

\* A steady row is as the last list of its controller left it; one in assessment was admitted.
VouchedBy(lists, x) ==
    /\ x \in ARow
    /\ x.steady => x.parent \in Controller /\ (x.status # "archived" <=> x.name \in lists[x.parent])
    /\ x.status = "active" => x.admitted

Vouched(x) == VouchedBy(last, x)

DerivedInv ==
    /\ last \in [Controller -> SUBSET Name]
    /\ \A a \in DOMAIN table : Vouched(table[a])
    /\ \A x \in job.targets : x.admitted \/ (job.archivedToo /\ x.status = "archived")

LEMMA VouchedIs == DerivedInv => DerivedDevicesAreTrue
BY DEF DerivedInv, Vouched, VouchedBy, DerivedDevicesAreTrue, ListsAreFollowed, NobodyIsTargetedUninvited

\* Steps that leave the lists: every row afterwards is vouched for.
LEMMA ListsKept ==
    ASSUME DerivedInv, UNCHANGED <<last, job>>, \A a \in DOMAIN table' : Vouched(table'[a])
    PROVE  DerivedInv'
BY DEF DerivedInv, Vouched, VouchedBy

\* A row nobody's list has seen yet.
LEMMA FreshRow ==
    ASSUME NEW x \in ARow, ~x.steady, x.status = "active" => x.admitted
    PROVE  Vouched(x)
BY DEF Vouched, VouchedBy

AsReported(serial, m) == [Blank EXCEPT !.serial = serial, !.parent = m, !.status = "pending_review"]
AsAdded(serial) == [Blank EXCEPT !.serial = serial, !.admitted = TRUE]
AsPoint(n, c) == [Blank EXCEPT !.kind = "ap", !.name = n, !.status = "inventory_only", !.parent = c, !.steady = TRUE]
AsAdopted(x, m, serial) == [x EXCEPT !.parent = m, !.steady = FALSE, !.serial = serial]
AsApproved(x) == [x EXCEPT !.status = "active", !.admitted = TRUE]
AsSet(x, status) == [x EXCEPT !.status = status, !.steady = FALSE, !.admitted = @ \/ status = "active"]
AsOrphan(x) == [x EXCEPT !.parent = NoValue, !.steady = FALSE]

LEMMA NewRows ==
    ASSUME NEW serial \in Serial \cup {NoValue}
    PROVE  /\ \A m \in Manager : Vouched(AsReported(serial, m))
           /\ Vouched(AsAdded(serial))
<1>1. Blank \in ARow
  BY DEF Blank, ARow, Statuses
<1>2. Blank.status = "active" /\ ~Blank.steady /\ ~Blank.admitted
  BY DEF Blank
<1>3. ASSUME NEW m \in Manager PROVE AsReported(serial, m) \in ARow /\ ~AsReported(serial, m).steady /\ AsReported(serial, m).status = "pending_review"
  BY <1>1, <1>2 DEF AsReported, ARow, Statuses
<1>4. AsAdded(serial) \in ARow /\ ~AsAdded(serial).steady /\ AsAdded(serial).admitted
  BY <1>1, <1>2 DEF AsAdded, ARow
<1>5. \A m \in Manager : Vouched(AsReported(serial, m))
  BY <1>3, FreshRow
<1> QED BY <1>4, <1>5, FreshRow

LEMMA PointIs ==
    ASSUME NEW n \in Name, NEW c \in Controller
    PROVE  LET y == AsPoint(n, c) IN
           y \in ARow /\ y.steady /\ y.status = "inventory_only" /\ y.name = n /\ y.parent = c
<1>1. Blank \in ARow
  BY DEF Blank, ARow, Statuses
<1> QED BY <1>1 DEF AsPoint, ARow, Statuses

LEMMA RowAdopted ==
    ASSUME NEW x \in ARow, NEW m \in Manager, NEW serial \in Serial \cup {NoValue}
    PROVE  LET y == AsAdopted(x, m, serial) IN y \in ARow /\ ~y.steady /\ y.status = x.status /\ y.admitted = x.admitted
<1> HIDE DEF Statuses
<1> QED BY DEF AsAdopted, ARow

LEMMA RowSet ==
    ASSUME NEW x \in ARow, NEW status \in Statuses
    PROVE  LET y == AsSet(x, status) IN y \in ARow /\ ~y.steady /\ y.status = status /\ (status = "active" => y.admitted)
<1> HIDE DEF Statuses
<1> QED BY DEF AsSet, ARow

LEMMA RowRulings ==
    ASSUME NEW x \in ARow
    PROVE  /\ AsApproved(x) \in ARow /\ AsApproved(x).steady = x.steady /\ AsApproved(x).status = "active" /\ AsApproved(x).admitted
           /\ AsApproved(x).parent = x.parent /\ AsApproved(x).name = x.name
           /\ AsOrphan(x) \in ARow /\ ~AsOrphan(x).steady /\ AsOrphan(x).status = x.status /\ AsOrphan(x).admitted = x.admitted
<1>1. /\ AsApproved(x) \in ARow /\ AsApproved(x).steady = x.steady /\ AsApproved(x).status = "active" /\ AsApproved(x).admitted
      /\ AsApproved(x).parent = x.parent /\ AsApproved(x).name = x.name
  BY DEF AsApproved, ARow, Statuses
<1>2. AsOrphan(x) \in ARow /\ ~AsOrphan(x).steady /\ AsOrphan(x).status = x.status /\ AsOrphan(x).admitted = x.admitted
  <2> HIDE DEF Statuses
  <2> QED BY DEF AsOrphan, ARow
<1> QED BY <1>1, <1>2

\* What a list makes of a row.
LEMMA RowFollowed ==
    ASSUME NEW x \in ARow, NEW said, NEW c \in Controller
    PROVE  LET y == Followed(x, said, c) IN
           /\ y \in ARow /\ y.name = x.name /\ y.admitted = x.admitted
           /\ x.name \in DOMAIN said => y.parent = c /\ y.steady /\ y.status # "archived"
           /\ x.name \notin DOMAIN said /\ x.parent = c => y.parent = c /\ y.steady /\ y.status = "archived"
           /\ x.name \notin DOMAIN said /\ x.parent # c => y = x
           /\ y.status = "active" => x.status = "active"
BY DEF Followed, ARow, Statuses

LEMMA RowPassed ==
    ASSUME NEW x \in ARow, NEW c
    PROVE  LET y == Passed(x, c) IN
           /\ y \in ARow /\ y.name = x.name /\ y.admitted = x.admitted /\ y.status = x.status /\ y.parent = x.parent
           /\ y.steady => x.steady /\ x.parent # c
<1> HIDE DEF Statuses
<1> QED BY DEF Passed, ARow

LEMMA PeopleVouch ==
    ASSUME DerivedInv,
           \/ \E m \in Manager, serial \in Serial \cup {NoValue}, ip \in Address \cup {NoValue} : Import(m, serial, ip)
           \/ \E a \in Address, serial \in Serial \cup {NoValue} : AddDevice(a, serial)
           \/ \E a \in DOMAIN table : ApproveDevice(a) \/ Delete(a) \/ \E status \in Statuses : SetStatus(a, status)
    PROVE  DerivedInv'
<1>1. UNCHANGED <<last, job>>
  BY DEF Import, AddDevice, ApproveDevice, Delete, SetStatus, Tables
<1>2. \A a \in DOMAIN table : Vouched(table[a]) /\ table[a] \in ARow
  BY DEF DerivedInv, Vouched, VouchedBy
<1>3. ASSUME NEW m \in Manager, NEW serial \in Serial \cup {NoValue}, NEW ip, Import(m, serial, ip)
      PROVE  \A a \in DOMAIN table' : Vouched(table'[a])
  <2>1. CASE \E a \in Matches(m, serial, ip) : table' = [table EXCEPT ![a].parent = m, ![a].steady = FALSE,
                                     ![a].serial = IF serial = NoValue THEN @ ELSE serial]
    <3>1. PICK a \in Matches(m, serial, ip) : table' = [table EXCEPT ![a].parent = m, ![a].steady = FALSE,
                                     ![a].serial = IF serial = NoValue THEN @ ELSE serial]
      BY <2>1
    <3>2. a \in DOMAIN table
      BY <3>1 DEF Matches
    <3> DEFINE label == IF serial = NoValue THEN table[a].serial ELSE serial
    <3>3. table' = [table EXCEPT ![a] = AsAdopted(table[a], m, label)]
      BY <1>2, <3>1, <3>2 DEF AsAdopted, ARow
    <3>4. label \in Serial \cup {NoValue}
      BY <1>2, <3>2 DEF ARow
    <3> HIDE DEF label
    <3>5. Vouched(AsAdopted(table[a], m, label))
      BY <1>2, <3>2, <3>4, RowAdopted, FreshRow DEF Vouched, VouchedBy, Statuses
    <3> QED BY <1>2, <3>2, <3>3, <3>5
  <2>2. CASE table' = Inserted(ip, [Blank EXCEPT !.serial = serial, !.parent = m, !.status = "pending_review"])
    <3>1. table' = Inserted(ip, AsReported(serial, m))
      BY <2>2 DEF AsReported
    <3>2. Vouched(AsReported(serial, m))
      BY NewRows
    <3> QED BY <1>2, <3>1, <3>2 DEF Inserted
  <2> QED BY <1>3, <2>1, <2>2 DEF Import
<1>4. ASSUME NEW a \in Address, NEW serial \in Serial \cup {NoValue}, AddDevice(a, serial)
      PROVE  \A b \in DOMAIN table' : Vouched(table'[b])
  <2>1. table' = Inserted(a, AsAdded(serial))
    BY <1>4 DEF AddDevice, AsAdded
  <2>2. Vouched(AsAdded(serial))
    BY NewRows
  <2> QED BY <1>2, <2>1, <2>2 DEF Inserted
<1>5. ASSUME NEW a \in DOMAIN table, ApproveDevice(a) PROVE \A b \in DOMAIN table' : Vouched(table'[b])
  <2>1. table' = [table EXCEPT ![a] = AsApproved(table[a])]
    BY <1>2, <1>5 DEF ApproveDevice, AsApproved, ARow
  <2>2. table[a].status # "archived"
    BY <1>5 DEF ApproveDevice
  <2>3. Vouched(AsApproved(table[a]))
    BY <1>2, <2>2, RowRulings DEF Vouched, VouchedBy
  <2> QED BY <1>2, <2>1, <2>3
<1>6. ASSUME NEW a \in DOMAIN table, NEW status \in Statuses, SetStatus(a, status) PROVE \A b \in DOMAIN table' : Vouched(table'[b])
  <2>1. table' = [table EXCEPT ![a] = AsSet(table[a], status)]
    BY <1>2, <1>6 DEF SetStatus, AsSet, ARow
  <2>2. /\ AsSet(table[a], status) \in ARow /\ ~AsSet(table[a], status).steady
        /\ AsSet(table[a], status).status = "active" => AsSet(table[a], status).admitted
    BY <1>2, RowSet
  <2>3. Vouched(AsSet(table[a], status))
    BY <2>2, FreshRow
  <2> QED BY <1>2, <2>1, <2>3
<1>7. ASSUME NEW a \in DOMAIN table, Delete(a) PROVE \A b \in DOMAIN table' : Vouched(table'[b])
  BY <1>2, <1>7 DEF Delete, Restrict
<1>8. \A a \in DOMAIN table' : Vouched(table'[a])
  BY <1>3, <1>4, <1>5, <1>6, <1>7
<1> QED BY <1>1, <1>8, ListsKept

LEMMA ParentLeaves ==
    ASSUME DerivedInv, NEW p \in Controller \cup Manager, DeleteParent(p)
    PROVE  DerivedInv'
<1>1. \A a \in DOMAIN table : Vouched(table[a]) /\ table[a] \in ARow
  BY DEF DerivedInv, Vouched, VouchedBy
<1>2. /\ DOMAIN table' = DOMAIN table
      /\ \A a \in DOMAIN table : table'[a] = IF table[a].parent = p THEN AsOrphan(table[a]) ELSE table[a]
  BY DEF DeleteParent, AsOrphan
<1>3. last \in [Controller -> SUBSET Name] /\ last' = IF p \in Controller THEN [last EXCEPT ![p] = {}] ELSE last
  BY DEF DerivedInv, DeleteParent
<1>4. ASSUME NEW a \in DOMAIN table PROVE Vouched(table[a])'
  <2>1. CASE table[a].parent = p
    <3>1. table'[a] = AsOrphan(table[a])
      BY <1>2, <2>1
    <3>2. /\ AsOrphan(table[a]) \in ARow /\ ~AsOrphan(table[a]).steady
          /\ AsOrphan(table[a]).status = table[a].status /\ AsOrphan(table[a]).admitted = table[a].admitted
      BY <1>1, RowRulings
    <3> QED BY <1>1, <3>1, <3>2 DEF Vouched, VouchedBy
  <2>2. CASE table[a].parent # p
    <3>1. table'[a] = table[a]
      BY <1>2, <2>2
    <3>2. table[a].parent \in Controller => last'[table[a].parent] = last[table[a].parent]
      BY <1>3, <2>2
    <3> QED BY <1>1, <3>1, <3>2 DEF Vouched, VouchedBy
  <2> QED BY <2>1, <2>2
<1>5. last' \in [Controller -> SUBSET Name] /\ job' = job
  BY <1>3 DEF DeleteParent
<1> QED BY <1>2, <1>4, <1>5 DEF DerivedInv

LEMMA JobsVouch ==
    ASSUME DerivedInv, NEW scope, NEW archivedToo \in BOOLEAN, TargetDevices(scope, archivedToo)
    PROVE  DerivedInv'
<1>1. UNCHANGED <<table, last>> /\ job' = [targets |-> {table[a] : a \in Targets(scope, archivedToo)}, archivedToo |-> archivedToo]
  BY DEF TargetDevices
<1>2. ASSUME NEW a \in Targets(scope, archivedToo) PROVE table[a].admitted \/ (archivedToo /\ table[a].status = "archived")
  <2>1. Vouched(table[a])
    BY DEF DerivedInv, Targets
  <2>2. table[a].status \in Statuses
    BY <2>1 DEF Vouched, VouchedBy, ARow
  <2> QED BY <2>1, <2>2 DEF Targets, Statuses, Vouched, VouchedBy
<1> QED BY <1>1, <1>2 DEF DerivedInv, Vouched, VouchedBy

\* Two sets of names of one size, one within the other, are the same.
LEMMA WholeList ==
    ASSUME NEW S, NEW T, S \subseteq T, T \subseteq Name, Cardinality(S) = Cardinality(T)
    PROVE  S = T
<1>1. IsFiniteSet(T)
  BY DerivedAssumption, FS_Subset
<1> QED BY <1>1, FS_Subset

LEMMA SyncVouches ==
    ASSUME DerivedInv, NEW c \in Controller, NEW radios \in SUBSET Name, NEW said \in Lists(radios),
           NEW declared \in {NoValue, Cardinality(radios)}, Sync(c, radios, said, declared)
    PROVE  DerivedInv'
<1>1. \A a \in DOMAIN table : Vouched(table[a]) /\ table[a] \in ARow
  BY DEF DerivedInv, Vouched, VouchedBy
<1>2. DOMAIN said \subseteq radios
  BY DEF Lists
<1> DEFINE now == IF declared = NoValue THEN DOMAIN said ELSE radios
<1>3. last \in [Controller -> SUBSET Name] /\ last' = [last EXCEPT ![c] = now] /\ job' = job
  BY DEF DerivedInv, Sync
<1>4. now = DOMAIN said
  <2>1. CASE declared = NoValue
    BY <2>1
  <2>2. CASE declared # NoValue
    <3>1. Cardinality(DOMAIN said) = Cardinality(radios)
      BY <2>2 DEF Sync, Usable
    <3> QED BY <1>2, <2>2, <3>1, WholeList
  <2> QED BY <2>1, <2>2
<1> HIDE DEF now
<1>5. last' \in [Controller -> SUBSET Name] /\ last'[c] = DOMAIN said /\ \A d \in Controller \ {c} : last'[d] = last[d]
  BY <1>2, <1>3, <1>4
<1>6. ASSUME NEW x, Vouched(x) PROVE VouchedBy(last', Followed(x, said, c))
  <2> DEFINE y == Followed(x, said, c)
  <2>1. x \in ARow
    BY <1>6 DEF Vouched, VouchedBy
  <2>2. /\ y \in ARow /\ y.name = x.name /\ y.admitted = x.admitted
        /\ x.name \in DOMAIN said => y.parent = c /\ y.steady /\ y.status # "archived"
        /\ x.name \notin DOMAIN said /\ x.parent = c => y.parent = c /\ y.steady /\ y.status = "archived"
        /\ x.name \notin DOMAIN said /\ x.parent # c => y = x
        /\ y.status = "active" => x.status = "active"
    BY <2>1, RowFollowed
  <2> HIDE DEF y
  <2>3. y.status = "active" => y.admitted
    BY <1>6, <2>2 DEF Vouched, VouchedBy
  <2>4. y.steady => y.parent \in Controller /\ (y.status # "archived" <=> y.name \in last'[y.parent])
    <3>1. CASE x.name \in DOMAIN said
      BY <1>5, <2>2, <3>1
    <3>2. CASE x.name \notin DOMAIN said /\ x.parent = c
      BY <1>5, <2>2, <3>2
    <3>3. CASE x.name \notin DOMAIN said /\ x.parent # c
      BY <1>5, <1>6, <2>2, <3>3 DEF Vouched, VouchedBy
    <3> QED BY <3>1, <3>2, <3>3
  <2> QED BY <2>2, <2>3, <2>4 DEF Vouched, VouchedBy, y
<1>7. ASSUME NEW x, Vouched(x) PROVE VouchedBy(last', Passed(x, c))
  <2> DEFINE y == Passed(x, c)
  <2>1. x \in ARow
    BY <1>7 DEF Vouched, VouchedBy
  <2>2. /\ y \in ARow /\ y.name = x.name /\ y.admitted = x.admitted /\ y.status = x.status /\ y.parent = x.parent
        /\ y.steady => x.steady /\ x.parent # c
    BY <2>1, RowPassed
  <2> HIDE DEF y
  <2>3. y.steady => y.parent \in Controller /\ (y.status # "archived" <=> y.name \in last'[y.parent])
    BY <1>5, <1>7, <2>2 DEF Vouched, VouchedBy
  <2> QED BY <1>7, <2>2, <2>3 DEF Vouched, VouchedBy, y
<1>8. ASSUME NEW n \in DOMAIN said PROVE VouchedBy(last', AsPoint(n, c))
  <2>1. n \in Name
    BY <1>2
  <2> DEFINE y == AsPoint(n, c)
  <2>2. y \in ARow /\ y.steady /\ y.status = "inventory_only" /\ y.name = n /\ y.parent = c
    BY <2>1, PointIs
  <2> HIDE DEF y
  <2> QED BY <1>5, <1>8, <2>2 DEF Vouched, VouchedBy, y
<1>9. \A b \in DOMAIN table' : VouchedBy(last', table'[b])
  <2>1. PICK known \in Lookups :
        LET names == {Named(a) : a \in known}
            to == [a \in DOMAIN table |->
                     IF a \in known /\ Named(a) \in DOMAIN said /\ said[Named(a)] # NoValue
                     THEN said[Named(a)] ELSE a]
            fresh == [n \in {n \in DOMAIN said \ names : said[n] # NoValue} |-> said[n]]
            Row(b) == IF b \in Range(to)
                      THEN LET a == CHOOSE a \in DOMAIN to : to[a] = b
                           IN  IF a \in known THEN Followed(table[a], said, c) ELSE Passed(table[a], c)
                      ELSE [Blank EXCEPT !.kind = "ap", !.name = CHOOSE n \in DOMAIN fresh : fresh[n] = b,
                                         !.status = "inventory_only", !.parent = c, !.steady = TRUE]
        IN  Lands(to, fresh) /\ table' = [b \in Range(to) \cup Range(fresh) |-> Row(b)]
    BY DEF Sync
  <2> DEFINE names == {Named(a) : a \in known}
             to == [a \in DOMAIN table |->
                     IF a \in known /\ Named(a) \in DOMAIN said /\ said[Named(a)] # NoValue
                     THEN said[Named(a)] ELSE a]
             fresh == [n \in {n \in DOMAIN said \ names : said[n] # NoValue} |-> said[n]]
             Origin(b) == CHOOSE a \in DOMAIN to : to[a] = b
             Newcomer(b) == CHOOSE n \in DOMAIN fresh : fresh[n] = b
  <2>2. table' = [b \in Range(to) \cup Range(fresh) |->
                    IF b \in Range(to)
                    THEN IF Origin(b) \in known THEN Followed(table[Origin(b)], said, c) ELSE Passed(table[Origin(b)], c)
                    ELSE AsPoint(Newcomer(b), c)]
    BY <2>1 DEF AsPoint
  <2>3. DOMAIN to = DOMAIN table /\ DOMAIN fresh \subseteq DOMAIN said
    OBVIOUS
  <2> HIDE DEF to, fresh
  <2>4. ASSUME NEW b \in Range(to) PROVE Origin(b) \in DOMAIN table
    BY <2>3 DEF Range
  <2>5. ASSUME NEW b \in Range(fresh) PROVE Newcomer(b) \in DOMAIN said
    BY <2>3 DEF Range
  <2> HIDE DEF Origin, Newcomer
  <2>6. ASSUME NEW b \in DOMAIN table' PROVE VouchedBy(last', table'[b])
    <3>1. CASE b \in Range(to)
      <4>1. table'[b] = Followed(table[Origin(b)], said, c) \/ table'[b] = Passed(table[Origin(b)], c)
        BY <2>2, <3>1
      <4>2. Vouched(table[Origin(b)])
        BY <1>1, <2>4, <3>1
      <4> QED BY <1>6, <1>7, <4>1, <4>2
    <3>2. CASE b \notin Range(to)
      <4>1. b \in Range(fresh) /\ table'[b] = AsPoint(Newcomer(b), c)
        BY <2>2, <2>6, <3>2
      <4> QED BY <1>8, <2>5, <4>1
    <3> QED BY <3>1, <3>2
  <2> QED BY <2>6
<1> QED BY <1>3, <1>5, <1>9 DEF DerivedInv, Vouched

\* What vouches for every row is an inductive invariant.
THEOREM DerivedInductive == DerivedSpec => []DerivedInv
<1>1. DerivedInit => DerivedInv
  <2> SUFFICES ASSUME DerivedInit PROVE DerivedInv
    OBVIOUS
  <2>1. DOMAIN table = {} /\ job.targets = {}
    BY DEF DerivedInit
  <2>2. last \in [Controller -> SUBSET Name]
    BY DEF DerivedInit
  <2> QED BY <2>1, <2>2 DEF DerivedInv
<1>2. DerivedInv /\ [DerivedNext]_derivedVars => DerivedInv'
  <2> SUFFICES ASSUME DerivedInv, [DerivedNext]_derivedVars PROVE DerivedInv'
    OBVIOUS
  <2>1. CASE UNCHANGED derivedVars
    BY <2>1 DEF derivedVars, DerivedInv, Vouched
  <2>2. ASSUME NEW c \in Controller, NEW radios \in SUBSET Name, NEW said \in Lists(radios),
               NEW declared \in {NoValue, Cardinality(radios)}, Sync(c, radios, said, declared)
        PROVE  DerivedInv'
    BY <2>2, SyncVouches
  <2>3. CASE DerivedNext
    BY <2>2, <2>3, PeopleVouch, ParentLeaves, JobsVouch DEF DerivedNext
  <2> QED BY <2>1, <2>3
<1> QED BY <1>1, <1>2, PTL DEF DerivedSpec

\* However controllers and managers are collected, roamed between, cut short, deleted
\* and adopted, the points nobody touched follow the last list of their controller,
\* and no device is assessed or targeted that a person did not put in.
THEOREM DerivedDevicesAlwaysTrue == DerivedSpec => []DerivedDevicesAreTrue
BY DerivedInductive, VouchedIs, PTL

-----------------------------------------------------------------------------
(* Announcements *)

Delivery ==
    [about : Exception \cup {0}, status : {"none", "queued", "retrying", "sent", "dead"}, attempts : Nat, due : Nat, since : Nat,
     died : Nat, by : Notifier \cup {0}]

\* What a pass has written.
Writes == UNION {[D -> Delivery] : D \in SUBSET Nat}

APass ==
    [step : {"none", "raise", "claim", "send"}, moment : Nat, floor : Int, found : SUBSET Exception, todo : Seq(Nat), rows : SUBSET Nat,
     wrote : Writes, mark : Int]

NoteTypeOK ==
    /\ noteClock \in Nat /\ horizon \in Int /\ horizon >= -1 /\ horizon <= noteClock + Window /\ crossed \in BOOLEAN
    /\ granted \in [Exception -> Int] /\ \A e \in Exception : granted[e] >= -1 /\ granted[e] <= noteClock
    /\ expires \in [Exception -> Nat]
    /\ deliveries \in Seq(Delivery) /\ pass \in [Notifier -> APass]

\* What a pass holds is live, committed or its own, and what it has written is of the same exception.
Holding(n) ==
    /\ pass[n].step # "send" => pass[n].rows = {} /\ DOMAIN pass[n].wrote = {}
    /\ \A i \in pass[n].rows : /\ i \in DOMAIN deliveries /\ deliveries[i].status \in {"queued", "retrying"}
                               /\ deliveries[i].by \in {0, n}
    /\ \A k \in DOMAIN pass[n].todo : pass[n].todo[k] \in pass[n].rows
    /\ \A i \in DOMAIN pass[n].wrote : /\ i \in pass[n].rows /\ pass[n].wrote[i].about = deliveries[i].about
                                       /\ pass[n].wrote[i].by = deliveries[i].by

HeldByOne == \A n, m \in Notifier : n # m => pass[n].rows \cap pass[m].rows = {}

\* An exception recorded more than a window ahead that ends by a date, and not yet, has been announced.
Long(e) == granted[e] # -1 /\ expires[e] > granted[e] + Window
Told(e, n) == \E i \in DOMAIN deliveries : deliveries[i].about = e /\ deliveries[i].by = n
Covered(date) == \A e \in Exception : Long(e) /\ expires[e] > noteClock /\ expires[e] <= date => Told(e, 0)

From(n) == IF pass[n].floor = -1 THEN pass[n].moment ELSE pass[n].floor
Thorough(n) == pass[n].step # "none" =>
    /\ pass[n].moment <= noteClock /\ pass[n].mark <= pass[n].moment + Window /\ pass[n].floor >= -1 /\ pass[n].mark >= -1
    /\ pass[n].floor <= noteClock + Window
    /\ \A e \in Exception : Long(e) /\ expires[e] > From(n) /\ expires[e] <= pass[n].moment + Window => e \in pass[n].found
    /\ Covered(pass[n].floor)
    /\ pass[n].step # "raise" => \A e \in pass[n].found : Told(e, n)

\* While passes follow one another.
Ahead(n) == pass[n].step # "none" =>
    /\ pass[n].floor = horizon
    /\ pass[n].found = {} => pass[n].mark = -1
    /\ \A e \in pass[n].found : granted[e] # -1 /\ expires[e] > From(n) /\ expires[e] <= pass[n].mark /\ pass[n].mark # -1

Behind(i) ==
    /\ deliveries[i].by = 0 /\ deliveries[i].about # 0 =>
         horizon # -1 /\ granted[deliveries[i].about] # -1 /\ expires[deliveries[i].about] <= horizon
    /\ \A n \in Notifier : deliveries[i].by = n =>
         pass[n].step \in {"claim", "send"} /\ deliveries[i].about \in pass[n].found

InTurn == ~crossed =>
    /\ \A n, m \in Notifier : n # m => pass[n].step = "none" \/ pass[m].step = "none"
    /\ \A i, j \in DOMAIN deliveries : deliveries[i].about = deliveries[j].about /\ deliveries[i].about # 0 => i = j
    /\ \A i \in DOMAIN deliveries : Behind(i)
    /\ \A n \in Notifier : Ahead(n)

NoteInv ==
    /\ NoteTypeOK /\ HeldByOne /\ Covered(horizon) /\ InTurn
    /\ \A n \in Notifier : Holding(n) /\ Thorough(n)

\* The lesser of two numbers.
LEMMA LesserIs == \A a, b \in Int : Min({a, b}) = IF a < b THEN a ELSE b
<1> TAKE a, b \in Int
<1> DEFINE m == IF a < b THEN a ELSE b
<1>1. m \in {a, b} /\ \A y \in {a, b} : m <= y
  OBVIOUS
<1>2. \A x \in {a, b} : (\A y \in {a, b} : x <= y) => x = m
  OBVIOUS
<1> HIDE DEF m
<1>3. Min({a, b}) = m
  BY <1>1, <1>2 DEF Min
<1> QED BY <1>3 DEF m

LEMMA RestingIs ==
    /\ Resting \in APass /\ Resting.step = "none" /\ Resting.rows = {} /\ Resting.found = {} /\ DOMAIN Resting.wrote = {} /\ Resting.todo = <<>>
<1>1. [i \in {} |-> NoRow] \in [{} -> Delivery]
  OBVIOUS
<1>2. [i \in {} |-> NoRow] \in Writes
  BY <1>1 DEF Writes
<1> DEFINE nothing == [i \in {} |-> NoRow]
<1>3. nothing \in Writes /\ DOMAIN nothing = {}
  BY <1>2
<1>4. Resting = [step |-> "none", moment |-> 0, floor |-> 0, found |-> {}, todo |-> <<>>, rows |-> {}, wrote |-> nothing, mark |-> -1]
  BY DEF Resting
<1> HIDE DEF nothing
<1> QED BY <1>3, <1>4 DEF APass

LEMMA NoRowIs == NoRow \in Delivery /\ NoRow.about = 0 /\ NoRow.by = 0
BY DEF NoRow, Delivery

\* A pass that has claimed, and one that has tried a delivery.
AsClaimed(x, todo, held) == [x EXCEPT !.step = "send", !.todo = todo, !.rows = held]
AsTried(x, todo, wrote) == [x EXCEPT !.todo = todo, !.wrote = wrote]
AsRaised(x) == [x EXCEPT !.step = "claim"]

LEMMA PassClaimed ==
    ASSUME NEW x \in APass, NEW todo \in Seq(Nat), NEW held \in SUBSET Nat, NEW y, y = AsClaimed(x, todo, held)
    PROVE  /\ y \in APass /\ y.step = "send" /\ y.moment = x.moment /\ y.floor = x.floor /\ y.found = x.found /\ y.todo = todo
           /\ y.rows = held /\ y.wrote = x.wrote /\ y.mark = x.mark
BY DEF AsClaimed, APass

LEMMA PassTried ==
    ASSUME NEW x \in APass, NEW todo \in Seq(Nat), NEW wrote \in Writes, NEW y, y = AsTried(x, todo, wrote)
    PROVE  /\ y \in APass /\ y.step = x.step /\ y.moment = x.moment /\ y.floor = x.floor /\ y.found = x.found /\ y.todo = todo
           /\ y.rows = x.rows /\ y.wrote = wrote /\ y.mark = x.mark
BY DEF AsTried, APass

LEMMA PassRaised ==
    ASSUME NEW x \in APass, NEW y, y = AsRaised(x)
    PROVE  /\ y \in APass /\ y.step = "claim" /\ y.moment = x.moment /\ y.floor = x.floor /\ y.found = x.found /\ y.todo = x.todo
           /\ y.rows = x.rows /\ y.wrote = x.wrote /\ y.mark = x.mark
BY DEF AsRaised, APass

\* An attempt leaves a delivery its exception and its transaction.
LEMMA DispatchedIs ==
    ASSUME NoteTypeOK, NEW x \in Delivery, NEW ok \in BOOLEAN
    PROVE  Dispatched(x, ok) \in Delivery /\ Dispatched(x, ok).about = x.about /\ Dispatched(x, ok).by = x.by
<1> DEFINE tried == [x EXCEPT !.attempts = @ + 1]
<1>1. tried \in Delivery /\ tried.about = x.about /\ tried.by = x.by /\ tried.attempts \in Nat \ {0}
  BY DEF Delivery
<1> HIDE DEF tried
<1>2. noteClock \in Nat /\ Len(Backoff) \in Nat \ {0} /\ Backoff \in Seq(Nat)
  BY NotificationAssumption DEF NoteTypeOK
<1> DEFINE k == Min({tried.attempts, Len(Backoff)})
<1>3. k \in 1 .. Len(Backoff)
  BY <1>1, <1>2, LesserIs
<1> DEFINE later == noteClock + Backoff[k]
<1>4. later \in Nat
  BY <1>2, <1>3
<1>5. AfterFailure(tried) = IF tried.attempts >= MaxAttempts THEN [tried EXCEPT !.status = "dead", !.died = noteClock]
                            ELSE [tried EXCEPT !.status = "retrying", !.due = later]
  BY DEF AfterFailure
<1> HIDE DEF k, later
<1>6. AfterFailure(tried) \in Delivery /\ AfterFailure(tried).about = x.about /\ AfterFailure(tried).by = x.by
  BY <1>1, <1>2, <1>4, <1>5 DEF Delivery
<1>7. Dispatched(x, ok) = IF ok THEN [tried EXCEPT !.status = "sent"] ELSE AfterFailure(tried)
  BY DEF Dispatched, tried
<1>8. [tried EXCEPT !.status = "sent"] \in Delivery /\ [tried EXCEPT !.status = "sent"].about = x.about /\ [tried EXCEPT !.status = "sent"].by = x.by
  BY <1>1 DEF Delivery
<1> QED BY <1>6, <1>7, <1>8

LEMMA NoteInitInv == NoteInit => NoteInv
<1> SUFFICES ASSUME NoteInit PROVE NoteInv
  OBVIOUS
<1>1. \A n \in Notifier : pass[n] = Resting
  BY DEF NoteInit
<1>2. deliveries = <<>> /\ DOMAIN deliveries = {} /\ noteClock = 0 /\ horizon = -1 /\ (\A e \in Exception : granted[e] = -1)
  BY DEF NoteInit
<1>3. NoteTypeOK
  <2>1. deliveries \in Seq(Delivery)
    BY <1>2
  <2>2. horizon <= noteClock + Window /\ horizon \in Int /\ horizon >= -1 /\ noteClock \in Nat
    BY <1>2, NotificationAssumption
  <2>3. pass \in [Notifier -> APass] /\ crossed \in BOOLEAN
    BY RestingIs DEF NoteInit
  <2>4. granted \in [Exception -> Int] /\ expires \in [Exception -> Nat] /\ \A e \in Exception : granted[e] >= -1 /\ granted[e] <= noteClock
    <3>1. -1 \in Int /\ -1 <= 0 /\ -1 >= -1
      OBVIOUS
    <3>2. granted \in [Exception -> Int] /\ expires \in [Exception -> Nat]
      BY <3>1 DEF NoteInit
    <3> QED BY <1>2, <3>1, <3>2
  <2> QED BY <2>1, <2>2, <2>3, <2>4 DEF NoteTypeOK
<1>4. \A n \in Notifier : Holding(n) /\ Thorough(n) /\ Ahead(n)
  BY <1>1, RestingIs DEF Holding, Thorough, Ahead
<1>5. HeldByOne /\ Covered(horizon)
  BY <1>1, <1>2, RestingIs DEF HeldByOne, Covered, Long
<1>6. InTurn
  BY <1>1, <1>2, <1>4, RestingIs DEF InTurn
<1> QED BY <1>3, <1>4, <1>5, <1>6 DEF NoteInv

\* A step of one pass that writes no row.
LEMMA OneAnnounces ==
    ASSUME NoteInv, NEW n \in Notifier, NEW new \in APass, pass' = [pass EXCEPT ![n] = new],
           UNCHANGED <<noteClock, granted, expires, horizon, deliveries, crossed>>,
           pass[n].step \in {"claim", "send"}, new.step = "send", new.moment = pass[n].moment, new.floor = pass[n].floor,
           new.found = pass[n].found, new.mark = pass[n].mark,
           Holding(n)', \A m \in Notifier \ {n} : new.rows \cap pass[m].rows = {}
    PROVE  NoteInv'
<1>1. pass'[n] = new /\ (\A m \in Notifier \ {n} : pass'[m] = pass[m]) /\ NoteTypeOK' /\ Covered(horizon)'
  <2>1. pass' \in [Notifier -> APass] /\ pass'[n] = new /\ \A m \in Notifier \ {n} : pass'[m] = pass[m]
    BY DEF NoteInv, NoteTypeOK
  <2>2. NoteTypeOK'
    BY <2>1 DEF NoteInv, NoteTypeOK
  <2>3. Covered(horizon)'
    BY DEF NoteInv, Covered, Long, Told
  <2> QED BY <2>1, <2>2, <2>3
<1>2. \A m \in Notifier : Holding(m)'
  <2>1. ASSUME NEW m \in Notifier, m # n PROVE Holding(m)'
    BY <1>1, <2>1 DEF NoteInv, Holding
  <2> QED BY <2>1
<1>3. HeldByOne'
  BY <1>1 DEF NoteInv, HeldByOne
<1>4. ASSUME NEW m \in Notifier
      PROVE  /\ (pass'[m].step = "none" <=> pass[m].step = "none") /\ (pass'[m].step = "raise" <=> pass[m].step = "raise")
             /\ pass'[m].moment = pass[m].moment /\ pass'[m].floor = pass[m].floor
             /\ pass'[m].found = pass[m].found /\ pass'[m].mark = pass[m].mark
             /\ (pass[m].step \in {"claim", "send"} => pass'[m].step \in {"claim", "send"})
  BY <1>1
<1>5. ASSUME NEW m \in Notifier PROVE Thorough(m)' /\ (Ahead(m) => Ahead(m)')
  <2>1. Thorough(m)'
    BY <1>4 DEF NoteInv, Thorough, From, Covered, Long, Told
  <2>2. Ahead(m) => Ahead(m)'
    BY <1>4 DEF Ahead, From
  <2> QED BY <2>1, <2>2
<1>6. ASSUME NEW i \in DOMAIN deliveries, Behind(i) PROVE Behind(i)'
  BY <1>4, <1>6 DEF Behind
<1>7. InTurn'
  BY <1>4, <1>5, <1>6 DEF NoteInv, InTurn
<1> QED BY <1>1, <1>2, <1>3, <1>5, <1>7 DEF NoteInv

LEMMA ClaimsHold == \A n \in Notifier : NoteInv /\ ClaimDue(n) => NoteInv'
<1> SUFFICES ASSUME NEW n \in Notifier, NoteInv, ClaimDue(n) PROVE NoteInv'
  OBVIOUS
<1> DEFINE held == DueRows(n)
           todo == SetToSeq(held)
           new == AsClaimed(pass[n], todo, held)
<1>1. NoteTypeOK /\ pass[n] \in APass /\ Holding(n) /\ pass[n].step = "claim"
  BY DEF NoteInv, NoteTypeOK, ClaimDue
<1>2. held \subseteq DOMAIN deliveries /\ DOMAIN deliveries = 1 .. Len(deliveries) /\ Len(deliveries) \in Nat
  BY <1>1 DEF NoteTypeOK, DueRows
<1>3. IsFiniteSet(held) /\ held \in SUBSET Nat
  <2>1. IsFiniteSet(DOMAIN deliveries)
    <3>1. IsFiniteSet(1 .. Len(deliveries))
      BY <1>2, FS_Interval
    <3> QED BY <1>2, <3>1
  <2> QED BY <1>2, <2>1, FS_Subset
<1>4. todo \in Seq(held) /\ todo \in Seq(Nat)
  <2>1. todo \in Seq(held)
    BY <1>3, AsSequence
  <2> HIDE DEF todo
  <2> QED BY <1>3, <2>1
<1>5. pass' = [pass EXCEPT ![n] = new]
  <2>1. pass' = [pass EXCEPT ![n].step = "send", ![n].todo = todo, ![n].rows = held]
    BY DEF ClaimDue
  <2> HIDE DEF todo, held
  <2> QED BY <1>1, <2>1 DEF AsClaimed, NoteTypeOK
<1>6. \A i \in held : /\ i \in DOMAIN deliveries /\ deliveries[i].status \in {"queued", "retrying"} /\ deliveries[i].by \in {0, n}
                      /\ \A m \in Notifier \ {n} : i \notin pass[m].rows
  BY DEF DueRows, Taken
<1> HIDE DEF held, todo
<1>7. /\ new \in APass /\ new.step = "send" /\ new.moment = pass[n].moment /\ new.floor = pass[n].floor
      /\ new.found = pass[n].found /\ new.todo = todo /\ new.rows = held /\ new.wrote = pass[n].wrote /\ new.mark = pass[n].mark
  BY <1>1, <1>3, <1>4, PassClaimed
<1> HIDE DEF new
<1>8. UNCHANGED <<noteClock, granted, expires, horizon, deliveries, crossed>>
  BY DEF ClaimDue
<1>9. Holding(n)'
  <2>1. pass'[n] = new
    BY <1>1, <1>5 DEF NoteTypeOK
  <2>2. DOMAIN new.wrote = {}
    BY <1>1, <1>7 DEF Holding
  <2>3. \A k \in DOMAIN todo : todo[k] \in held
    BY <1>4
  <2> QED BY <1>6, <1>7, <1>8, <2>1, <2>2, <2>3 DEF Holding
<1> QED BY <1>1, <1>5, <1>6, <1>7, <1>8, <1>9, OneAnnounces

LEMMA SendsHold == \A n \in Notifier, ok \in BOOLEAN : NoteInv /\ Send(n, ok) => NoteInv'
<1> SUFFICES ASSUME NEW n \in Notifier, NEW ok \in BOOLEAN, NoteInv, Send(n, ok) PROVE NoteInv'
  OBVIOUS
<1> DEFINE i == Head(pass[n].todo)
           todo == Tail(pass[n].todo)
           x == Dispatched(deliveries[i], ok)
           wrote == Updated(pass[n].wrote, i, x)
           new == AsTried(pass[n], todo, wrote)
<1>1. NoteTypeOK /\ pass[n] \in APass /\ Holding(n) /\ pass[n].step = "send" /\ pass[n].todo # <<>>
      /\ UNCHANGED <<noteClock, granted, expires, horizon, deliveries, crossed>>
  BY DEF NoteInv, NoteTypeOK, Send
<1>2. pass[n].todo \in Seq(Nat) /\ pass[n].rows \subseteq Nat
  BY <1>1 DEF APass
<1>3. /\ todo \in Seq(Nat) /\ 1 \in DOMAIN pass[n].todo /\ i = pass[n].todo[1]
      /\ \A k \in DOMAIN todo : k + 1 \in DOMAIN pass[n].todo /\ todo[k] = pass[n].todo[k + 1]
  BY <1>1, <1>2
<1>4. pass' = [pass EXCEPT ![n] = new]
  <2>1. pass' = [pass EXCEPT ![n].todo = todo, ![n].wrote = wrote]
    BY DEF Send
  <2> HIDE DEF todo, wrote
  <2> QED BY <1>1, <2>1 DEF AsTried, NoteTypeOK
<1>5. i \in pass[n].rows /\ i \in DOMAIN deliveries /\ deliveries[i] \in Delivery
  BY <1>1, <1>3 DEF Holding, NoteTypeOK
<1> HIDE DEF i, todo
<1>6. x \in Delivery /\ x.about = deliveries[i].about /\ x.by = deliveries[i].by
  BY <1>1, <1>5, DispatchedIs
<1> HIDE DEF x
<1>7. PICK D \in SUBSET Nat : pass[n].wrote \in [D -> Delivery]
  BY <1>1 DEF APass, Writes
<1>8. /\ DOMAIN wrote = D \cup {i} /\ D \cup {i} \in SUBSET Nat /\ wrote \in [D \cup {i} -> Delivery]
      /\ \A j \in D \cup {i} : wrote[j] = IF j = i THEN x ELSE pass[n].wrote[j]
  BY <1>2, <1>5, <1>6, <1>7 DEF Updated
<1>81. wrote \in Writes
  BY <1>8 DEF Writes
<1> HIDE DEF wrote
<1>9. /\ new \in APass /\ new.step = "send" /\ new.moment = pass[n].moment /\ new.floor = pass[n].floor
      /\ new.found = pass[n].found /\ new.todo = todo /\ new.rows = pass[n].rows /\ new.wrote = wrote /\ new.mark = pass[n].mark
  BY <1>1, <1>3, <1>81, PassTried
<1> HIDE DEF new
<1>10. Holding(n)'
  <2>1. pass'[n] = new
    BY <1>1, <1>4 DEF NoteTypeOK
  <2>2. \A k \in DOMAIN todo : todo[k] \in pass[n].rows
    BY <1>1, <1>3 DEF Holding
  <2>3. \A j \in DOMAIN wrote : j \in pass[n].rows /\ wrote[j].about = deliveries[j].about /\ wrote[j].by = deliveries[j].by
    BY <1>1, <1>5, <1>6, <1>7, <1>8 DEF Holding
  <2> QED BY <1>1, <1>9, <2>1, <2>2, <2>3 DEF Holding
<1>11. \A m \in Notifier \ {n} : new.rows \cap pass[m].rows = {}
  BY <1>9 DEF NoteInv, HeldByOne
<1> QED BY <1>1, <1>4, <1>9, <1>10, <1>11, OneAnnounces

\* A date that was reached by what is recorded.
LEMMA CoveredLasts ==
    ASSUME NEW date \in Int, Covered(date), noteClock' = noteClock, UNCHANGED <<granted, expires>>,
           \A e \in Exception : Told(e, 0) => Told(e, 0)'
    PROVE  \A e \in Exception : Long(e)' /\ expires'[e] > noteClock' /\ expires'[e] <= date => Told(e, 0)'
BY DEF Covered, Long

LEMMA ScansAnnounce == \A n \in Notifier : NoteInv /\ ScanExceptions(n) => NoteInv'
<1> SUFFICES ASSUME NEW n \in Notifier, NoteInv, ScanExceptions(n) PROVE NoteInv'
  OBVIOUS
<1> DEFINE floor == IF horizon = -1 THEN noteClock ELSE horizon
           found == Expiring(floor)
           begun == IF found = {} THEN "claim" ELSE "raise"
           top == IF found = {} THEN -1 ELSE LastExpiry(found)
           nothing == [i \in {} |-> NoRow]
           new == [step |-> begun, moment |-> noteClock, floor |-> horizon, found |-> found, todo |-> <<>>, rows |-> {},
                   wrote |-> nothing, mark |-> top]
<1>1. NoteTypeOK /\ Covered(horizon) /\ pass[n].step = "none" /\ Window \in Nat
      /\ UNCHANGED <<noteClock, granted, expires, horizon, deliveries>>
  BY NotificationAssumption DEF NoteInv, ScanExceptions
<1>2. noteClock \in Nat /\ horizon \in Int /\ floor \in Nat /\ floor >= 0
  BY <1>1 DEF NoteTypeOK
<1>3. found \in SUBSET Exception /\ \A e \in Exception : e \in found <=> granted[e] # -1 /\ expires[e] \in floor + 1 .. noteClock + Window
  BY DEF Expiring
<1>4. pass' = [pass EXCEPT ![n] = new]
  BY DEF ScanExceptions, Scanned
<1> HIDE DEF found
<1>5. /\ top \in Int /\ top >= -1 /\ top <= noteClock + Window
      /\ found = {} => top = -1
      /\ \A e \in found : expires[e] <= top /\ top # -1
  <2>1. CASE found = {}
    BY <1>1, <1>2, <2>1
  <2>2. CASE found # {}
    <3> DEFINE S == {expires[e] : e \in found}
    <3>1. S \subseteq 0 .. noteClock + Window /\ S # {}
      BY <1>2, <1>3, <2>2
    <3>2. noteClock + Window \in Nat
      BY <1>1, <1>2
    <3>3. Max(S) \in S /\ \A x \in S : x <= Max(S)
      <4> HIDE DEF S
      <4> QED BY <3>1, <3>2, Greatest
    <3>4. top = Max(S)
      BY <2>2 DEF LastExpiry
    <3> HIDE DEF top
    <3>5. \A e \in found : expires[e] \in S
      OBVIOUS
    <3> HIDE DEF S
    <3>6. top \in 0 .. noteClock + Window
      BY <3>1, <3>3, <3>4
    <3>7. \A e \in found : expires[e] <= top
      BY <3>3, <3>4, <3>5
    <3>8. top \in Nat /\ top <= noteClock + Window
      BY <3>2, <3>6
    <3> QED BY <2>2, <3>7, <3>8
  <2> QED BY <2>1, <2>2
<1>6. begun \in {"claim", "raise"} /\ (begun = "claim" => found = {})
  OBVIOUS
<1>7. nothing \in Writes /\ DOMAIN nothing = {}
  <2>1. nothing \in [{} -> Delivery]
    OBVIOUS
  <2> QED BY <2>1 DEF Writes
<1> HIDE DEF top, begun, nothing
<1>8. /\ new \in APass /\ new.step = begun /\ new.moment = noteClock /\ new.floor = horizon /\ new.found = found /\ new.todo = <<>>
      /\ new.rows = {} /\ new.wrote = nothing /\ new.mark = top
  BY <1>2, <1>3, <1>5, <1>6, <1>7 DEF APass
<1> HIDE DEF new
<1>9. pass'[n] = new /\ (\A m \in Notifier \ {n} : pass'[m] = pass[m]) /\ pass' \in [Notifier -> APass]
  BY <1>1, <1>4, <1>8 DEF NoteTypeOK
<1>10. NoteTypeOK'
  <2>1. crossed' \in BOOLEAN
    BY <1>1 DEF ScanExceptions, NoteTypeOK
  <2> QED BY <1>1, <1>9, <2>1 DEF NoteTypeOK
<1>11. HeldByOne' /\ Covered(horizon)'
  <2>1. HeldByOne'
    BY <1>8, <1>9 DEF NoteInv, HeldByOne
  <2>2. Covered(horizon)'
    BY <1>1 DEF Covered, Long, Told
  <2> QED BY <2>1, <2>2
<1>12. ASSUME NEW m \in Notifier PROVE Holding(m)' /\ Thorough(m)'
  <2>1. CASE m = n
    <3>1. Holding(m)'
      BY <1>1, <1>6, <1>7, <1>8, <1>9, <2>1 DEF Holding
    <3>2. ASSUME NEW e \in Exception, Long(e)', expires'[e] > From(n)', expires'[e] <= noteClock' + Window PROVE e \in found
      <4>1. From(n)' = floor
        BY <1>1, <1>8, <1>9 DEF From
      <4>2. granted[e] # -1 /\ expires[e] > floor /\ expires[e] <= noteClock + Window /\ expires[e] \in Nat
        BY <1>1, <3>2, <4>1 DEF Long, NoteTypeOK
      <4> QED BY <1>1, <1>2, <1>3, <4>2
    <3>3. Covered(pass[n].floor)'
      BY <1>1, <1>8, <1>9, <1>11 DEF Covered, Long, Told
    <3> QED BY <1>1, <1>2, <1>5, <1>6, <1>8, <1>9, <2>1, <3>1, <3>2, <3>3 DEF Thorough, NoteTypeOK
  <2>2. CASE m # n
    BY <1>1, <1>9, <2>2 DEF NoteInv, Holding, Thorough, From, Covered, Long, Told
  <2> QED BY <2>1, <2>2
<1>13. InTurn'
  <2> SUFFICES ASSUME ~crossed' PROVE InTurn'
    BY DEF InTurn
  <2>1. ~crossed /\ \A m \in Notifier \ {n} : pass[m].step = "none"
    BY DEF ScanExceptions
  <2>2. \A m, k \in Notifier : m # k => pass'[m].step = "none" \/ pass'[k].step = "none"
    BY <1>9, <2>1
  <2>3. ASSUME NEW i \in DOMAIN deliveries PROVE Behind(i)'
    <3>1. Behind(i)
      BY <2>1 DEF NoteInv, InTurn
    <3>2. \A m \in Notifier : deliveries[i].by # m
      BY <1>1, <2>1, <3>1 DEF Behind
    <3> QED BY <1>1, <3>1, <3>2 DEF Behind
  <2>4. ASSUME NEW m \in Notifier PROVE Ahead(m)'
    <3>1. CASE m = n
      <4>1. From(n)' = floor
        BY <1>1, <1>8, <1>9 DEF From
      <4>2. \A e \in found : granted[e] # -1 /\ expires[e] > floor
        BY <1>2, <1>3
      <4> QED BY <1>1, <1>5, <1>8, <1>9, <3>1, <4>1, <4>2 DEF Ahead
    <3>2. CASE m # n
      BY <1>9, <2>1, <3>2 DEF Ahead
    <3> QED BY <3>1, <3>2
  <2>5. \A i, j \in DOMAIN deliveries : deliveries[i].about = deliveries[j].about /\ deliveries[i].about # 0 => i = j
    BY <2>1 DEF NoteInv, InTurn
  <2> QED BY <1>1, <2>2, <2>3, <2>4, <2>5 DEF InTurn
<1> QED BY <1>10, <1>11, <1>12, <1>13 DEF NoteInv

\* A pass whose rows and announcements a step leaves alone.
LEMMA OthersKeep ==
    ASSUME NoteInv, NEW m \in Notifier, pass'[m] = pass[m], UNCHANGED <<granted, expires, noteClock>>,
           \A i \in pass[m].rows : i \in DOMAIN deliveries' /\ deliveries'[i] = deliveries[i],
           \A e \in Exception : Told(e, m) => Told(e, m)', \A e \in Exception : Told(e, 0) => Told(e, 0)'
    PROVE  Holding(m)' /\ Thorough(m)'
<1>1. Holding(m) /\ Thorough(m) /\ pass[m] \in APass
  BY DEF NoteInv, NoteTypeOK
<1>2. Holding(m)'
  BY <1>1 DEF Holding
<1>3. Covered(pass[m].floor) => Covered(pass[m].floor)'
  BY DEF Covered, Long
<1>4. pass[m].found \subseteq Exception
  BY <1>1 DEF APass
<1>5. Thorough(m)'
  BY <1>1, <1>3, <1>4 DEF Thorough, From, Long
<1> QED BY <1>2, <1>5

\* The deliveries of what a pass has found.
AsFresh(x, e, n, now) == [x EXCEPT !.about = e, !.status = "queued", !.due = now, !.since = now, !.by = n]
FreshSet(S, n, now) == {AsFresh(NoRow, e, n, now) : e \in S}

LEMMA FreshIs ==
    ASSUME NEW x \in Delivery, NEW e \in Exception, NEW n \in Notifier, NEW now \in Nat, NEW y, y = AsFresh(x, e, n, now)
    PROVE  y \in Delivery /\ y.about = e /\ y.by = n
BY DEF AsFresh, Delivery

\* One for each of a set of exceptions.
OneEach(new, S, n) ==
    /\ new \in Seq(Delivery)
    /\ \A i \in DOMAIN new : new[i].about \in S /\ new[i].by = n
    /\ \A e \in S : \E i \in DOMAIN new : new[i].about = e
    /\ \A i, j \in DOMAIN new : new[i].about = new[j].about => i = j

LEMMA FreshOnes ==
    ASSUME NEW S \in SUBSET Exception, NEW n \in Notifier, NEW now \in Nat, NEW new, new = SetToSeq(FreshSet(S, n, now))
    PROVE  OneEach(new, S, n) /\ \A i \in DOMAIN new : new[i] \in FreshSet(S, n, now)
<1> DEFINE T == FreshSet(S, n, now)
           f == [e \in S |-> AsFresh(NoRow, e, n, now)]
<1>1. \A e \in S : AsFresh(NoRow, e, n, now) \in Delivery /\ AsFresh(NoRow, e, n, now).about = e /\ AsFresh(NoRow, e, n, now).by = n
  BY NoRowIs, FreshIs
<1>2. IsFiniteSet(S)
  BY NotificationAssumption, FS_Subset
<1>3. f \in Surjection(S, T)
  BY DEF Surjection, FreshSet
<1>4. IsFiniteSet(T)
  <2> HIDE DEF f, T
  <2> QED BY <1>2, <1>3, FS_Surjection
<1>5. \A y \in T : y \in Delivery /\ y.about \in S /\ y.by = n
  BY <1>1 DEF FreshSet
<1>6. \A e \in S : \E y \in T : y.about = e
  BY <1>1 DEF FreshSet
<1>7. \A y, z \in T : y.about = z.about => y = z
  BY <1>1 DEF FreshSet
<1>8. new = SetToSeq(T)
  OBVIOUS
<1> HIDE DEF T, f
<1>9. /\ new \in Seq(T) /\ \A i, j \in DOMAIN new : new[i] = new[j] => i = j
      /\ \A y \in T : \E i \in DOMAIN new : new[i] = y
  BY <1>4, <1>8, AsSequence
<1>10. \A i \in DOMAIN new : new[i] \in T
  BY <1>9
<1>11. new \in Seq(Delivery)
  BY <1>5, <1>9
<1>12. OneEach(new, S, n)
  BY <1>5, <1>6, <1>7, <1>9, <1>10, <1>11 DEF OneEach
<1> QED BY <1>10, <1>12 DEF T

LEMMA RaisesAnnounce == \A n \in Notifier : NoteInv /\ Raise(n) => NoteInv'
<1> SUFFICES ASSUME NEW n \in Notifier, NoteInv, Raise(n) PROVE NoteInv'
  OBVIOUS
<1> DEFINE S == pass[n].found
           new == SetToSeq(FreshSet(S, n, noteClock))
           size == Len(deliveries)
<1>1. /\ NoteTypeOK /\ pass[n] \in APass /\ Holding(n) /\ Thorough(n) /\ pass[n].step = "raise" /\ n # 0
      /\ UNCHANGED <<noteClock, granted, expires, horizon, crossed>>
  BY NotificationAssumption DEF NoteInv, NoteTypeOK, Raise
<1>2. S \in SUBSET Exception /\ noteClock \in Nat
  BY <1>1 DEF APass, NoteTypeOK
<1>3. deliveries' = deliveries \o new
  BY DEF Raise, FreshSet, AsFresh
<1> HIDE DEF S
<1>31. new = SetToSeq(FreshSet(S, n, noteClock))
  OBVIOUS
<1> HIDE DEF new
<1>40. OneEach(new, S, n)
  BY <1>2, <1>31, FreshOnes
<1>4. /\ new \in Seq(Delivery)
      /\ \A i \in DOMAIN new : new[i].about \in S /\ new[i].by = n
      /\ \A e \in S : \E i \in DOMAIN new : new[i].about = e
      /\ \A i, j \in DOMAIN new : new[i].about = new[j].about => i = j
  BY <1>40 DEF OneEach
<1>5. /\ size \in Nat /\ DOMAIN deliveries = 1 .. size /\ Len(new) \in Nat /\ DOMAIN new = 1 .. Len(new)
      /\ deliveries' \in Seq(Delivery) /\ DOMAIN deliveries' = 1 .. size + Len(new)
      /\ \A i \in DOMAIN deliveries : i \in DOMAIN deliveries' /\ deliveries'[i] = deliveries[i]
      /\ \A i \in DOMAIN deliveries' : i \notin DOMAIN deliveries => i - size \in DOMAIN new /\ deliveries'[i] = new[i - size]
      /\ \A k \in DOMAIN new : size + k \in DOMAIN deliveries' /\ deliveries'[size + k] = new[k]
  <2>1. deliveries \in Seq(Delivery)
    BY <1>1 DEF NoteTypeOK
  <2> QED BY <1>3, <1>4, <2>1
<1>6. pass' = [pass EXCEPT ![n] = AsRaised(pass[n])]
  BY <1>1 DEF Raise, AsRaised, NoteTypeOK
<1>7. /\ pass' \in [Notifier -> APass] /\ (\A m \in Notifier \ {n} : pass'[m] = pass[m])
      /\ pass'[n].step = "claim" /\ pass'[n].moment = pass[n].moment /\ pass'[n].floor = pass[n].floor
      /\ pass'[n].found = S /\ pass'[n].todo = pass[n].todo /\ pass'[n].rows = pass[n].rows /\ pass'[n].wrote = pass[n].wrote
      /\ pass'[n].mark = pass[n].mark
  <2> DEFINE y == AsRaised(pass[n])
  <2>1. /\ y \in APass /\ y.step = "claim" /\ y.moment = pass[n].moment /\ y.floor = pass[n].floor /\ y.found = S /\ y.todo = pass[n].todo
        /\ y.rows = pass[n].rows /\ y.wrote = pass[n].wrote /\ y.mark = pass[n].mark
    BY <1>1, PassRaised DEF S
  <2> HIDE DEF y
  <2>2. pass' \in [Notifier -> APass] /\ pass'[n] = y /\ \A m \in Notifier \ {n} : pass'[m] = pass[m]
    BY <1>1, <1>6, <2>1 DEF NoteTypeOK, y
  <2> QED BY <2>1, <2>2
<1>8. \A e, m : Told(e, m) => Told(e, m)'
  BY <1>5 DEF Told
<1>9. \A e \in S : Told(e, n)'
  <2>1. ASSUME NEW e \in S PROVE Told(e, n)'
    <3>1. PICK k \in DOMAIN new : new[k].about = e
      BY <1>4, <2>1
    <3>2. size + k \in DOMAIN deliveries' /\ deliveries'[size + k].about = e /\ deliveries'[size + k].by = n
      BY <1>4, <1>5, <3>1
    <3> HIDE DEF size
    <3> QED BY <3>2 DEF Told
  <2> QED BY <2>1
<1> HIDE DEF size
<1>10. ASSUME NEW m \in Notifier PROVE Holding(m)' /\ Thorough(m)'
  <2>1. CASE m # n
    <3>1. \A i \in pass[m].rows : i \in DOMAIN deliveries' /\ deliveries'[i] = deliveries[i]
      BY <1>5 DEF NoteInv, Holding
    <3> QED BY <1>1, <1>7, <1>8, <2>1, <3>1, OthersKeep
  <2>2. CASE m = n
    <3>1. Holding(n)'
      BY <1>1, <1>5, <1>7 DEF Holding
    <3>2. Covered(pass[n].floor)'
      BY <1>1, <1>7, <1>8 DEF Thorough, Covered, Long
    <3>3. From(n)' = From(n) /\ \A e \in Exception : Long(e)' <=> Long(e)
      BY <1>1, <1>7 DEF From, Long
    <3>4. Thorough(n)'
      BY <1>1, <1>7, <1>9, <3>2, <3>3 DEF Thorough, S
    <3> QED BY <2>2, <3>1, <3>4
  <2> QED BY <2>1, <2>2
<1>11. HeldByOne' /\ Covered(horizon)' /\ NoteTypeOK'
  <2>1. HeldByOne'
    BY <1>7 DEF NoteInv, HeldByOne
  <2>2. Covered(horizon)'
    BY <1>1, <1>8 DEF NoteInv, Covered, Long
  <2>3. NoteTypeOK'
    BY <1>1, <1>5, <1>7 DEF NoteTypeOK
  <2> QED BY <2>1, <2>2, <2>3
<1>12. InTurn'
  <2> SUFFICES ASSUME ~crossed' PROVE InTurn'
    BY DEF InTurn
  <2>1. /\ \A m \in Notifier \ {n} : pass[m].step = "none"
        /\ \A i, j \in DOMAIN deliveries : deliveries[i].about = deliveries[j].about /\ deliveries[i].about # 0 => i = j
        /\ \A i \in DOMAIN deliveries : Behind(i)
        /\ Ahead(n)
    BY <1>1 DEF NoteInv, InTurn
  <2>2. ASSUME NEW i \in DOMAIN deliveries, deliveries[i].about \in S PROVE FALSE
    <3> DEFINE e == deliveries[i].about
    <3>1. deliveries[i] \in Delivery /\ e # 0 /\ e \in Exception
      BY <1>1, <1>2, <2>2, NotificationAssumption DEF NoteTypeOK, S
    <3>2. deliveries[i].by = 0
      <4>1. \A m \in Notifier : deliveries[i].by # m
        BY <1>1, <2>1 DEF Behind
      <4> QED BY <3>1, <4>1 DEF Delivery
    <3>3. horizon # -1 /\ expires[e] <= horizon
      BY <2>1, <3>1, <3>2 DEF Behind
    <3>4. expires[e] > From(n) /\ From(n) = horizon
      BY <1>1, <2>1, <2>2, <3>3 DEF Ahead, From, S
    <3>5. expires[e] \in Nat /\ horizon \in Int
      BY <1>1, <3>1 DEF NoteTypeOK
    <3> HIDE DEF e
    <3> QED BY <3>3, <3>4, <3>5
  <2>3. \A m, k \in Notifier : m # k => pass'[m].step = "none" \/ pass'[k].step = "none"
    BY <1>7, <2>1
  <2>4. ASSUME NEW i \in DOMAIN deliveries', NEW j \in DOMAIN deliveries', deliveries'[i].about = deliveries'[j].about, deliveries'[i].about # 0
        PROVE  i = j
    <3>1. CASE i \in DOMAIN deliveries /\ j \in DOMAIN deliveries
      BY <1>5, <2>1, <2>4, <3>1
    <3>2. CASE i \notin DOMAIN deliveries /\ j \notin DOMAIN deliveries
      <4>1. i - size = j - size
        BY <1>4, <1>5, <2>4, <3>2
      <4> QED BY <1>5, <4>1 DEF size
    <3>3. CASE i \in DOMAIN deliveries /\ j \notin DOMAIN deliveries
      BY <1>4, <1>5, <2>2, <2>4, <3>3
    <3>4. CASE i \notin DOMAIN deliveries /\ j \in DOMAIN deliveries
      BY <1>4, <1>5, <2>2, <2>4, <3>4
    <3> QED BY <3>1, <3>2, <3>3, <3>4
  <2>5. ASSUME NEW i \in DOMAIN deliveries' PROVE Behind(i)'
    <3>1. CASE i \in DOMAIN deliveries
      <4>1. deliveries'[i] = deliveries[i] /\ Behind(i)
        BY <1>5, <2>1, <3>1
      <4>2. \A m \in Notifier : deliveries[i].by # m
        BY <1>1, <2>1, <4>1 DEF Behind
      <4> QED BY <1>1, <4>1, <4>2 DEF Behind
    <3>2. CASE i \notin DOMAIN deliveries
      <4>1. deliveries'[i].about \in S /\ deliveries'[i].by = n
        BY <1>4, <1>5, <3>2
      <4> QED BY <1>1, <1>7, <4>1 DEF Behind
    <3> QED BY <3>1, <3>2
  <2>6. ASSUME NEW m \in Notifier PROVE Ahead(m)'
    <3>1. CASE m = n
      BY <1>1, <1>7, <2>1, <3>1 DEF Ahead, From, S
    <3>2. CASE m # n
      BY <1>7, <2>1, <3>2 DEF Ahead
    <3> QED BY <3>1, <3>2
  <2> QED BY <2>3, <2>4, <2>5, <2>6 DEF InTurn
<1> QED BY <1>10, <1>11, <1>12 DEF NoteInv

\* A pass's end, with what becomes of every row.
LEMMA PassEnds ==
    ASSUME NoteInv, NEW n \in Notifier, pass[n].step # "none", pass' = [pass EXCEPT ![n] = Resting],
           UNCHANGED <<noteClock, granted, expires, crossed>>,
           deliveries' \in Seq(Delivery), DOMAIN deliveries' = DOMAIN deliveries,
           horizon' \in Int, horizon' >= -1, horizon' <= noteClock + Window, Covered(horizon)',
           \A i \in DOMAIN deliveries : /\ deliveries[i].by # n /\ i \notin pass[n].rows => deliveries'[i] = deliveries[i]
                                        /\ deliveries[i].by = 0 => deliveries'[i].by = 0 /\ deliveries'[i].about = deliveries[i].about,
           ~crossed => \A i \in DOMAIN deliveries : /\ deliveries'[i].about \in {0, deliveries[i].about} /\ deliveries'[i].by = 0
                                                    /\ deliveries'[i].about # 0 => 
                                                         /\ horizon' # -1 /\ granted[deliveries[i].about] # -1
                                                         /\ expires[deliveries[i].about] <= horizon'
    PROVE  NoteInv'
<1>1. /\ pass' \in [Notifier -> APass] /\ pass'[n] = Resting /\ (\A m \in Notifier \ {n} : pass'[m] = pass[m]) /\ NoteTypeOK
      /\ n # 0
  BY RestingIs, NotificationAssumption DEF NoteInv, NoteTypeOK
<1>2. NoteTypeOK'
  BY <1>1 DEF NoteTypeOK
<1>3. HeldByOne'
  BY <1>1, RestingIs DEF NoteInv, HeldByOne
<1>4. ASSUME NEW m \in Notifier PROVE Holding(m)' /\ Thorough(m)'
  <2>1. CASE m = n
    BY <1>1, <2>1, RestingIs DEF Holding, Thorough
  <2>2. CASE m # n
    <3>1. \A i \in pass[m].rows : i \in DOMAIN deliveries' /\ deliveries'[i] = deliveries[i]
      <4>1. ASSUME NEW i \in pass[m].rows PROVE i \in DOMAIN deliveries /\ deliveries[i].by # n /\ i \notin pass[n].rows
        BY <1>1, <2>2 DEF NoteInv, Holding, HeldByOne
      <4> QED BY <4>1
    <3>2. ASSUME NEW e \in Exception, Told(e, 0) PROVE Told(e, 0)'
      BY <3>2 DEF Told
    <3>3. ASSUME NEW e \in Exception, Told(e, m) PROVE Told(e, m)'
      <4>1. PICK i \in DOMAIN deliveries : deliveries[i].about = e /\ deliveries[i].by = m
        BY <3>3 DEF Told
      <4>2. i \notin pass[n].rows
        <5>1. m # 0
          BY NotificationAssumption
        <5> QED BY <2>2, <4>1, <5>1 DEF NoteInv, Holding
      <4>3. deliveries'[i] = deliveries[i]
        BY <2>2, <4>1, <4>2
      <4> QED BY <4>1, <4>3 DEF Told
    <3> QED BY <1>1, <2>2, <3>1, <3>2, <3>3, OthersKeep
  <2> QED BY <2>1, <2>2
<1>5. InTurn'
  <2> SUFFICES ASSUME ~crossed' PROVE InTurn'
    BY DEF InTurn
  <2>1. /\ \A m \in Notifier \ {n} : pass[m].step = "none"
        /\ \A i, j \in DOMAIN deliveries : deliveries[i].about = deliveries[j].about /\ deliveries[i].about # 0 => i = j
    BY DEF NoteInv, InTurn
  <2>2. \A m \in Notifier : pass'[m].step = "none"
    BY <1>1, <2>1, RestingIs
  <2>3. ASSUME NEW i \in DOMAIN deliveries', NEW j \in DOMAIN deliveries', deliveries'[i].about = deliveries'[j].about, deliveries'[i].about # 0
        PROVE  i = j
    <3>1. deliveries'[i].about = deliveries[i].about /\ deliveries'[j].about = deliveries[j].about
      BY <2>3
    <3> QED BY <2>1, <2>3, <3>1
  <2>4. ASSUME NEW i \in DOMAIN deliveries' PROVE Behind(i)'
    <3>1. \A m \in Notifier : deliveries'[i].by # m
      BY NotificationAssumption
    <3>2. deliveries'[i].about # 0 => horizon' # -1 /\ granted[deliveries'[i].about] # -1 /\ expires[deliveries'[i].about] <= horizon'
      <4>1. ASSUME deliveries'[i].about # 0 PROVE deliveries'[i].about = deliveries[i].about
        BY <4>1
      <4> QED BY <4>1
    <3> QED BY <3>1, <3>2 DEF Behind
  <2> QED BY <2>2, <2>3, <2>4 DEF InTurn, Ahead
<1> QED BY <1>2, <1>3, <1>4, <1>5 DEF NoteInv

\* What a pass commits of a row: what it wrote, and its own becomes everybody's.
Freely(x) == [x EXCEPT !.by = 0]

LEMMA FreelyIs == \A x \in Delivery : Freely(x) \in Delivery /\ Freely(x).by = 0 /\ Freely(x).about = x.about
BY DEF Freely, Delivery

LEMMA CommittedRow ==
    ASSUME NoteInv, NEW n \in Notifier, CommitPass(n), NEW i \in DOMAIN deliveries
    PROVE  /\ deliveries'[i] \in Delivery /\ deliveries'[i].about = deliveries[i].about
           /\ deliveries'[i].by = IF deliveries[i].by = n THEN 0 ELSE deliveries[i].by
           /\ deliveries[i].by # n /\ i \notin pass[n].rows => deliveries'[i] = deliveries[i]
<1>1. NoteTypeOK /\ Holding(n) /\ deliveries[i] \in Delivery /\ pass[n] \in APass
  BY DEF NoteInv, NoteTypeOK
<1> DEFINE x == IF i \in DOMAIN pass[n].wrote THEN pass[n].wrote[i] ELSE deliveries[i]
<1>2. deliveries'[i] = IF x.by = n THEN Freely(x) ELSE x
  BY DEF CommitPass, Freely
<1>3. x \in Delivery /\ x.about = deliveries[i].about /\ x.by = deliveries[i].by /\ (i \notin pass[n].rows => x = deliveries[i])
  <2>1. CASE i \in DOMAIN pass[n].wrote
    <3>1. pass[n].wrote[i] \in Delivery
      BY <1>1, <2>1 DEF APass, Writes
    <3> QED BY <1>1, <2>1, <3>1 DEF Holding
  <2>2. CASE i \notin DOMAIN pass[n].wrote
    BY <1>1, <2>2
  <2> QED BY <2>1, <2>2
<1> HIDE DEF x
<1>4. Freely(x) \in Delivery /\ Freely(x).by = 0 /\ Freely(x).about = x.about
  BY <1>3, FreelyIs
<1> QED BY <1>2, <1>3, <1>4

\* A sequence of deliveries rewritten in place.
LEMMA RowsStay ==
    ASSUME NoteTypeOK, NEW d, DOMAIN d = DOMAIN deliveries, d = [i \in DOMAIN d |-> d[i]], \A i \in DOMAIN d : d[i] \in Delivery
    PROVE  d \in Seq(Delivery)
<1>1. DOMAIN d = 1 .. Len(deliveries) /\ Len(deliveries) \in Nat
  BY DEF NoteTypeOK
<1> QED BY <1>1

LEMMA CommitsAnnounce == \A n \in Notifier : NoteInv /\ CommitPass(n) => NoteInv'
<1> SUFFICES ASSUME NEW n \in Notifier, NoteInv, CommitPass(n) PROVE NoteInv'
  OBVIOUS
<1>1. /\ NoteTypeOK /\ Covered(horizon) /\ Holding(n) /\ Thorough(n) /\ pass[n] \in APass /\ pass[n].step = "send" /\ n # 0
      /\ pass' = [pass EXCEPT ![n] = Resting] /\ UNCHANGED <<noteClock, granted, expires, crossed>>
      /\ horizon' = IF pass[n].mark = -1 THEN horizon ELSE pass[n].mark
  BY NotificationAssumption DEF NoteInv, NoteTypeOK, CommitPass
<1>2. DOMAIN deliveries' = DOMAIN deliveries /\ deliveries' = [i \in DOMAIN deliveries' |-> deliveries'[i]]
  BY DEF CommitPass
<1>3. \A i \in DOMAIN deliveries :
        /\ deliveries'[i] \in Delivery /\ deliveries'[i].about = deliveries[i].about
        /\ deliveries'[i].by = IF deliveries[i].by = n THEN 0 ELSE deliveries[i].by
        /\ deliveries[i].by # n /\ i \notin pass[n].rows => deliveries'[i] = deliveries[i]
  BY CommittedRow
<1>4. deliveries' \in Seq(Delivery)
  <2> DEFINE d == deliveries'
  <2>1. DOMAIN d = DOMAIN deliveries /\ d = [i \in DOMAIN d |-> d[i]] /\ \A i \in DOMAIN d : d[i] \in Delivery
    BY <1>2, <1>3
  <2> HIDE DEF d
  <2>2. d \in Seq(Delivery)
    BY <1>1, <2>1, RowsStay
  <2> QED BY <2>2 DEF d
<1>5. /\ noteClock \in Nat /\ Window \in Nat /\ horizon \in Int /\ pass[n].mark \in Int /\ pass[n].moment \in Nat /\ pass[n].floor \in Int
      /\ pass[n].moment <= noteClock /\ pass[n].mark <= pass[n].moment + Window /\ pass[n].mark >= -1 /\ pass[n].floor >= -1
      /\ horizon >= -1 /\ horizon <= noteClock + Window
  BY <1>1, NotificationAssumption DEF NoteTypeOK, APass, Thorough
<1>6. horizon' \in Int /\ horizon' >= -1 /\ horizon' <= noteClock + Window
  BY <1>1, <1>5
<1>7. ASSUME NEW e \in Exception, Long(e), expires[e] > noteClock, expires[e] <= horizon' PROVE Told(e, 0)'
  <2>1. expires[e] \in Nat
    BY <1>1 DEF NoteTypeOK
  <2>2. ASSUME Told(e, 0) \/ Told(e, n) PROVE Told(e, 0)'
    BY <1>2, <1>3, <2>2 DEF Told
  <2>3. CASE pass[n].mark = -1
    BY <1>1, <1>7, <2>2, <2>3 DEF Covered
  <2>4. CASE pass[n].mark # -1
    <3>1. CASE expires[e] <= pass[n].floor
      BY <1>1, <1>7, <2>2, <3>1 DEF Thorough, Covered
    <3>2. CASE ~(expires[e] <= pass[n].floor)
      <4>1. expires[e] > From(n) /\ expires[e] <= pass[n].moment + Window
        BY <1>1, <1>5, <1>7, <2>1, <2>4, <3>2 DEF From
      <4>2. e \in pass[n].found
        BY <1>1, <1>7, <4>1 DEF Thorough
      <4> QED BY <1>1, <2>2, <4>2 DEF Thorough
    <3> QED BY <3>1, <3>2
  <2> QED BY <2>3, <2>4
<1>8. Covered(horizon)'
  BY <1>1, <1>7 DEF Covered, Long
<1>9. ASSUME ~crossed, NEW i \in DOMAIN deliveries
      PROVE  /\ deliveries'[i].by = 0
             /\ deliveries'[i].about # 0 =>
                  horizon' # -1 /\ granted[deliveries[i].about] # -1 /\ expires[deliveries[i].about] <= horizon'
  <2>1. Behind(i) /\ Ahead(n) /\ \A m \in Notifier \ {n} : pass[m].step = "none"
    BY <1>1, <1>9 DEF NoteInv, InTurn
  <2>2. deliveries[i].by \in {0, n}
    <3>1. deliveries[i] \in Delivery
      BY <1>1 DEF NoteTypeOK
    <3>2. deliveries[i].by \in Notifier \cup {0}
      BY <3>1 DEF Delivery
    <3> QED BY <2>1, <3>2 DEF Behind
  <2>3. CASE deliveries[i].by = n
    <3>1. deliveries[i].about \in pass[n].found
      BY <2>1, <2>3 DEF Behind
    <3> QED BY <1>1, <1>3, <2>1, <2>3, <3>1 DEF Ahead
  <2>4. CASE deliveries[i].by = 0
    <3>1. ASSUME deliveries[i].about # 0 PROVE horizon' # -1 /\ expires[deliveries[i].about] <= horizon'
      <4>1. horizon # -1 /\ expires[deliveries[i].about] <= horizon /\ deliveries[i].about \in Exception
        <5>0. deliveries[i] \in Delivery
          BY <1>1 DEF NoteTypeOK
        <5>1. deliveries[i].about \in Exception \cup {0}
          BY <5>0 DEF Delivery
        <5> QED BY <2>1, <2>4, <3>1, <5>1 DEF Behind
      <4>2. CASE pass[n].mark = -1
        BY <1>1, <4>1, <4>2
      <4>3. CASE pass[n].mark # -1
        <5>1. PICK e \in pass[n].found : expires[e] > From(n) /\ expires[e] <= pass[n].mark
          BY <1>1, <2>1, <4>3 DEF Ahead
        <5>2. From(n) = horizon
          BY <1>1, <2>1, <4>1 DEF Ahead, From
        <5>3. expires[e] \in Nat /\ expires[deliveries[i].about] \in Nat
          BY <1>1, <4>1 DEF NoteTypeOK, APass
        <5> QED BY <1>1, <1>5, <4>1, <4>3, <5>1, <5>2, <5>3
      <4> QED BY <4>2, <4>3
    <3> QED BY <1>1, <1>3, <2>1, <2>4, <3>1 DEF Behind
  <2> QED BY <2>2, <2>3, <2>4
<1>10. \A i \in DOMAIN deliveries : /\ deliveries[i].by # n /\ i \notin pass[n].rows => deliveries'[i] = deliveries[i]
                                    /\ deliveries[i].by = 0 => deliveries'[i].by = 0 /\ deliveries'[i].about = deliveries[i].about
  BY <1>1, <1>3
<1>11. ~crossed => \A i \in DOMAIN deliveries : /\ deliveries'[i].about \in {0, deliveries[i].about} /\ deliveries'[i].by = 0
                                                /\ deliveries'[i].about # 0 =>
                                                     /\ horizon' # -1 /\ granted[deliveries[i].about] # -1
                                                     /\ expires[deliveries[i].about] <= horizon'
  BY <1>3, <1>9
<1> QED BY <1>1, <1>2, <1>4, <1>6, <1>8, <1>10, <1>11, PassEnds

LEMMA UndosAnnounce == \A n \in Notifier : NoteInv /\ UndoPass(n) => NoteInv'
<1> SUFFICES ASSUME NEW n \in Notifier, NoteInv, UndoPass(n) PROVE NoteInv'
  OBVIOUS
<1>1. /\ NoteTypeOK /\ Covered(horizon) /\ Holding(n) /\ pass[n].step # "none" /\ n # 0
      /\ pass' = [pass EXCEPT ![n] = Resting] /\ UNCHANGED <<noteClock, granted, expires, crossed, horizon>>
      /\ deliveries' = [i \in DOMAIN deliveries |-> IF deliveries[i].by = n THEN NoRow ELSE deliveries[i]]
  BY NotificationAssumption DEF NoteInv, NoteTypeOK, UndoPass
<1>2. DOMAIN deliveries' = DOMAIN deliveries /\ \A i \in DOMAIN deliveries : deliveries'[i] = IF deliveries[i].by = n THEN NoRow ELSE deliveries[i]
  BY <1>1
<1>3. \A i \in DOMAIN deliveries : deliveries[i] \in Delivery
  BY <1>1 DEF NoteTypeOK
<1>4. deliveries' \in Seq(Delivery)
  <2> DEFINE d == deliveries'
  <2>1. DOMAIN d = DOMAIN deliveries /\ d = [i \in DOMAIN d |-> d[i]] /\ \A i \in DOMAIN d : d[i] \in Delivery
    BY <1>1, <1>2, <1>3, NoRowIs
  <2> HIDE DEF d
  <2>2. d \in Seq(Delivery)
    BY <1>1, <2>1, RowsStay
  <2> QED BY <2>2 DEF d
<1>5. Covered(horizon)'
  BY <1>1, <1>2 DEF Covered, Long, Told
<1>6. \A i \in DOMAIN deliveries : /\ deliveries[i].by # n /\ i \notin pass[n].rows => deliveries'[i] = deliveries[i]
                                   /\ deliveries[i].by = 0 => deliveries'[i].by = 0 /\ deliveries'[i].about = deliveries[i].about
  BY <1>1, <1>2
<1>7. ASSUME ~crossed, NEW i \in DOMAIN deliveries
      PROVE  /\ deliveries'[i].about \in {0, deliveries[i].about} /\ deliveries'[i].by = 0
             /\ deliveries'[i].about # 0 =>
                  horizon' # -1 /\ granted[deliveries[i].about] # -1 /\ expires[deliveries[i].about] <= horizon'
  <2>1. Behind(i) /\ \A m \in Notifier \ {n} : pass[m].step = "none"
    BY <1>1, <1>7 DEF NoteInv, InTurn
  <2>2. deliveries[i].by \in {0, n}
    <3>1. deliveries[i].by \in Notifier \cup {0}
      BY <1>3 DEF Delivery
    <3> QED BY <2>1, <3>1 DEF Behind
  <2>3. CASE deliveries[i].by = n
    BY <1>2, <2>3, NoRowIs
  <2>4. CASE deliveries[i].by = 0
    BY <1>1, <1>2, <2>1, <2>4 DEF Behind
  <2> QED BY <2>2, <2>3, <2>4
<1>8. horizon' \in Int /\ horizon' >= -1 /\ horizon' <= noteClock + Window
  BY <1>1 DEF NoteTypeOK
<1>9. ~crossed => \A i \in DOMAIN deliveries : /\ deliveries'[i].about \in {0, deliveries[i].about} /\ deliveries'[i].by = 0
                                               /\ deliveries'[i].about # 0 =>
                                                     /\ horizon' # -1 /\ granted[deliveries[i].about] # -1
                                                     /\ expires[deliveries[i].about] <= horizon'
  BY <1>7
<1> QED BY <1>1, <1>2, <1>4, <1>5, <1>6, <1>8, <1>9, PassEnds

\* A person puts a delivery back.
AsRequeued(x, now) == [x EXCEPT !.status = "queued", !.attempts = 0, !.due = now, !.since = now]

LEMMA RequeuedIs ==
    ASSUME NEW x \in Delivery, NEW now \in Nat, NEW y, y = AsRequeued(x, now)
    PROVE  y \in Delivery /\ y.about = x.about /\ y.by = x.by
BY DEF AsRequeued, Delivery

LEMMA RequeuesAnnounce == \A i \in DOMAIN deliveries : NoteInv /\ Requeue(i) => NoteInv'
<1> SUFFICES ASSUME NEW i \in DOMAIN deliveries, NoteInv, Requeue(i) PROVE NoteInv'
  OBVIOUS
<1> DEFINE y == AsRequeued(deliveries[i], noteClock)
<1>1. /\ NoteTypeOK /\ UNCHANGED <<noteClock, granted, expires, horizon, pass, crossed>> /\ \A n \in Notifier : i \notin pass[n].rows
      /\ deliveries[i] \in Delivery /\ noteClock \in Nat
  BY DEF NoteInv, NoteTypeOK, Requeue
<1>2. deliveries' = [deliveries EXCEPT ![i] = y]
  BY DEF Requeue, AsRequeued
<1>3. y \in Delivery /\ y.about = deliveries[i].about /\ y.by = deliveries[i].by
  BY <1>1, RequeuedIs
<1> HIDE DEF y
<1>4. /\ deliveries' \in Seq(Delivery) /\ DOMAIN deliveries' = DOMAIN deliveries
      /\ \A j \in DOMAIN deliveries : /\ deliveries'[j].about = deliveries[j].about /\ deliveries'[j].by = deliveries[j].by
                                      /\ j # i => deliveries'[j] = deliveries[j]
  BY <1>1, <1>2, <1>3 DEF NoteTypeOK
<1>5. \A e, n : Told(e, n) => Told(e, n)'
  BY <1>4 DEF Told
<1>6. ASSUME NEW m \in Notifier PROVE Holding(m)' /\ Thorough(m)'
  <2>1. \A j \in pass[m].rows : j \in DOMAIN deliveries' /\ deliveries'[j] = deliveries[j]
    BY <1>1, <1>4 DEF NoteInv, Holding
  <2> QED BY <1>1, <1>5, <2>1, OthersKeep
<1>7. NoteTypeOK' /\ HeldByOne' /\ Covered(horizon)'
  <2>1. NoteTypeOK' /\ HeldByOne'
    BY <1>1, <1>4 DEF NoteInv, NoteTypeOK, HeldByOne
  <2>2. Covered(horizon)'
    BY <1>1, <1>5 DEF NoteInv, Covered, Long
  <2> QED BY <2>1, <2>2
<1>8. \A j \in DOMAIN deliveries : Behind(j) => Behind(j)'
  BY <1>1, <1>4 DEF Behind
<1>9. \A m \in Notifier : Ahead(m) => Ahead(m)'
  BY <1>1 DEF Ahead, From
<1>10. InTurn'
  BY <1>1, <1>4, <1>8, <1>9 DEF NoteInv, InTurn
<1> QED BY <1>6, <1>7, <1>10 DEF NoteInv

\* Time passes; an exception is recorded.
LEMMA GrantsAnnounce == NoteInv /\ (NoteTick \/ \E e \in Exception : Grant(e)) => NoteInv'
<1> SUFFICES ASSUME NoteInv, NoteTick \/ \E e \in Exception : Grant(e) PROVE NoteInv'
  OBVIOUS
<1>1. /\ NoteTypeOK /\ UNCHANGED <<horizon, deliveries, pass, crossed>> /\ noteClock \in Nat /\ noteClock' \in Nat /\ noteClock <= noteClock'
      /\ horizon \in Int /\ Window \in Nat
  BY NotificationAssumption DEF NoteInv, NoteTypeOK, NoteTick, Grant
<1>2. /\ granted' \in [Exception -> Int] /\ expires' \in [Exception -> Nat]
      /\ \A e \in Exception : granted'[e] >= -1 /\ granted'[e] <= noteClock'
      /\ \A e \in Exception : granted[e] # -1 => granted'[e] = granted[e] /\ expires'[e] = expires[e]
      /\ \A e \in Exception : granted[e] = -1 /\ granted'[e] # -1 =>
            granted'[e] = noteClock /\ noteClock' = noteClock
  <2>1. CASE NoteTick
    BY <1>1, <2>1 DEF NoteTick, NoteTypeOK
  <2>2. ASSUME NEW e \in Exception, Grant(e)
        PROVE  /\ granted' \in [Exception -> Int] /\ expires' \in [Exception -> Nat]
               /\ \A f \in Exception : granted'[f] >= -1 /\ granted'[f] <= noteClock'
               /\ \A f \in Exception : granted[f] # -1 => granted'[f] = granted[f] /\ expires'[f] = expires[f]
               /\ \A f \in Exception : granted[f] = -1 /\ granted'[f] # -1 => granted'[f] = noteClock /\ noteClock' = noteClock
    <3>1. PICK end \in noteClock + 1 .. MaxNoteTime + Window : expires' = [expires EXCEPT ![e] = end]
      BY <2>2 DEF Grant
    <3>2. end \in Nat
      BY <1>1, <3>1
    <3>3. granted' = [granted EXCEPT ![e] = noteClock] /\ granted[e] = -1 /\ noteClock' = noteClock
      BY <2>2 DEF Grant
    <3>4. granted \in [Exception -> Int] /\ expires \in [Exception -> Nat] /\ noteClock \in Int /\ noteClock >= -1 /\ noteClock <= noteClock
          /\ \A f \in Exception : granted[f] >= -1 /\ granted[f] <= noteClock
      BY <1>1 DEF NoteTypeOK
    <3> QED BY <3>1, <3>2, <3>3, <3>4
  <2> QED BY <2>1, <2>2
<1>3. ASSUME NEW e \in Exception, Long(e)', NEW date \in Int, date <= noteClock + Window, expires'[e] <= date
      PROVE  Long(e) /\ granted[e] # -1 /\ expires'[e] = expires[e]
  <2>1. granted'[e] # -1 /\ expires'[e] > granted'[e] + Window /\ expires'[e] \in Nat /\ granted'[e] \in Int
    BY <1>2, <1>3 DEF Long
  <2>2. granted[e] # -1
    BY <1>1, <1>2, <1>3, <2>1
  <2> QED BY <1>2, <2>1, <2>2 DEF Long
<1>4. ASSUME NEW date \in Int, date <= noteClock + Window, Covered(date),
             NEW e \in Exception, Long(e)', expires'[e] > noteClock', expires'[e] <= date
      PROVE  Told(e, 0)'
  <2>1. Long(e) /\ expires'[e] = expires[e]
    BY <1>3, <1>4
  <2>2. expires[e] > noteClock
    <3>1. expires[e] \in Nat
      BY <1>1 DEF NoteTypeOK
    <3> QED BY <1>1, <1>4, <2>1, <3>1
  <2>3. Told(e, 0)
    BY <1>4, <2>1, <2>2 DEF Covered
  <2> QED BY <1>1, <2>3 DEF Told
<1>5. NoteTypeOK' /\ HeldByOne' /\ Covered(horizon)'
  <2>1. NoteTypeOK'
    <3>1. /\ horizon' = horizon /\ horizon >= -1 /\ horizon <= noteClock + Window /\ crossed' \in BOOLEAN /\ deliveries' \in Seq(Delivery)
          /\ pass' \in [Notifier -> APass]
      BY <1>1 DEF NoteTypeOK
    <3>2. horizon' \in Int /\ horizon' >= -1 /\ horizon' <= noteClock' + Window
      <4>1. \A h, a, b, w \in Int : h <= a + w /\ a <= b => h <= b + w
        OBVIOUS
      <4>2. horizon \in Int /\ noteClock \in Int /\ noteClock' \in Int /\ Window \in Int /\ noteClock <= noteClock'
        BY <1>1
      <4>3. horizon <= noteClock' + Window
        BY <3>1, <4>1, <4>2
      <4> QED BY <3>1, <4>2, <4>3
    <3> QED BY <1>1, <1>2, <3>1, <3>2 DEF NoteTypeOK
  <2>2. HeldByOne'
    BY <1>1 DEF NoteInv, HeldByOne
  <2>3. horizon <= noteClock + Window /\ Covered(horizon)
    BY <1>1 DEF NoteInv, NoteTypeOK
  <2>4. Covered(horizon)'
    BY <1>1, <1>4, <2>3 DEF Covered
  <2> QED BY <2>1, <2>2, <2>4
<1>6. ASSUME NEW m \in Notifier PROVE Holding(m)' /\ Thorough(m)'
  <2>1. Holding(m)'
    BY <1>1 DEF NoteInv, Holding
  <2>2. ASSUME pass[m].step # "none" PROVE Thorough(m)'
    <3>1. /\ pass[m].moment \in Nat /\ pass[m].floor \in Int /\ pass[m].moment <= noteClock /\ Thorough(m) /\ Covered(pass[m].floor)
          /\ pass[m].floor <= noteClock + Window
          /\ pass[m] \in APass
      BY <1>1, <2>2 DEF NoteInv, NoteTypeOK, APass, Thorough
    <3>2. pass[m].moment + Window <= noteClock + Window /\ pass[m].moment + Window \in Int
      BY <1>1, <3>1
    <3>3. From(m)' = From(m)
      BY <1>1 DEF From
    <3>4. ASSUME NEW e \in Exception, Long(e)', expires'[e] > From(m)', expires'[e] <= pass[m].moment + Window PROVE e \in pass[m].found
      <4>1. Long(e) /\ expires'[e] = expires[e]
        BY <1>3, <3>2, <3>4
      <4> QED BY <2>2, <3>1, <3>3, <3>4, <4>1 DEF Thorough
    <3>5. ASSUME NEW e \in Exception, Long(e)', expires'[e] > noteClock', expires'[e] <= pass[m].floor PROVE Told(e, 0)'
      BY <1>4, <3>1, <3>5
    <3>6. Covered(pass[m].floor)'
      BY <1>1, <3>5 DEF Covered
    <3>7. pass[m].step # "raise" => \A e \in pass[m].found : Told(e, m)'
      BY <1>1, <2>2, <3>1 DEF Thorough, Told
    <3> QED BY <1>1, <3>1, <3>4, <3>6, <3>7 DEF Thorough
  <2>3. ASSUME pass[m].step = "none" PROVE Thorough(m)'
    BY <1>1, <2>3 DEF Thorough
  <2> QED BY <2>1, <2>2, <2>3
<1>7. \A j \in DOMAIN deliveries : Behind(j) => Behind(j)'
  <2>1. ASSUME NEW j \in DOMAIN deliveries, Behind(j) PROVE Behind(j)'
    <3>1. deliveries[j] \in Delivery
      BY <1>1 DEF NoteTypeOK
    <3>2. deliveries[j].about \in Exception \cup {0}
      BY <3>1 DEF Delivery
    <3> QED BY <1>1, <1>2, <2>1, <3>2 DEF Behind
  <2> QED BY <2>1
<1>8. \A m \in Notifier : Ahead(m) => Ahead(m)'
  <2>1. ASSUME NEW m \in Notifier, Ahead(m) PROVE Ahead(m)'
    <3>1. pass[m].found \subseteq Exception
      BY <1>1 DEF NoteTypeOK, APass
    <3> QED BY <1>1, <1>2, <2>1, <3>1 DEF Ahead, From
  <2> QED BY <2>1
<1>9. InTurn'
  BY <1>1, <1>7, <1>8 DEF NoteInv, InTurn
<1> QED BY <1>5, <1>6, <1>9 DEF NoteInv

\* The inductive invariant of the announcements.
THEOREM NoteInductive == NoteSpec => []NoteInv
<1>1. NoteInv /\ [NoteNext]_noteVars => NoteInv'
  <2> SUFFICES ASSUME NoteInv, [NoteNext]_noteVars PROVE NoteInv'
    OBVIOUS
  <2>1. CASE UNCHANGED noteVars
    <3>1. UNCHANGED <<noteClock, granted, expires, horizon, deliveries, pass, crossed>>
      BY <2>1 DEF noteVars
    <3>2. NoteTypeOK' /\ HeldByOne' /\ Covered(horizon)'
      BY <3>1 DEF NoteInv, NoteTypeOK, HeldByOne, Covered, Long, Told
    <3>3. \A n \in Notifier : Holding(n)' /\ Thorough(n)'
      BY <3>1 DEF NoteInv, Holding, Thorough, Covered, Long, Told, From
    <3>4. InTurn'
      BY <3>1 DEF NoteInv, InTurn, Behind, Ahead, From
    <3> QED BY <3>2, <3>3, <3>4 DEF NoteInv
  <2>2. CASE NoteNext
    BY <2>2, GrantsAnnounce, ScansAnnounce, RaisesAnnounce, ClaimsHold, SendsHold, CommitsAnnounce, UndosAnnounce, RequeuesAnnounce DEF NoteNext
  <2> QED BY <2>1, <2>2
<1> QED BY <1>1, NoteInitInv, PTL DEF NoteSpec

\* The waits after so many failures, together.
LEMMA WaitedIs ==
    /\ Waited[0] = 0
    /\ \A k \in 1 .. Len(Backoff) : Waited[k] = Waited[k - 1] + Backoff[k]
    /\ \A k \in 0 .. Len(Backoff) : Waited[k] \in Nat
<1> DEFINE N == Len(Backoff)
           Sums(f, m) == f[0] = 0 /\ \A k \in 1 .. m : f[k] = f[k - 1] + Backoff[k]
           W(f) == [k \in 0 .. N |-> IF k = 0 THEN 0 ELSE f[k - 1] + Backoff[k]]
           T == {N - m : m \in {k \in 0 .. N : \E f \in [0 .. k -> Nat] : Sums(f, k)}}
<1>1. N \in Nat /\ Backoff \in Seq(Nat) /\ \A k \in 1 .. N : Backoff[k] \in Nat
  BY NotificationAssumption
<1> HIDE DEF N
<1>2. \E f \in [0 .. 0 -> Nat] : Sums(f, 0)
  <2>1. [k \in 0 .. 0 |-> 0] \in [0 .. 0 -> Nat] /\ Sums([k \in 0 .. 0 |-> 0], 0)
    OBVIOUS
  <2> QED BY <2>1
<1>3. ASSUME NEW m \in 0 .. N, m < N, NEW f \in [0 .. m -> Nat], Sums(f, m)
      PROVE  \E g \in [0 .. m + 1 -> Nat] : Sums(g, m + 1)
  <2> DEFINE g == [k \in 0 .. m + 1 |-> IF k = m + 1 THEN f[m] + Backoff[m + 1] ELSE f[k]]
  <2>1. m \in 0 .. m /\ f[m] \in Nat /\ Backoff[m + 1] \in Nat /\ m + 1 \in 1 .. N
    BY <1>1, <1>3
  <2>2. ASSUME NEW k \in 0 .. m + 1 PROVE g[k] \in Nat
    <3>1. k # m + 1 => k \in 0 .. m
      BY <1>1
    <3> QED BY <2>1, <3>1
  <2>3. g \in [0 .. m + 1 -> Nat]
    BY <2>2
  <2>4. ASSUME NEW k \in 1 .. m + 1 PROVE g[k] = g[k - 1] + Backoff[k]
    <3>1. k \in 0 .. m + 1 /\ k - 1 \in 0 .. m + 1 /\ k - 1 # m + 1 /\ g[k - 1] = f[k - 1]
      BY <1>1
    <3>2. CASE k = m + 1
      BY <1>1, <3>1, <3>2
    <3>3. CASE k # m + 1
      <4>1. k \in 1 .. m
        BY <1>1, <3>3
      <4>2. f[k] = f[k - 1] + Backoff[k]
        BY <1>3, <4>1
      <4> QED BY <3>1, <3>3, <4>2
    <3> QED BY <3>2, <3>3
  <2>5. g[0] = 0
    BY <1>1, <1>3
  <2> HIDE DEF g
  <2> QED BY <2>3, <2>4, <2>5
<1>4. T \in SUBSET Nat /\ T # {}
  <2>1. \A m \in 0 .. N : N - m \in Nat
    BY <1>1
  <2>2. 0 \in 0 .. N
    BY <1>1
  <2> QED BY <1>2, <2>1, <2>2
<1>5. PICK t \in T : \A y \in T : <<y, t>> \notin OpToRel(<, Nat)
  BY <1>4, NatLessThanWellFounded, WFMin
<1>6. \A y \in T : ~(y < t)
  BY <1>4, <1>5 DEF OpToRel
<1>7. PICK m \in 0 .. N : t = N - m /\ \E f \in [0 .. m -> Nat] : Sums(f, m)
  BY <1>5
<1>8. m = N
  <2> SUFFICES ASSUME m # N PROVE FALSE
    OBVIOUS
  <2>1. m < N /\ m + 1 \in 0 .. N /\ N - (m + 1) < N - m
    BY <1>1
  <2>2. \E g \in [0 .. m + 1 -> Nat] : Sums(g, m + 1)
    <3>1. PICK f \in [0 .. m -> Nat] : Sums(f, m)
      BY <1>7
    <3> HIDE DEF Sums
    <3> QED BY <1>3, <2>1, <3>1
  <2>3. N - (m + 1) \in T
    BY <2>1, <2>2
  <2> QED BY <1>6, <1>7, <2>1, <2>3
<1>9. PICK f \in [0 .. N -> Nat] : Sums(f, N)
  BY <1>7, <1>8
<1>10. f = W(f)
  <2>1. ASSUME NEW k \in 0 .. N PROVE f[k] = IF k = 0 THEN 0 ELSE f[k - 1] + Backoff[k]
    <3>1. CASE k = 0
      BY <1>9, <3>1
    <3>2. CASE k # 0
      <4>1. k \in 1 .. N
        BY <1>1, <3>2
      <4> QED BY <1>9, <3>2, <4>1
    <3> QED BY <3>1, <3>2
  <2> QED BY <1>9, <2>1
<1>11. Waited = CHOOSE h : h = W(h)
  BY DEF Waited, N
<1> HIDE DEF W
<1>12. Waited = W(Waited)
  BY <1>10, <1>11
<1>13. ASSUME NEW k \in 0 .. N PROVE Waited[k] = IF k = 0 THEN 0 ELSE Waited[k - 1] + Backoff[k]
  BY <1>12 DEF W
<1>14. ASSUME NEW k \in 1 .. N PROVE Waited[k] = Waited[k - 1] + Backoff[k]
  <2>1. k \in 0 .. N /\ k # 0
    BY <1>1
  <2> QED BY <1>13, <2>1
<1>15. Waited[0] = 0
  <2>1. 0 \in 0 .. N
    BY <1>1
  <2> QED BY <1>13, <2>1
<1>16. \A k \in 0 .. N : Waited[k] \in Nat
  <2> DEFINE B == {k \in 0 .. N : Waited[k] \notin Nat}
  <2> SUFFICES ASSUME B # {} PROVE FALSE
    OBVIOUS
  <2>1. B \in SUBSET Nat
    BY <1>1
  <2>2. PICK k \in B : \A y \in B : <<y, k>> \notin OpToRel(<, Nat)
    BY <2>1, NatLessThanWellFounded, WFMin
  <2>3. k \in 0 .. N /\ Waited[k] \notin Nat /\ \A y \in 0 .. N : y < k => Waited[y] \in Nat
    <3>1. \A y \in B : ~(y < k)
      BY <2>1, <2>2 DEF OpToRel
    <3> QED BY <2>2, <3>1
  <2> HIDE DEF B
  <2>4. CASE k = 0
    <3>1. 0 \in Nat
      OBVIOUS
    <3> QED BY <1>15, <2>3, <2>4, <3>1
  <2>5. CASE k # 0
    <3>1. k \in 1 .. N /\ k - 1 \in 0 .. N /\ k - 1 < k
      BY <1>1, <2>3, <2>5
    <3>2. Waited[k - 1] \in Nat
      BY <2>3, <3>1
    <3>3. Waited[k] = Waited[k - 1] + Backoff[k] /\ Backoff[k] \in Nat
      BY <1>1, <1>14, <3>1
    <3>4. Waited[k] \in Nat
      BY <3>2, <3>3
    <3> QED BY <2>3, <3>4
  <2> QED BY <2>4, <2>5
<1> QED BY <1>14, <1>15, <1>16 DEF N

\* What a delivery has waited: between its attempts, and before it was given up.
Waiting(x) ==
    /\ x.status \in {"queued", "retrying"} => x.attempts < MaxAttempts /\ x.due - x.since >= Waited[x.attempts]
    /\ x.status = "dead" => x.died - x.since >= Waited[MaxAttempts - 1]

\* Every row, as committed and as a pass has written it; and what a pass holds was due.
WaitInv ==
    /\ \A i \in DOMAIN deliveries : Waiting(deliveries[i])
    /\ \A n \in Notifier : /\ \A i \in pass[n].rows : deliveries[i].due <= noteClock
                           /\ \A i \in DOMAIN pass[n].wrote : Waiting(pass[n].wrote[i])

LEMMA ResettledWaits ==
    ASSUME NoteTypeOK
    PROVE  /\ Waiting(NoRow)
           /\ \A x \in Delivery : Waiting(x) => Waiting(Freely(x))
           /\ \A x \in Delivery : Waiting(AsRequeued(x, noteClock))
           /\ \A e \in Exception, n \in Notifier : Waiting(AsFresh(NoRow, e, n, noteClock))
<1>1. noteClock \in Nat /\ noteClock - noteClock = 0 /\ 0 < MaxAttempts /\ Waited[0] = 0
  BY WaitedIs, NotificationAssumption DEF NoteTypeOK
<1>2. Waiting(NoRow)
  BY DEF Waiting, NoRow
<1>3. ASSUME NEW x \in Delivery, Waiting(x) PROVE Waiting(Freely(x))
  <2>1. /\ Freely(x).status = x.status /\ Freely(x).attempts = x.attempts /\ Freely(x).due = x.due
        /\ Freely(x).since = x.since /\ Freely(x).died = x.died
    BY DEF Freely, Delivery
  <2> QED BY <1>3, <2>1 DEF Waiting
<1>4. ASSUME NEW x \in Delivery PROVE Waiting(AsRequeued(x, noteClock))
  <2> DEFINE y == AsRequeued(x, noteClock)
  <2>1. y.status = "queued" /\ y.attempts = 0 /\ y.due = noteClock /\ y.since = noteClock
    BY DEF AsRequeued, Delivery
  <2> HIDE DEF y
  <2>2. Waiting(y)
    BY <1>1, <2>1 DEF Waiting
  <2> QED BY <2>2 DEF y
<1>5. ASSUME NEW e \in Exception, NEW n \in Notifier PROVE Waiting(AsFresh(NoRow, e, n, noteClock))
  <2> DEFINE y == AsFresh(NoRow, e, n, noteClock)
  <2>1. y.status = "queued" /\ y.attempts = 0 /\ y.due = noteClock /\ y.since = noteClock
    BY DEF AsFresh, NoRow
  <2> HIDE DEF y
  <2>2. Waiting(y)
    BY <1>1, <2>1 DEF Waiting
  <2> QED BY <2>2 DEF y
<1> QED BY <1>2, <1>3, <1>4, <1>5

\* A failure adds its wait, and the last one comes after all of them.
LEMMA TriedWaits ==
    ASSUME NoteTypeOK, NEW x \in Delivery, NEW ok \in BOOLEAN, Waiting(x), x.status \in {"queued", "retrying"}, x.due <= noteClock
    PROVE  Waiting(Dispatched(x, ok))
<1> DEFINE a == x.attempts
           tried == [x EXCEPT !.attempts = @ + 1]
<1>1. /\ a \in Nat /\ x.due \in Nat /\ x.since \in Nat /\ noteClock \in Nat
      /\ MaxAttempts \in Nat /\ MaxAttempts <= Len(Backoff) + 1 /\ Len(Backoff) \in Nat /\ Backoff \in Seq(Nat)
  BY NotificationAssumption DEF NoteTypeOK, Delivery
<1>2. a < MaxAttempts /\ x.due - x.since >= Waited[a]
  BY DEF Waiting
<1>3. tried.attempts = a + 1 /\ tried.since = x.since /\ tried \in Delivery
  BY DEF Delivery
<1> HIDE DEF a, tried
<1>4. a \in 0 .. Len(Backoff) /\ Waited[a] \in Nat
  BY <1>1, <1>2, WaitedIs
<1>5. noteClock - x.since >= Waited[a]
  BY <1>1, <1>2, <1>4
<1>6. Dispatched(x, ok) = IF ok THEN [tried EXCEPT !.status = "sent"] ELSE AfterFailure(tried)
  BY DEF Dispatched, tried
<1>7. CASE ok
  <2>1. [tried EXCEPT !.status = "sent"].status = "sent"
    BY <1>3 DEF Delivery
  <2> QED BY <1>6, <1>7, <2>1 DEF Waiting
<1>8. CASE ~ok /\ a + 1 >= MaxAttempts
  <2> DEFINE y == [tried EXCEPT !.status = "dead", !.died = noteClock]
  <2>1. y.status = "dead" /\ y.died = noteClock /\ y.since = x.since
    BY <1>3 DEF Delivery
  <2>2. Dispatched(x, ok) = y
    BY <1>3, <1>6, <1>8 DEF AfterFailure
  <2>3. MaxAttempts - 1 = a
    BY <1>1, <1>2, <1>8
  <2> HIDE DEF y
  <2>4. Waiting(y)
    BY <1>5, <2>1, <2>3 DEF Waiting
  <2> QED BY <2>2, <2>4
<1>9. CASE ~ok /\ ~(a + 1 >= MaxAttempts)
  <2>1. a + 1 \in 1 .. Len(Backoff) /\ a + 1 < MaxAttempts
    BY <1>1, <1>9
  <2>2. Min({a + 1, Len(Backoff)}) = a + 1
    <3>1. a + 1 \in Int /\ Len(Backoff) \in Int /\ a + 1 <= Len(Backoff)
      BY <1>1, <2>1
    <3>2. Min({a + 1, Len(Backoff)}) = IF a + 1 < Len(Backoff) THEN a + 1 ELSE Len(Backoff)
      BY <3>1, LesserIs
    <3> QED BY <3>1, <3>2
  <2> DEFINE wait == Backoff[a + 1]
             y == [tried EXCEPT !.status = "retrying", !.due = noteClock + wait]
  <2>3. y.status = "retrying" /\ y.due = noteClock + wait /\ y.since = x.since /\ y.attempts = a + 1
    BY <1>3 DEF Delivery
  <2>4. Dispatched(x, ok) = y
    BY <1>3, <1>6, <1>9, <2>2 DEF AfterFailure
  <2>5. wait \in Nat /\ Waited[a + 1] = Waited[a] + wait
    <3>1. Waited[a + 1] = Waited[(a + 1) - 1] + Backoff[a + 1] /\ (a + 1) - 1 = a
      BY <1>1, <2>1, WaitedIs
    <3> QED BY <1>1, <2>1, <3>1
  <2> HIDE DEF y, wait
  <2>6. (noteClock + wait) - x.since >= Waited[a] + wait
    BY <1>1, <1>4, <1>5, <2>5
  <2>7. Waiting(y)
    BY <2>1, <2>3, <2>5, <2>6 DEF Waiting
  <2> QED BY <2>4, <2>7
<1> QED BY <1>7, <1>8, <1>9

\* A step of one pass that writes no committed row.
LEMMA OneWaits ==
    ASSUME NoteInv, WaitInv, NEW n \in Notifier, UNCHANGED <<noteClock, deliveries>>, \A m \in Notifier \ {n} : pass'[m] = pass[m],
           \A i \in pass'[n].rows : deliveries[i].due <= noteClock,
           \A i \in DOMAIN pass'[n].wrote : Waiting(pass'[n].wrote[i])
    PROVE  WaitInv'
<1>1. ASSUME NEW m \in Notifier, m # n PROVE pass'[m] = pass[m]
  BY <1>1
<1>2. ASSUME NEW m \in Notifier
      PROVE  /\ \A i \in pass'[m].rows : deliveries'[i].due <= noteClock'
             /\ \A i \in DOMAIN pass'[m].wrote : Waiting(pass'[m].wrote[i])
  BY <1>1 DEF WaitInv
<1>3. \A i \in DOMAIN deliveries' : Waiting(deliveries'[i])
  BY DEF WaitInv
<1> QED BY <1>2, <1>3 DEF WaitInv, Waiting

\* Committed rows change, but none that another pass holds.
LEMMA RowsWait ==
    ASSUME NoteInv, WaitInv, NEW n \in Notifier, UNCHANGED noteClock,
           DOMAIN deliveries \subseteq DOMAIN deliveries', \A i \in DOMAIN deliveries' : Waiting(deliveries'[i]),
           \A m \in Notifier \ {n} : pass'[m] = pass[m] /\ \A i \in pass[m].rows : deliveries'[i] = deliveries[i],
           pass'[n].rows = {}, DOMAIN pass'[n].wrote = {}
    PROVE  WaitInv'
<1>1. ASSUME NEW m \in Notifier
      PROVE  /\ \A i \in pass'[m].rows : deliveries'[i].due <= noteClock'
             /\ \A i \in DOMAIN pass'[m].wrote : Waiting(pass'[m].wrote[i])
  <2>1. CASE m = n
    BY <2>1
  <2>2. CASE m # n
    <3>1. pass'[m] = pass[m] /\ \A i \in pass[m].rows : deliveries'[i] = deliveries[i]
      BY <2>2
    <3> QED BY <3>1 DEF WaitInv
  <2> QED BY <2>1, <2>2
<1> QED BY <1>1 DEF WaitInv, Waiting

LEMMA WaitInit == NoteInit => WaitInv
<1> SUFFICES ASSUME NoteInit PROVE WaitInv
  OBVIOUS
<1>1. DOMAIN deliveries = {} /\ \A n \in Notifier : pass[n] = Resting
  BY DEF NoteInit
<1> QED BY <1>1, RestingIs DEF WaitInv

LEMMA WaitKeeps == NoteInv /\ WaitInv /\ [NoteNext]_noteVars => WaitInv'
<1> SUFFICES ASSUME NoteInv, WaitInv, [NoteNext]_noteVars PROVE WaitInv'
  OBVIOUS
<1>1. /\ NoteTypeOK /\ noteClock \in Nat /\ pass \in [Notifier -> APass] /\ \A i \in DOMAIN deliveries : deliveries[i] \in Delivery
  BY DEF NoteInv, NoteTypeOK
<1>2. ASSUME UNCHANGED <<deliveries, pass>>, noteClock' \in Nat, noteClock' >= noteClock PROVE WaitInv'
  <2>1. ASSUME NEW n \in Notifier, NEW i \in pass[n].rows PROVE deliveries[i].due <= noteClock'
    <3>1. i \in DOMAIN deliveries /\ deliveries[i].due <= noteClock
      BY <2>1 DEF NoteInv, Holding, WaitInv
    <3>2. deliveries[i].due \in Nat
      BY <1>1, <3>1 DEF Delivery
    <3> QED BY <1>1, <1>2, <3>1, <3>2
  <2> QED BY <1>2, <2>1 DEF WaitInv, Waiting
<1>3. ASSUME NEW n \in Notifier, ScanExceptions(n) PROVE WaitInv'
  <2> DEFINE new == Scanned(Expiring(IF horizon = -1 THEN noteClock ELSE horizon))
  <2>1. pass' = [pass EXCEPT ![n] = new] /\ UNCHANGED <<noteClock, deliveries>>
    BY <1>3 DEF ScanExceptions
  <2>2. new.rows = {} /\ DOMAIN new.wrote = {}
    BY DEF Scanned
  <2> HIDE DEF new
  <2>3. pass'[n] = new /\ \A m \in Notifier \ {n} : pass'[m] = pass[m]
    BY <1>1, <2>1
  <2> QED BY <2>1, <2>2, <2>3, OneWaits
<1>4. ASSUME NEW n \in Notifier, Raise(n) PROVE WaitInv'
  <2> DEFINE S == pass[n].found
             new == SetToSeq(FreshSet(S, n, noteClock))
             size == Len(deliveries)
  <2>1. /\ Holding(n) /\ pass[n].step = "raise" /\ S \in SUBSET Exception /\ noteClock' = noteClock
        /\ pass' = [pass EXCEPT ![n].step = "claim"] /\ deliveries \in Seq(Delivery)
    BY <1>1, <1>4 DEF NoteInv, NoteTypeOK, Raise, APass
  <2>2. deliveries' = deliveries \o new
    BY <1>4 DEF Raise, FreshSet, AsFresh
  <2> HIDE DEF S
  <2>3. new \in Seq(Delivery) /\ \A i \in DOMAIN new : new[i] \in FreshSet(S, n, noteClock)
    BY <1>1, <2>1, FreshOnes DEF OneEach
  <2>4. \A i \in DOMAIN new : Waiting(new[i])
    BY <1>1, <2>1, <2>3, ResettledWaits DEF FreshSet
  <2> HIDE DEF new
  <2>5. /\ DOMAIN deliveries \subseteq DOMAIN deliveries' /\ \A i \in DOMAIN deliveries : deliveries'[i] = deliveries[i]
        /\ \A i \in DOMAIN deliveries' : i \notin DOMAIN deliveries => i - size \in DOMAIN new /\ deliveries'[i] = new[i - size]
    BY <2>1, <2>2, <2>3
  <2>6. \A i \in DOMAIN deliveries' : Waiting(deliveries'[i])
    BY <2>4, <2>5 DEF WaitInv
  <2>7. ASSUME NEW m \in Notifier \ {n} PROVE pass'[m] = pass[m] /\ \A i \in pass[m].rows : deliveries'[i] = deliveries[i]
    <3>1. \A i \in pass[m].rows : i \in DOMAIN deliveries
      BY DEF NoteInv, Holding
    <3> QED BY <1>1, <2>1, <2>5, <3>1
  <2>8. pass'[n].rows = {} /\ DOMAIN pass'[n].wrote = {}
    BY <1>1, <2>1 DEF Holding, APass
  <2> QED BY <2>1, <2>5, <2>6, <2>7, <2>8, RowsWait
<1>5. ASSUME NEW n \in Notifier, ClaimDue(n) PROVE WaitInv'
  <2> DEFINE held == DueRows(n)
             todo == SetToSeq(held)
  <2>1. pass' = [pass EXCEPT ![n].step = "send", ![n].todo = todo, ![n].rows = held] /\ UNCHANGED <<noteClock, deliveries>>
    BY <1>5 DEF ClaimDue
  <2>2. \A i \in held : deliveries[i].due <= noteClock
    BY DEF DueRows
  <2> HIDE DEF held, todo
  <2>3. pass'[n].rows = held /\ pass'[n].wrote = pass[n].wrote /\ \A m \in Notifier \ {n} : pass'[m] = pass[m]
    BY <1>1, <2>1 DEF APass
  <2>4. \A i \in DOMAIN pass'[n].wrote : Waiting(pass'[n].wrote[i])
    BY <2>3 DEF WaitInv
  <2>5. \A i \in pass'[n].rows : deliveries[i].due <= noteClock
    BY <2>2, <2>3
  <2> QED BY <2>1, <2>3, <2>4, <2>5, OneWaits
<1>6. ASSUME NEW n \in Notifier, NEW ok \in BOOLEAN, Send(n, ok) PROVE WaitInv'
  <2> DEFINE i == Head(pass[n].todo)
             todo == Tail(pass[n].todo)
             x == Dispatched(deliveries[i], ok)
             wrote == Updated(pass[n].wrote, i, x)
  <2>1. /\ Holding(n) /\ pass[n].todo # <<>> /\ pass[n].todo \in Seq(Nat) /\ UNCHANGED <<noteClock, deliveries>>
        /\ pass' = [pass EXCEPT ![n].todo = todo, ![n].wrote = wrote]
    BY <1>1, <1>6 DEF NoteInv, Send, APass
  <2>2. 1 \in DOMAIN pass[n].todo /\ i = pass[n].todo[1]
    BY <2>1
  <2>3. i \in pass[n].rows /\ i \in DOMAIN deliveries /\ deliveries[i].status \in {"queued", "retrying"}
    BY <2>1, <2>2 DEF Holding
  <2> HIDE DEF i, todo
  <2>4. Waiting(x)
    BY <1>1, <2>3, TriedWaits DEF WaitInv
  <2> HIDE DEF x
  <2>5. \A j \in DOMAIN wrote : wrote[j] = IF j = i THEN x ELSE pass[n].wrote[j]
    BY DEF Updated
  <2>6. \A j \in DOMAIN wrote : j = i \/ j \in DOMAIN pass[n].wrote
    BY DEF Updated
  <2> HIDE DEF wrote
  <2>7. pass'[n].rows = pass[n].rows /\ pass'[n].wrote = wrote /\ \A m \in Notifier \ {n} : pass'[m] = pass[m]
    BY <1>1, <2>1 DEF APass
  <2>8. \A j \in DOMAIN wrote : Waiting(wrote[j])
    BY <2>4, <2>5, <2>6 DEF WaitInv
  <2>9. \A j \in pass'[n].rows : deliveries[j].due <= noteClock
    BY <2>7 DEF WaitInv
  <2> QED BY <2>1, <2>7, <2>8, <2>9, OneWaits
<1>7. ASSUME NEW n \in Notifier, pass' = [pass EXCEPT ![n] = Resting], UNCHANGED noteClock, DOMAIN deliveries' = DOMAIN deliveries,
             \A j \in DOMAIN deliveries : Waiting(deliveries'[j]),
             \A j \in DOMAIN deliveries : deliveries[j].by # n /\ j \notin pass[n].rows => deliveries'[j] = deliveries[j]
      PROVE  WaitInv'
  <2>1. pass'[n] = Resting /\ \A m \in Notifier \ {n} : pass'[m] = pass[m]
    BY <1>1, <1>7
  <2>2. ASSUME NEW m \in Notifier \ {n}, NEW j \in pass[m].rows PROVE deliveries'[j] = deliveries[j]
    <3>1. j \in DOMAIN deliveries /\ deliveries[j].by \in {0, m} /\ j \notin pass[n].rows /\ n # 0
      BY NotificationAssumption DEF NoteInv, Holding, HeldByOne
    <3> QED BY <1>7, <3>1
  <2> QED BY <1>7, <2>1, <2>2, RestingIs, RowsWait
<1>8. ASSUME NEW n \in Notifier, CommitPass(n) PROVE WaitInv'
  <2>1. /\ pass' = [pass EXCEPT ![n] = Resting] /\ noteClock' = noteClock /\ DOMAIN deliveries' = DOMAIN deliveries
    BY <1>8 DEF CommitPass
  <2>2. ASSUME NEW j \in DOMAIN deliveries PROVE Waiting(deliveries'[j])
    <3> DEFINE x == IF j \in DOMAIN pass[n].wrote THEN pass[n].wrote[j] ELSE deliveries[j]
    <3>1. deliveries'[j] = IF x.by = n THEN Freely(x) ELSE x
      BY <1>8 DEF CommitPass, Freely
    <3>2. pass[n].wrote \in Writes
      <4>1. pass[n] \in APass
        BY <1>1
      <4> QED BY <4>1 DEF APass
    <3>3. x \in Delivery /\ Waiting(x)
      <4>1. CASE j \in DOMAIN pass[n].wrote
        <5>1. pass[n].wrote[j] \in Delivery
          BY <3>2, <4>1 DEF Writes
        <5> QED BY <4>1, <5>1 DEF WaitInv
      <4>2. CASE j \notin DOMAIN pass[n].wrote
        BY <1>1, <4>2 DEF WaitInv
      <4> QED BY <4>1, <4>2
    <3> HIDE DEF x
    <3> QED BY <1>1, <3>1, <3>3, ResettledWaits
  <2>3. \A j \in DOMAIN deliveries : deliveries[j].by # n /\ j \notin pass[n].rows => deliveries'[j] = deliveries[j]
    BY <1>8, CommittedRow
  <2> QED BY <1>7, <2>1, <2>2, <2>3
<1>9. ASSUME NEW n \in Notifier, UndoPass(n) PROVE WaitInv'
  <2>1. /\ pass' = [pass EXCEPT ![n] = Resting] /\ noteClock' = noteClock
        /\ deliveries' = [j \in DOMAIN deliveries |-> IF deliveries[j].by = n THEN NoRow ELSE deliveries[j]]
    BY <1>9 DEF UndoPass
  <2>2. \A j \in DOMAIN deliveries : Waiting(deliveries'[j])
    BY <1>1, <2>1, ResettledWaits DEF WaitInv
  <2>3. DOMAIN deliveries' = DOMAIN deliveries
        /\ \A j \in DOMAIN deliveries : deliveries[j].by # n /\ j \notin pass[n].rows => deliveries'[j] = deliveries[j]
    BY <2>1
  <2> QED BY <1>7, <2>1, <2>2, <2>3
<1>10. ASSUME NEW i \in DOMAIN deliveries, Requeue(i) PROVE WaitInv'
  <2>1. deliveries' = [deliveries EXCEPT ![i] = AsRequeued(deliveries[i], noteClock)] /\ UNCHANGED <<noteClock, pass>>
        /\ \A n \in Notifier : i \notin pass[n].rows
    BY <1>10 DEF Requeue, AsRequeued
  <2>2. DOMAIN deliveries' = DOMAIN deliveries /\ \A j \in DOMAIN deliveries : Waiting(deliveries'[j]) /\ (j # i => deliveries'[j] = deliveries[j])
    BY <1>1, <2>1, ResettledWaits DEF WaitInv
  <2>3. ASSUME NEW n \in Notifier, NEW j \in pass[n].rows PROVE deliveries'[j].due <= noteClock
    <3>1. j \in DOMAIN deliveries /\ j # i
      BY <2>1 DEF NoteInv, Holding
    <3> QED BY <2>2, <3>1 DEF WaitInv
  <2> QED BY <2>1, <2>2, <2>3 DEF WaitInv, Waiting
<1>11. CASE NoteTick \/ \E e \in Exception : Grant(e)
  <2>1. UNCHANGED <<deliveries, pass>> /\ (noteClock' = noteClock \/ noteClock' = noteClock + 1)
    BY <1>11 DEF NoteTick, Grant
  <2> QED BY <1>1, <1>2, <2>1
<1>12. CASE UNCHANGED noteVars
  <2>1. UNCHANGED <<deliveries, pass, noteClock>>
    BY <1>12 DEF noteVars
  <2> QED BY <1>1, <1>2, <2>1
<1> QED BY <1>3, <1>4, <1>5, <1>6, <1>8, <1>9, <1>10, <1>11, <1>12 DEF NoteNext

\* What waits between attempts waits as long as it should.
LEMMA WaitInductive == NoteSpec => []WaitInv
BY WaitInit, WaitKeeps, NoteInductive, PTL DEF NoteSpec

\* While passes follow one another an exception is announced once, however many fail;
\* one recorded in time is announced before the watermark passes its end; and a delivery
\* is given up after the whole back-off only, and what was settled is not sent again,
\* also when passes overlap.
THEOREM AnnouncedAsPromised == NoteSpec => AnnouncementsSettle
<1>1. NoteInv => AnnouncedOnce
  <2> SUFFICES ASSUME NoteInv, ~crossed, NEW e \in Exception PROVE Cardinality(Announced(e)) <= 1
    BY DEF AnnouncedOnce
  <2> DEFINE S == Announced(e)
  <2>1. \A i, j \in S : i = j
    <3>1. e # 0
      BY NotificationAssumption
    <3> QED BY <3>1 DEF NoteInv, InTurn, Announced
  <2> HIDE DEF S
  <2>2. CASE S = {}
    BY <2>2, FS_EmptySet DEF S
  <2>3. CASE S # {}
    <3>1. PICK i \in S : TRUE
      BY <2>3
    <3>2. S = {i}
      BY <2>1, <3>1
    <3>3. Cardinality({i}) = 1
      BY FS_Singleton
    <3> QED BY <3>2, <3>3 DEF S
  <2> QED BY <2>2, <2>3
<1> DEFINE InTime(n) ==
        CommitPass(n) => \A e \in Exception :
            granted[e] # -1 /\ expires[e] > granted[e] + Window /\ expires[e] \in noteClock + 1 .. horizon' =>
                \E i \in DOMAIN deliveries' : deliveries'[i].about = e
<1>2. ASSUME NoteInv, NEW n \in Notifier PROVE InTime(n)
  <2> SUFFICES ASSUME CommitPass(n), NEW e \in Exception, granted[e] # -1, expires[e] > granted[e] + Window,
                      expires[e] \in noteClock + 1 .. horizon'
               PROVE  \E i \in DOMAIN deliveries' : deliveries'[i].about = e
    OBVIOUS
  <2>1. NoteInv' /\ UNCHANGED <<noteClock, granted, expires>>
    BY <1>2, CommitsAnnounce DEF CommitPass
  <2>2. expires[e] > noteClock /\ expires[e] <= horizon' /\ Long(e)
    BY <1>2 DEF NoteInv, NoteTypeOK, Long
  <2>3. Told(e, 0)'
    BY <2>1, <2>2 DEF NoteInv, Covered, Long
  <2> QED BY <2>3 DEF Told
<1> DEFINE StillLive(n, ok) == Send(n, ok) => deliveries[Head(pass[n].todo)].status \in {"queued", "retrying"}
<1>3. ASSUME NoteInv, NEW n \in Notifier, NEW ok \in BOOLEAN PROVE StillLive(n, ok)
  <2> SUFFICES ASSUME Send(n, ok) PROVE deliveries[Head(pass[n].todo)].status \in {"queued", "retrying"}
    OBVIOUS
  <2>1. pass[n].todo # <<>> /\ pass[n].todo \in Seq(Nat)
    BY <1>3 DEF Send, NoteInv, NoteTypeOK, APass
  <2>2. 1 \in DOMAIN pass[n].todo /\ Head(pass[n].todo) = pass[n].todo[1]
    BY <2>1
  <2> QED BY <1>3, <2>2 DEF NoteInv, Holding
<1>4. NoteInv => [\A n \in Notifier : InTime(n)]_noteVars
  BY <1>2
<1>5. NoteInv => [\A n \in Notifier, ok \in BOOLEAN : StillLive(n, ok)]_noteVars
  BY <1>3
<1>6. WaitInv => DeadWaitedItsTurn
  BY DEF WaitInv, Waiting, DeadWaitedItsTurn
<1> QED BY <1>1, <1>4, <1>5, <1>6, NoteInductive, WaitInductive, PTL DEF LongGrantsAreAnnounced, SettledStaysSilent, AnnouncementsSettle

-----------------------------------------------------------------------------
(* The posture: sums over sets *)

\* Of a family of parts of a finite set, one has no smaller one in the family.
LEMMA Smallest ==
    ASSUME NEW S, IsFiniteSet(S), NEW B \in SUBSET SUBSET S, B # {}
    PROVE  \E T \in B : \A x \in T : T \ {x} \notin B
<1>1. IsWellFoundedOn(StrictSubsetOrdering(S), SUBSET S)
  BY FS_StrictSubsetOrderingWellFounded, FS_FiniteSubsetsOfFinite
<1>2. PICK T \in B : \A U \in B : <<U, T>> \notin StrictSubsetOrdering(S)
  BY <1>1, WFMin
<1>3. ASSUME NEW x \in T, T \ {x} \in B PROVE FALSE
  <2>1. <<T \ {x}, T>> \in StrictSubsetOrdering(S)
    BY <1>3 DEF StrictSubsetOrdering
  <2> QED BY <1>2, <1>3, <2>1
<1> QED BY <1>3

AnyOf(S) == CHOOSE x \in S : TRUE

\* A function on the parts of a set that sums as `Total` does.
Sums(g, f, S) ==
    /\ g = [T \in SUBSET S |-> g[T]]
    /\ \A T \in SUBSET S : g[T] = IF T = {} THEN 0 ELSE f[AnyOf(T)] + g[T \ {AnyOf(T)}]

\* Two such functions agree wherever both speak.
LEMMA SumsAgree ==
    ASSUME NEW f, NEW S, IsFiniteSet(S), NEW g, Sums(g, f, S), NEW h, NEW R, Sums(h, f, R), S \subseteq R
    PROVE  \A T \in SUBSET S : g[T] = h[T]
<1> DEFINE B == {T \in SUBSET S : g[T] # h[T]}
<1> SUFFICES ASSUME B # {} PROVE FALSE
  OBVIOUS
<1>1. PICK T \in B : \A x \in T : T \ {x} \notin B
  BY Smallest
<1>2. T \in SUBSET S /\ T \in SUBSET R /\ g[T] # h[T]
  BY <1>1
<1>3. T # {}
  BY <1>2 DEF Sums
<1>4. AnyOf(T) \in T /\ T \ {AnyOf(T)} \in SUBSET S
  BY <1>2, <1>3 DEF AnyOf
<1>5. g[T \ {AnyOf(T)}] = h[T \ {AnyOf(T)}]
  BY <1>1, <1>4
<1>6. g[T] = f[AnyOf(T)] + g[T \ {AnyOf(T)}] /\ h[T] = f[AnyOf(T)] + h[T \ {AnyOf(T)}]
  BY <1>2, <1>3 DEF Sums
<1> QED BY <1>2, <1>5, <1>6

\* There is one, for every finite set.
LEMMA SumsExist ==
    ASSUME NEW f, NEW S, IsFiniteSet(S)
    PROVE  \E g : Sums(g, f, S)
<1> DEFINE B == {T \in SUBSET S : ~\E g : Sums(g, f, T)}
<1> SUFFICES ASSUME B # {} PROVE FALSE
  OBVIOUS
<1>1. PICK T \in B : \A x \in T : T \ {x} \notin B
  BY Smallest
<1>2. T \in SUBSET S /\ ~\E g : Sums(g, f, T)
  BY <1>1
<1>3. ASSUME NEW x \in T PROVE \E g : Sums(g, f, T \ {x})
  BY <1>1, <1>2
<1> DEFINE own == [x \in T |-> CHOOSE g : Sums(g, f, T \ {x})]
<1>4. \A x \in T : Sums(own[x], f, T \ {x})
  BY <1>3
<1> HIDE DEF own
<1> DEFINE low(U) == IF U = {} THEN 0 ELSE own[CHOOSE x \in T : x \notin U][U]
           g == [U \in SUBSET T |-> IF U = T /\ T # {} THEN f[AnyOf(T)] + low(T \ {AnyOf(T)}) ELSE low(U)]
<1>5. ASSUME NEW U \in SUBSET T, U # T, NEW x \in T, x \notin U PROVE low(U) = own[x][U]
  <2>1. CASE U = {}
    <3>1. own[x][{}] = 0
      BY <1>4 DEF Sums
    <3> QED BY <2>1, <3>1
  <2>2. CASE U # {}
    <3> DEFINE y == CHOOSE y \in T : y \notin U
    <3>1. y \in T /\ y \notin U
      BY <1>5
    <3> HIDE DEF y
    <3>2. Sums(own[x], f, T \ {x}) /\ Sums(own[y], f, T \ {y})
      BY <1>4, <3>1
    <3>3. IsFiniteSet(U)
      BY <1>2, FS_Subset
    <3> DEFINE a == [V \in SUBSET U |-> own[x][V]]
               R == (T \ {x})
               Q == (T \ {y})
    <3>4. U \subseteq R /\ U \subseteq Q
      BY <1>5, <3>1
    <3>5. Sums(a, f, U)
      <4>1. ASSUME NEW V \in SUBSET U PROVE a[V] = IF V = {} THEN 0 ELSE f[AnyOf(V)] + a[V \ {AnyOf(V)}]
        <5>1. V \in SUBSET R /\ V \ {AnyOf(V)} \in SUBSET U
          BY <3>4
        <5>2. own[x][V] = IF V = {} THEN 0 ELSE f[AnyOf(V)] + own[x][V \ {AnyOf(V)}]
          BY <3>2, <5>1 DEF Sums
        <5> QED BY <5>1, <5>2
      <4> QED BY <4>1 DEF Sums
    <3> HIDE DEF a, R, Q
    <3>6. a[U] = own[x][U]
      BY DEF a
    <3>7. a[U] = own[y][U]
      <4>1. Sums(own[y], f, Q)
        BY <3>2 DEF Q
      <4> DEFINE h == own[y]
      <4> HIDE DEF h
      <4>2. \A V \in SUBSET U : a[V] = h[V]
        <5>1. Sums(h, f, Q)
          BY <4>1 DEF h
        <5> QED BY <3>3, <3>4, <3>5, <5>1, SumsAgree
      <4> QED BY <4>2 DEF h
    <3>8. low(U) = own[y][U]
      BY <2>2 DEF y
    <3> QED BY <3>6, <3>7, <3>8
  <2> QED BY <2>1, <2>2
<1>6. ASSUME NEW U \in SUBSET T PROVE g[U] = IF U = {} THEN 0 ELSE f[AnyOf(U)] + g[U \ {AnyOf(U)}]
  <2>1. CASE U = {}
    BY <2>1
  <2>2. CASE U # {}
    <3>1. AnyOf(U) \in U
      BY <2>2 DEF AnyOf
    <3> DEFINE V == U \ {AnyOf(U)}
    <3>2. V \in SUBSET T /\ V # T /\ V # U
      BY <3>1
    <3>3. g[V] = low(V)
      BY <3>2
    <3>4. CASE U = T
      BY <2>2, <3>3, <3>4
    <3>5. CASE U # T
      <4>1. PICK x \in T : x \notin U
        BY <3>5
      <4>2. low(U) = own[x][U] /\ low(V) = own[x][V]
        BY <1>5, <3>2, <3>5, <4>1
      <4>3. Sums(own[x], f, T \ {x}) /\ U \in SUBSET (T \ {x})
        BY <1>4, <4>1
      <4>4. own[x][U] = f[AnyOf(U)] + own[x][V]
        BY <2>2, <4>3 DEF Sums
      <4>5. g[U] = low(U)
        BY <3>5
      <4> HIDE DEF g, low
      <4> QED BY <2>2, <3>3, <4>2, <4>4, <4>5
    <3> QED BY <3>4, <3>5
  <2> QED BY <2>1, <2>2
<1>7. g = [U \in SUBSET T |-> g[U]]
  OBVIOUS
<1> HIDE DEF g
<1>8. Sums(g, f, T)
  BY <1>6, <1>7 DEF Sums
<1> QED BY <1>2, <1>8

\* The sum of nothing, and of a set that something is chosen from.
LEMMA TotalChosen ==
    ASSUME NEW f
    PROVE  /\ Total(f, {}) = 0
           /\ \A S : IsFiniteSet(S) /\ S # {} => AnyOf(S) \in S /\ Total(f, S) = f[AnyOf(S)] + Total(f, S \ {AnyOf(S)})
<1> DEFINE iter(S) == CHOOSE g : g = [T \in SUBSET S |-> IF T = {} THEN 0 ELSE f[CHOOSE x \in T : TRUE] + g[T \ {CHOOSE x \in T : TRUE}]]
<1>1. \A S : Total(f, S) = iter(S)[S]
  BY DEF Total, FoldSet, MapThenFoldSet
<1>2. ASSUME NEW S, IsFiniteSet(S) PROVE Sums(iter(S), f, S)
  <2>1. PICK g : Sums(g, f, S)
    BY <1>2, SumsExist
  <2>2. g = [T \in SUBSET S |-> IF T = {} THEN 0 ELSE f[CHOOSE x \in T : TRUE] + g[T \ {CHOOSE x \in T : TRUE}]]
    BY <2>1 DEF Sums, AnyOf
  <2> DEFINE i == iter(S)
  <2>3. i = [T \in SUBSET S |-> IF T = {} THEN 0 ELSE f[CHOOSE x \in T : TRUE] + i[T \ {CHOOSE x \in T : TRUE}]]
    BY <2>2
  <2> HIDE DEF i
  <2>4. i = [T \in SUBSET S |-> i[T]]
    BY <2>3
  <2>5. \A T \in SUBSET S : i[T] = IF T = {} THEN 0 ELSE f[AnyOf(T)] + i[T \ {AnyOf(T)}]
    BY <2>3 DEF AnyOf
  <2>6. Sums(i, f, S)
    BY <2>4, <2>5 DEF Sums
  <2> QED BY <2>6 DEF i
<1> HIDE DEF iter
<1>3. Total(f, {}) = 0
  <2>1. Sums(iter({}), f, {})
    BY <1>2, FS_EmptySet
  <2> QED BY <1>1, <2>1 DEF Sums
<1>4. ASSUME NEW S, IsFiniteSet(S), S # {} PROVE AnyOf(S) \in S /\ Total(f, S) = f[AnyOf(S)] + Total(f, S \ {AnyOf(S)})
  <2>1. AnyOf(S) \in S
    BY <1>4 DEF AnyOf
  <2> DEFINE R == S \ {AnyOf(S)}
  <2>2. IsFiniteSet(R) /\ R \subseteq S
    BY <1>4, FS_Subset
  <2>3. Sums(iter(S), f, S) /\ Sums(iter(R), f, R)
    BY <1>2, <1>4, <2>2
  <2>4. iter(S)[S] = f[AnyOf(S)] + iter(S)[R]
    BY <1>4, <2>3 DEF Sums
  <2>5. iter(R)[R] = iter(S)[R]
    <3> HIDE DEF R
    <3> DEFINE g == iter(R)
               h == iter(S)
    <3>1. Sums(g, f, R) /\ Sums(h, f, S)
      BY <2>3
    <3> HIDE DEF g, h
    <3>2. \A T \in SUBSET R : g[T] = h[T]
      BY <2>2, <3>1, SumsAgree
    <3> QED BY <3>2 DEF g, h
  <2> QED BY <1>1, <2>1, <2>4, <2>5
<1> QED BY <1>3, <1>4

OnNumbers(f, S) == \A x \in S : f[x] \in Int

LEMMA TotalNumber ==
    ASSUME NEW f, NEW S, IsFiniteSet(S), OnNumbers(f, S)
    PROVE  Total(f, S) \in Int
<1> DEFINE B == {T \in SUBSET S : Total(f, T) \notin Int}
<1> SUFFICES ASSUME B # {} PROVE FALSE
  OBVIOUS
<1>1. PICK T \in B : \A x \in T : T \ {x} \notin B
  BY Smallest
<1>2. T \in SUBSET S /\ Total(f, T) \notin Int /\ IsFiniteSet(T)
  BY <1>1, FS_Subset
<1>3. T # {}
  BY <1>2, TotalChosen
<1>4. AnyOf(T) \in T /\ Total(f, T) = f[AnyOf(T)] + Total(f, T \ {AnyOf(T)})
  BY <1>2, <1>3, TotalChosen
<1>5. Total(f, T \ {AnyOf(T)}) \in Int /\ f[AnyOf(T)] \in Int
  BY <1>1, <1>2, <1>4 DEF OnNumbers
<1> HIDE DEF B
<1> QED BY <1>2, <1>4, <1>5

\* A sum is the same whichever element is taken first.
LEMMA TotalIs ==
    ASSUME NEW f, NEW S, IsFiniteSet(S), OnNumbers(f, S)
    PROVE  \A x \in S : Total(f, S) = f[x] + Total(f, S \ {x})
<1> DEFINE Fine(T) == \A x \in T : Total(f, T) = f[x] + Total(f, T \ {x})
           B == {T \in SUBSET S : ~Fine(T)}
<1> SUFFICES ASSUME B # {} PROVE FALSE
  OBVIOUS
<1>1. PICK T \in B : \A x \in T : T \ {x} \notin B
  BY Smallest
<1>2. T \in SUBSET S /\ ~Fine(T) /\ IsFiniteSet(T)
  BY <1>1, FS_Subset
<1>3. \A x \in T : f[x] \in Int /\ Fine(T \ {x})
  BY <1>1, <1>2 DEF OnNumbers
<1> HIDE DEF B
<1>4. T # {}
  BY <1>2
<1> DEFINE a == AnyOf(T)
<1>5. a \in T /\ Total(f, T) = f[a] + Total(f, T \ {a})
  BY <1>2, <1>4, TotalChosen
<1> HIDE DEF a
<1>6. ASSUME NEW x \in T PROVE Total(f, T) = f[x] + Total(f, T \ {x})
  <2>1. CASE x = a
    BY <1>5, <2>1
  <2>2. CASE x # a
    <3>1. x \in T \ {a} /\ a \in T \ {x} /\ (T \ {a}) \ {x} = (T \ {x}) \ {a}
      BY <1>5, <2>2
    <3> DEFINE rest == Total(f, (T \ {x}) \ {a})
    <3>2. Total(f, T \ {a}) = f[x] + rest /\ Total(f, T \ {x}) = f[a] + rest
      BY <1>3, <1>5, <3>1
    <3>3. rest \in Int
      <4>1. IsFiniteSet((T \ {x}) \ {a}) /\ OnNumbers(f, (T \ {x}) \ {a})
        BY <1>2, FS_Subset DEF OnNumbers
      <4> QED BY <4>1, TotalNumber
    <3> HIDE DEF rest
    <3>4. f[x] \in Int /\ f[a] \in Int
      BY <1>3, <1>5
    <3> QED BY <1>5, <3>2, <3>3, <3>4
  <2> QED BY <2>1, <2>2
<1> QED BY <1>2, <1>6

\* Sums over one set follow the terms.
LEMMA TotalFollows ==
    ASSUME NEW f, NEW g, NEW S, IsFiniteSet(S), OnNumbers(f, S), OnNumbers(g, S), \A x \in S : f[x] <= g[x]
    PROVE  Total(f, S) <= Total(g, S)
<1> DEFINE B == {T \in SUBSET S : ~(Total(f, T) <= Total(g, T))}
<1> SUFFICES ASSUME B # {} PROVE FALSE
  OBVIOUS
<1>1. PICK T \in B : \A x \in T : T \ {x} \notin B
  BY Smallest
<1>2. T \in SUBSET S /\ ~(Total(f, T) <= Total(g, T)) /\ IsFiniteSet(T)
  BY <1>1, FS_Subset
<1>3. T # {}
  BY <1>2, TotalChosen
<1>4. PICK x \in T : TRUE
  BY <1>3
<1> DEFINE R == T \ {x}
<1>5. Total(f, R) <= Total(g, R) /\ IsFiniteSet(R) /\ OnNumbers(f, R) /\ OnNumbers(g, R)
  BY <1>1, <1>2, <1>4, FS_Subset DEF OnNumbers
<1>6. Total(f, T) = f[x] + Total(f, R) /\ Total(g, T) = g[x] + Total(g, R)
  <2>1. OnNumbers(f, T) /\ OnNumbers(g, T)
    BY <1>2 DEF OnNumbers
  <2> QED BY <1>2, <1>4, <2>1, TotalIs
<1>7. Total(f, R) \in Int /\ Total(g, R) \in Int
  BY <1>5, TotalNumber
<1>8. f[x] \in Int /\ g[x] \in Int /\ f[x] <= g[x]
  BY <1>2, <1>4 DEF OnNumbers
<1> HIDE DEF R, B
<1> QED BY <1>2, <1>5, <1>6, <1>7, <1>8

LEMMA TotalSame ==
    ASSUME NEW f, NEW g, NEW S, IsFiniteSet(S), OnNumbers(f, S), \A x \in S : f[x] = g[x]
    PROVE  Total(f, S) = Total(g, S)
<1>1. OnNumbers(g, S) /\ \A x \in S : f[x] <= g[x] /\ g[x] <= f[x]
  BY DEF OnNumbers
<1>2. Total(f, S) <= Total(g, S) /\ Total(g, S) <= Total(f, S)
  BY <1>1, TotalFollows
<1>3. Total(f, S) \in Int /\ Total(g, S) \in Int
  BY <1>1, TotalNumber
<1> QED BY <1>2, <1>3

OnNaturals(f, S) == \A x \in S : f[x] \in Nat

\* A part of a set sums to no more, where no term is negative.
LEMMA TotalOfPart ==
    ASSUME NEW f, NEW S, IsFiniteSet(S), OnNaturals(f, S), NEW R \in SUBSET S
    PROVE  Total(f, R) <= Total(f, S)
<1> DEFINE B == {T \in SUBSET S : R \subseteq T /\ ~(Total(f, R) <= Total(f, T))}
<1> SUFFICES ASSUME ~(Total(f, R) <= Total(f, S)) PROVE FALSE
  OBVIOUS
<1>0. S \in B
  OBVIOUS
<1>1. PICK T \in B : \A x \in T : T \ {x} \notin B
  <2>1. B \in SUBSET SUBSET S /\ B # {}
    BY <1>0
  <2> HIDE DEF B
  <2> QED BY <2>1, Smallest
<1>2. T \in SUBSET S /\ R \subseteq T /\ ~(Total(f, R) <= Total(f, T)) /\ IsFiniteSet(T) /\ IsFiniteSet(R)
  BY <1>1, FS_Subset
<1>3. OnNumbers(f, S) /\ OnNumbers(f, T) /\ OnNumbers(f, R)
  BY <1>2 DEF OnNaturals, OnNumbers
<1>4. Total(f, R) \in Int
  BY <1>2, <1>3, TotalNumber
<1>5. T # R
  BY <1>2, <1>4
<1>6. PICK x \in T : x \notin R
  BY <1>2, <1>5
<1> DEFINE U == T \ {x}
<1>7. Total(f, R) <= Total(f, U)
  BY <1>1, <1>2, <1>6
<1>8. Total(f, T) = f[x] + Total(f, U)
  BY <1>2, <1>3, <1>6, TotalIs
<1>9. Total(f, U) \in Int
  <2>1. IsFiniteSet(U) /\ OnNumbers(f, U)
    BY <1>2, <1>3, FS_Subset DEF OnNumbers
  <2> QED BY <2>1, TotalNumber
<1>10. f[x] \in Nat
  BY <1>2, <1>6 DEF OnNaturals
<1> HIDE DEF U, B
<1> QED BY <1>2, <1>4, <1>7, <1>8, <1>9, <1>10

LEMMA TotalNatural ==
    ASSUME NEW f, NEW S, IsFiniteSet(S), OnNaturals(f, S)
    PROVE  Total(f, S) \in Nat
<1>1. Total(f, {}) <= Total(f, S) /\ Total(f, {}) = 0
  BY TotalOfPart, TotalChosen
<1>2. Total(f, S) \in Int
  BY TotalNumber DEF OnNaturals, OnNumbers
<1> QED BY <1>1, <1>2

\* A sum is no more than its greatest term for each.
LEMMA TotalBounded ==
    ASSUME NEW f, NEW S, IsFiniteSet(S), OnNaturals(f, S), NEW m \in Nat, \A x \in S : f[x] <= m
    PROVE  Total(f, S) <= m * Cardinality(S)
<1> DEFINE B == {T \in SUBSET S : ~(Total(f, T) <= m * Cardinality(T))}
<1> SUFFICES ASSUME B # {} PROVE FALSE
  OBVIOUS
<1>1. PICK T \in B : \A x \in T : T \ {x} \notin B
  BY Smallest
<1>2. T \in SUBSET S /\ ~(Total(f, T) <= m * Cardinality(T)) /\ IsFiniteSet(T)
  BY <1>1, FS_Subset
<1>3. T # {}
  <2>1. Total(f, {}) = 0 /\ Cardinality({}) = 0 /\ m * 0 = 0
    BY TotalChosen, FS_EmptySet
  <2> QED BY <1>2, <2>1
<1>4. PICK x \in T : TRUE
  BY <1>3
<1> DEFINE R == T \ {x}
           n == Cardinality(R)
           t == Total(f, R)
<1>5. t <= m * n /\ IsFiniteSet(R) /\ OnNaturals(f, R)
  BY <1>1, <1>2, <1>4, FS_Subset DEF OnNaturals
<1>6. Total(f, T) = f[x] + t
  <2>1. OnNumbers(f, T)
    BY <1>2 DEF OnNumbers, OnNaturals
  <2> QED BY <1>2, <1>4, <2>1, TotalIs
<1>7. n \in Nat /\ Cardinality(T) = n + 1
  <2>1. n = Cardinality(T) - 1 /\ n \in Nat /\ Cardinality(T) \in Nat
    BY <1>2, <1>4, <1>5, FS_RemoveElement, FS_CardinalityType
  <2> HIDE DEF n
  <2> QED BY <2>1
<1>8. t \in Nat
  BY <1>5, TotalNatural
<1>9. f[x] \in Nat /\ f[x] <= m
  BY <1>2, <1>4 DEF OnNaturals
<1> HIDE DEF R, B, t, n
<1>10. m * (n + 1) = m * n + m
  BY <1>7
<1>11. m * n \in Nat
  BY <1>7
<1> QED BY <1>2, <1>5, <1>6, <1>7, <1>8, <1>9, <1>10, <1>11

-----------------------------------------------------------------------------
(* The posture: scores *)

\* The greatest of what can be compared with all the rest.
LEMMA MaxOf == \A S : \A m \in S : S \subseteq Int /\ (\A x \in S : x <= m) => Max(S) = m
<1> SUFFICES ASSUME NEW S, NEW m \in S, S \subseteq Int, \A x \in S : x <= m PROVE Max(S) = m
  OBVIOUS
<1>1. \A y \in S : m >= y
  OBVIOUS
<1>2. Max(S) \in S /\ \A y \in S : Max(S) >= y
  BY <1>1 DEF Max
<1>3. Max(S) >= m /\ m >= Max(S) /\ Max(S) \in Int /\ m \in Int
  BY <1>2
<1> QED BY <1>3

LEMMA MinOf == \A S : \A m \in S : S \subseteq Int /\ (\A x \in S : m <= x) => Min(S) = m
<1> SUFFICES ASSUME NEW S, NEW m \in S, S \subseteq Int, \A x \in S : m <= x PROVE Min(S) = m
  OBVIOUS
<1>1. Min(S) \in S /\ \A y \in S : Min(S) <= y
  BY DEF Min
<1>2. Min(S) <= m /\ m <= Min(S) /\ Min(S) \in Int /\ m \in Int
  BY <1>1
<1> QED BY <1>2

\* A finite set of numbers that has something has a greatest and a least.
LEMMA FiniteExtremes ==
    ASSUME NEW S, IsFiniteSet(S), S # {}, S \subseteq Int
    PROVE  (\E m \in S : \A x \in S : x <= m) /\ \E m \in S : \A x \in S : m <= x
<1> DEFINE High(T) == \E m \in T : \A x \in T : x <= m
           Low(T) == \E m \in T : \A x \in T : m <= x
           B == {T \in SUBSET S : T # {} /\ ~(High(T) /\ Low(T))}
<1> SUFFICES ASSUME B # {} PROVE FALSE
  OBVIOUS
<1>1. PICK T \in B : \A x \in T : T \ {x} \notin B
  BY Smallest
<1>2. T \in SUBSET S /\ T # {} /\ ~(High(T) /\ Low(T))
  BY <1>1
<1>3. PICK a \in T : TRUE
  BY <1>2
<1>4. T \subseteq Int /\ a \in Int
  BY <1>2, <1>3
<1>5. CASE T \ {a} = {}
  <2>1. T = {a} /\ a <= a
    BY <1>3, <1>4, <1>5
  <2> QED BY <1>2, <2>1
<1>6. CASE T \ {a} # {}
  <2>1. High(T \ {a}) /\ Low(T \ {a})
    BY <1>1, <1>2, <1>3, <1>6
  <2>2. High(T)
    <3>1. PICK m \in T \ {a} : \A x \in T \ {a} : x <= m
      BY <2>1
    <3>2. CASE a <= m
      <4>1. \A x \in T : x <= m
        BY <3>1, <3>2
      <4> QED BY <3>1, <4>1
    <3>3. CASE ~(a <= m)
      <4>1. \A x \in T : x <= a
        BY <1>4, <3>1, <3>3
      <4> QED BY <1>3, <4>1
    <3> QED BY <3>2, <3>3
  <2>3. Low(T)
    <3>1. PICK m \in T \ {a} : \A x \in T \ {a} : m <= x
      BY <2>1
    <3>2. CASE m <= a
      <4>1. \A x \in T : m <= x
        BY <3>1, <3>2
      <4> QED BY <3>1, <4>1
    <3>3. CASE ~(m <= a)
      <4>1. \A x \in T : a <= x
        BY <1>4, <3>1, <3>3
      <4> QED BY <1>3, <4>1
    <3> QED BY <3>2, <3>3
  <2> QED BY <1>2, <2>2, <2>3
<1> QED BY <1>5, <1>6

\* Rounding is within one of the quotient, and follows the numerator.
LEMMA RoundedIs ==
    ASSUME NEW n \in Nat, NEW d \in Nat \ {0}
    PROVE  /\ Rounded(n, d) \in Nat /\ (Rounded(n, d) + 1) * d > n
           /\ \A m \in Nat : n <= m * d => Rounded(n, d) <= m
<1> DEFINE q == n \div d
           r == n % d
<1>1. q \in Nat /\ r \in Nat /\ r < d /\ n = q * d + r
  OBVIOUS
<1>2. Rounded(n, d) = IF 2 * r > d \/ (2 * r = d /\ q % 2 = 1) THEN q + 1 ELSE q
  BY DEF Rounded
<1> HIDE DEF q, r
<1>3. Rounded(n, d) \in {q, q + 1}
  BY <1>2
<1>4. (q + 1) * d = q * d + d /\ (q + 2) * d = q * d + d + d /\ q * d \in Nat
  BY <1>1
<1>5. (Rounded(n, d) + 1) * d > n
  <2>1. CASE Rounded(n, d) = q
    BY <1>1, <1>4, <2>1
  <2>2. CASE Rounded(n, d) = q + 1
    <3>1. (q + 1) + 1 = q + 2
      BY <1>1
    <3> QED BY <1>1, <1>4, <2>2, <3>1
  <2> QED BY <1>3, <2>1, <2>2
<1>6. ASSUME NEW m \in Nat, n <= m * d PROVE Rounded(n, d) <= m
  <2>1. q <= m
    <3>1. CASE m + 1 <= q
      <4>1. (m + 1) * d <= q * d /\ (m + 1) * d = m * d + d /\ m * d \in Nat
        BY <1>1, <3>1
      <4> QED BY <1>1, <1>6, <4>1
    <3> QED BY <1>1, <3>1
  <2>2. CASE q = m
    <3>1. r = 0
      BY <1>1, <1>4, <1>6, <2>2
    <3> QED BY <1>1, <1>2, <2>2, <3>1
  <2>3. CASE q < m
    BY <1>1, <1>3, <2>1, <2>3
  <2> QED BY <1>1, <2>1, <2>2, <2>3
<1> QED BY <1>1, <1>3, <1>5, <1>6

LEMMA RoundedFollows ==
    ASSUME NEW n \in Nat, NEW m \in Nat, n <= m, NEW d \in Nat \ {0}
    PROVE  Rounded(n, d) <= Rounded(m, d)
<1> DEFINE q == n \div d
           r == n % d
           p == m \div d
           s == m % d
<1>1. q \in Nat /\ r \in Nat /\ r < d /\ n = q * d + r
  OBVIOUS
<1>2. p \in Nat /\ s \in Nat /\ s < d /\ m = p * d + s
  OBVIOUS
<1>3. Rounded(n, d) = IF 2 * r > d \/ (2 * r = d /\ q % 2 = 1) THEN q + 1 ELSE q
  BY DEF Rounded
<1>4. Rounded(m, d) = IF 2 * s > d \/ (2 * s = d /\ p % 2 = 1) THEN p + 1 ELSE p
  BY DEF Rounded
<1> HIDE DEF q, r, p, s
<1>5. Rounded(n, d) \in {q, q + 1} /\ Rounded(m, d) \in {p, p + 1}
  BY <1>3, <1>4
<1>6. CASE q = p
  <2>1. p * d \in Nat /\ r <= s
    BY <1>1, <1>2, <1>6
  <2>2. CASE Rounded(n, d) = q + 1
    <3>1. 2 * r > d \/ (2 * r = d /\ q % 2 = 1)
      BY <1>1, <1>3, <2>2
    <3>2. 2 * s > d \/ (2 * s = d /\ p % 2 = 1)
      BY <1>1, <1>2, <1>6, <2>1, <3>1
    <3> QED BY <1>2, <1>4, <1>6, <2>2, <3>2
  <2> QED BY <1>1, <1>2, <1>5, <1>6, <2>2
<1>7. CASE q + 1 <= p
  BY <1>1, <1>2, <1>5, <1>7
<1>8. CASE p + 1 <= q
  <2>1. (p + 1) * d <= q * d /\ (p + 1) * d = p * d + d /\ p * d \in Nat /\ q * d \in Nat
    BY <1>1, <1>2, <1>8
  <2> QED BY <1>1, <1>2, <2>1
<1> QED BY <1>1, <1>2, <1>6, <1>7, <1>8

Judgements == [Item -> DOMAIN Share]

LEMMA Shares == \A v \in DOMAIN Share : Share[v] \in {0, 4, 10}
BY DEF Share

\* What weighs on a device: no less for a more important one that does no better.
LEMMA WeighedFollows ==
    ASSUME NEW b \in Box, NEW v \in Judgements, NEW found \in SUBSET Match,
           NEW c \in Box, NEW w \in Judgements, NEW lost \in SUBSET Match,
           Criticality[b] <= Criticality[c], found \subseteq lost, \A i \in Item : Share[v[i]] <= Share[w[i]]
    PROVE  Weighed(b, v, found) \in Nat /\ Weighed(c, w, lost) \in Nat /\ Weighed(b, v, found) <= Weighed(c, w, lost)
<1> DEFINE f == [i \in Item |-> Weight[i] * Share[v[i]]]
           g == [i \in Item |-> Weight[i] * Share[w[i]]]
<1>1. /\ IsFiniteSet(Item) /\ IsFiniteSet(Match) /\ \A p \in Item \cup Match : Weight[p] \in {0, 3, 8, 20, 40}
      /\ \A d \in Box : Criticality[d] \in {8, 10, 12, 15}
  BY PostureAssumption
<1>2. ASSUME NEW i \in Item PROVE f[i] \in Nat /\ g[i] \in Nat /\ f[i] <= g[i]
  <2>1. v[i] \in DOMAIN Share /\ w[i] \in DOMAIN Share
    BY DEF Judgements
  <2> DEFINE a == Share[v[i]]
             e == Share[w[i]]
             k == Weight[i]
  <2>2. a \in {0, 4, 10} /\ e \in {0, 4, 10} /\ a <= e /\ k \in {0, 3, 8, 20, 40}
    BY <1>1, <2>1, Shares
  <2>3. f[i] = k * a /\ g[i] = k * e
    OBVIOUS
  <2> HIDE DEF a, e, k, f, g
  <2> QED BY <2>2, <2>3
<1> DEFINE s == Total(f, Item)
           t == Total(g, Item)
           m == Total(Weight, found)
           n == Total(Weight, lost)
<1>3. s \in Nat /\ t \in Nat /\ s <= t
  <2> HIDE DEF f, g
  <2>1. OnNaturals(f, Item) /\ OnNaturals(g, Item) /\ OnNumbers(f, Item) /\ OnNumbers(g, Item)
    BY <1>2 DEF OnNaturals, OnNumbers
  <2> QED BY <1>1, <1>2, <2>1, TotalNatural, TotalFollows
<1>4. m \in Nat /\ n \in Nat /\ m <= n
  <2>1. IsFiniteSet(lost) /\ OnNaturals(Weight, lost) /\ IsFiniteSet(found) /\ OnNaturals(Weight, found)
    BY <1>1, FS_Subset DEF OnNaturals
  <2> QED BY <2>1, TotalNatural, TotalOfPart
<1>5. Weighed(b, v, found) = Criticality[b] * (s + 10 * m) /\ Weighed(c, w, lost) = Criticality[c] * (t + 10 * n)
  BY DEF Weighed
<1> DEFINE x == s + 10 * m
           y == t + 10 * n
           h == Criticality[b]
           l == Criticality[c]
<1>6. h \in {8, 10, 12, 15} /\ l \in {8, 10, 12, 15} /\ h <= l
  BY <1>1
<1> HIDE DEF s, t, m, n, h, l
<1>7. x \in Nat /\ y \in Nat /\ x <= y
  BY <1>3, <1>4
<1> HIDE DEF x, y
<1>8. h * x \in Nat /\ l * y \in Nat /\ h * x <= l * y
  <2>1. h * x <= h * y
    BY <1>6, <1>7
  <2>2. h * y <= l * y
    BY <1>6, <1>7
  <2> QED BY <1>6, <1>7, <2>1, <2>2
<1> QED BY <1>5, <1>8 DEF x, y, h, l

LEMMA WeighedNatural ==
    ASSUME NEW b \in Box, NEW v \in Judgements, NEW found \in SUBSET Match
    PROVE  Weighed(b, v, found) \in Nat
<1>1. \A i \in Item : Share[v[i]] <= Share[v[i]]
  <2>1. \A i \in Item : Share[v[i]] \in {0, 4, 10}
    BY Shares DEF Judgements
  <2> QED BY <2>1
<1>2. Criticality[b] <= Criticality[b]
  <2>1. Criticality[b] \in {8, 10, 12, 15}
    BY PostureAssumption
  <2> QED BY <2>1
<1> QED BY <1>1, <1>2, WeighedFollows

LEMMA ScoreIs ==
    ASSUME NEW b \in Box, NEW v \in Judgements, NEW found \in SUBSET Match
    PROVE  ScoreDevice(b, v, found) \in 0 .. 100
<1> DEFINE n == 100 * Weighed(b, v, found)
           q == Rounded(n, 12000)
<1>1. n \in Nat
  BY WeighedNatural
<1> HIDE DEF n
<1>2. q \in Nat
  BY <1>1, RoundedIs
<1>3. ScoreDevice(b, v, found) = Min({100, q})
  BY DEF ScoreDevice, n
<1> HIDE DEF q
<1>4. Min({100, q}) = IF 100 < q THEN 100 ELSE q
  BY <1>2, LesserIs
<1> QED BY <1>2, <1>3, <1>4

LEMMA ScoresFollow ==
    ASSUME NEW b \in Box, NEW v \in Judgements, NEW found \in SUBSET Match,
           NEW c \in Box, NEW w \in Judgements, NEW lost \in SUBSET Match,
           Criticality[b] <= Criticality[c], found \subseteq lost, \A i \in Item : Share[v[i]] <= Share[w[i]]
    PROVE  ScoreDevice(b, v, found) <= ScoreDevice(c, w, lost)
<1> DEFINE x == Weighed(b, v, found)
           y == Weighed(c, w, lost)
           n == 100 * x
           m == 100 * y
           q == Rounded(n, 12000)
           r == Rounded(m, 12000)
<1>1. x \in Nat /\ y \in Nat /\ x <= y
  BY WeighedFollows
<1>2. ScoreDevice(b, v, found) = Min({100, q}) /\ ScoreDevice(c, w, lost) = Min({100, r})
  BY DEF ScoreDevice
<1> HIDE DEF x, y
<1>3. n \in Nat /\ m \in Nat /\ n <= m
  BY <1>1
<1> HIDE DEF n, m
<1>4. q \in Nat /\ r \in Nat /\ q <= r
  BY <1>3, RoundedIs, RoundedFollows
<1> HIDE DEF q, r
<1>5. Min({100, q}) = (IF 100 < q THEN 100 ELSE q) /\ Min({100, r}) = (IF 100 < r THEN 100 ELSE r)
  BY <1>4, LesserIs
<1> QED BY <1>2, <1>4, <1>5

\* The estate's score lies between the mean and the worst, but for rounding.
LEMMA RollUpIs ==
    ASSUME NEW S, IsFiniteSet(S), S # {}, NEW score, \A b \in S : score[b] \in 0 .. 100
    PROVE  /\ RollUp(score, S) \in Nat /\ RollUp(score, S) <= Max({score[b] : b \in S})
           /\ (RollUp(score, S) + 1) * Cardinality(S) >= Total(score, S)
<1> DEFINE V == {score[b] : b \in S}
           M == Max(V)
           n == Cardinality(S)
           T == Total(score, S)
           k == 6 * n * M + 4 * T
           d == 10 * n
           q == Rounded(k, d)
<1>1. n \in Nat \ {0}
  BY FS_CardinalityType, FS_EmptySet
<1>2. M \in V /\ \A x \in V : x <= M
  <2>1. IsFiniteSet(V) /\ V # {} /\ V \subseteq Int
    <3>1. IsFiniteSet(V)
      <4> DEFINE f == [b \in S |-> score[b]]
      <4>1. f \in Surjection(S, V)
        BY DEF Surjection
      <4> HIDE DEF f, V
      <4> QED BY <4>1, FS_Surjection
    <3> QED BY <3>1
  <2> HIDE DEF V
  <2>2. PICK m \in V : \A x \in V : x <= m
    BY <2>1, FiniteExtremes
  <2>3. Max(V) = m
    BY <2>1, <2>2, MaxOf
  <2> QED BY <2>2, <2>3
<1>3. M \in 0 .. 100 /\ \A b \in S : score[b] <= M
  <2> HIDE DEF M
  <2> QED BY <1>2
<1>4. OnNaturals(score, S)
  BY DEF OnNaturals
<1> HIDE DEF V, M
<1>5. T \in Nat /\ T <= M * n /\ T <= 100 * n
  <2>1. \A b \in S : score[b] <= 100
    OBVIOUS
  <2> QED BY <1>3, <1>4, <2>1, TotalNatural, TotalBounded
<1>6. RollUp(score, S) = Min({100, q})
  BY DEF RollUp, M, V
<1> HIDE DEF n, T
<1> DEFINE z == M * n
<1>7. z \in Nat /\ 6 * n * M = 6 * z /\ M * (10 * n) = 10 * z
  BY <1>1, <1>3
<1>8. k = 6 * z + 4 * T
  BY <1>7
<1>9. T <= z
  BY <1>5
<1> HIDE DEF z
<1>10. k \in Nat /\ d \in Nat \ {0} /\ k <= 10 * z /\ k >= 10 * T
  <2> HIDE DEF k
  <2> QED BY <1>1, <1>5, <1>7, <1>8, <1>9
<1>11. k <= M * d
  <2> HIDE DEF k
  <2> QED BY <1>7, <1>10
<1> HIDE DEF k
<1>12. q \in Nat /\ (q + 1) * d > k /\ q <= M
  <2> HIDE DEF d
  <2>1. M \in Nat
    BY <1>3
  <2> QED BY <1>10, <1>11, <2>1, RoundedIs
<1> HIDE DEF q
<1>13. (q + 1) * d = 10 * ((q + 1) * n)
  BY <1>1, <1>12
<1> DEFINE u == (q + 1) * n
<1>14. u \in Nat /\ 10 * u > 10 * T
  <2>1. u \in Nat
    BY <1>1, <1>12
  <2>2. 10 * u > k
    BY <1>12, <1>13
  <2> HIDE DEF u
  <2> QED BY <1>5, <1>10, <2>1, <2>2
<1>15. u > T
  <2> HIDE DEF u
  <2> QED BY <1>5, <1>14
<1>16. Min({100, q}) = q
  BY <1>3, <1>12, LesserIs
<1> QED BY <1>6, <1>12, <1>15, <1>16, <1>5, <1>14 DEF n, T, M, V

\* It depends on the scores of those it rolls up alone.
LEMMA RollUpSame ==
    ASSUME NEW S, IsFiniteSet(S), NEW score, \A b \in S : score[b] \in Int, NEW other, \A b \in S : other[b] = score[b]
    PROVE  RollUp(score, S) = RollUp(other, S)
<1>1. Total(score, S) = Total(other, S)
  <2>1. OnNumbers(score, S) /\ \A b \in S : score[b] = other[b]
    BY DEF OnNumbers
  <2> QED BY <2>1, TotalSame
<1>2. {score[b] : b \in S} = {other[b] : b \in S}
  OBVIOUS
<1> QED BY <1>1, <1>2 DEF RollUp

\* Every score has a letter.
LEMMA GradeIs == \A score \in 0 .. 100 : GradeFor(score) \in 1 .. 6
<1> SUFFICES ASSUME NEW score \in 0 .. 100 PROVE GradeFor(score) \in 1 .. 6
  OBVIOUS
<1> DEFINE S == {g \in 1 .. 6 : score <= Grades[g]}
<1>1. DOMAIN Grades = 1 .. 6 /\ Grades[6] = 100
  BY DEF Grades
<1>2. 6 \in S /\ S \subseteq 1 .. 6
  BY <1>1
<1>3. GradeFor(score) = Min(S)
  BY <1>1 DEF GradeFor
<1>4. IsFiniteSet(S)
  <2>1. 1 \in Int /\ 6 \in Int
    OBVIOUS
  <2>2. IsFiniteSet(1 .. 6)
    BY <2>1, FS_Interval
  <2> QED BY <2>2, FS_Subset
<1> HIDE DEF S
<1>5. PICK m \in S : \A x \in S : m <= x
  <2>1. S # {} /\ S \subseteq Int
    BY <1>2
  <2> QED BY <1>4, <2>1, FiniteExtremes
<1>6. Min(S) = m
  <2>1. S \subseteq Int
    BY <1>2
  <2> QED BY <1>5, <2>1, MinOf
<1> QED BY <1>2, <1>3, <1>5, <1>6

-----------------------------------------------------------------------------
(* The posture: what its tables keep *)

AReading == [box : Box, day : Nat, verdict : Judgements, found : SUBSET Match, score : Nat]
PStatus == Kept \cup {"none", "resolved", "risk_accepted"}
AFinding == [status : PStatus, first : Nat, resolved : Nat]
ATransition == [box : Box, problem : Problem, day : Nat, from : PStatus, to : PStatus]

PostureTypeOK ==
    /\ today \in Nat \ {0} /\ today - 1 <= MaxDay /\ retained \subseteq Box
    /\ reading \in Seq(AReading) /\ row \in [Box -> [Problem -> AFinding]]
    /\ log \in Seq(ATransition) /\ levels \in Seq([Box -> Int]) /\ Len(levels) = today - 1

\* Readings come in the order of their days, each with the score of what it saw.
ScoredInTurn ==
    /\ \A i \in DOMAIN reading :
        LET r == reading[i] IN r.day \in 1 .. today /\ r.score = ScoreDevice(r.box, r.verdict, r.found)
    /\ \A i, j \in DOMAIN reading : i <= j => reading[i].day <= reading[j].day

\* What was noted at the end of a day is still what stood then.
Levelled == \A day \in 1 .. today - 1, b \in Box : levels[day][b] = Standing(day, b)

\* A row tells its first transition and its last.
OwnSteps(x) == {i \in DOMAIN log : log[i].box = x[1] /\ log[i].problem = x[2]}

Spans(x, f, low, high) ==
    /\ \A i \in OwnSteps(x) : low <= i /\ i <= high /\ (log[i].from = "none" => i = low)
    /\ log[low].from = "none" /\ f.first = log[low].day /\ f.status = log[high].to /\ f.status # "none"
    /\ f.status = "resolved" => f.resolved = log[high].day

RowTold(x) ==
    LET f == row[x[1]][x[2]]
    IN IF OwnSteps(x) = {} THEN f = NoFinding ELSE \E low, high \in OwnSteps(x) : Spans(x, f, low, high)

\* What is reopened was resolved or accepted, and what is new was not there.
Natural(from, to) ==
    /\ to = "reopened" => from \in {"resolved", "risk_accepted"}
    /\ to = "new" => from = "none"

AllTold ==
    /\ \A i \in DOMAIN log : log[i].day \in 1 .. today /\ Natural(log[i].from, log[i].to)
    /\ \A x \in FindingKeys : RowTold(x)

\* What is listed now, less what the earlier report listed, is what opened since
\* less what closed; and the report's total is that of its severities.
Severities == {0, 3, 8, 20, 40}
Opened(n) == {i \in DOMAIN log : i > n /\ log[i].to \in Kept /\ log[i].from \notin Kept}
Closed(n) == {i \in DOMAIN log : i > n /\ log[i].from \in Kept /\ log[i].to \notin Kept}

Balanced ==
    earlier # <<>> =>
        /\ earlier[2] \in Nat /\ earlier[1].findings \in Nat /\ \A w \in Severities : earlier[1].severity[w] \in Nat
        /\ earlier[1].findings = Total(earlier[1].severity, Severities)
        /\ Cardinality(Listed) - earlier[1].findings = Cardinality(Opened(earlier[2])) - Cardinality(Closed(earlier[2]))
        /\ earlier[2] <= Len(log)

PostureInv == PostureTypeOK /\ ScoredInTurn /\ Levelled /\ AllTold /\ Balanced

\* The score of the last of some readings, or -1.
NewestScore(I) == IF I = {} THEN -1 ELSE reading[Max(I)].score

LEMMA Newest1 ==
    ASSUME PostureTypeOK, NEW I \in SUBSET DOMAIN reading
    PROVE  /\ I # {} => Max(I) \in I /\ \A i \in I : i <= Max(I)
           /\ NewestScore(I) \in Int /\ (NewestScore(I) >= 0 <=> I # {})
<1> DEFINE n == Len(reading)
<1>1. n \in Nat /\ DOMAIN reading = 1 .. n /\ \A i \in 1 .. n : reading[i] \in AReading
  BY DEF PostureTypeOK
<1> HIDE DEF n
<1>2. I \subseteq 0 .. n
  BY <1>1
<1>3. I # {} => Max(I) \in I /\ \A i \in I : i <= Max(I)
  BY <1>1, <1>2, Greatest
<1>4. CASE I = {}
  BY <1>4 DEF NewestScore
<1>5. CASE I # {}
  <2>1. reading[Max(I)] \in AReading
    BY <1>1, <1>2, <1>3, <1>5
  <2>2. reading[Max(I)].score \in Nat
    BY <2>1 DEF AReading
  <2> QED BY <1>3, <1>5, <2>2 DEF NewestScore
<1> QED BY <1>3, <1>4, <1>5

UpTo(day, b) == {i \in DOMAIN reading : reading[i].box = b /\ reading[i].day <= day}
OnDay(day, b) == {i \in DOMAIN reading : reading[i].box = b /\ reading[i].day = day}

LEMMA StandingIs == \A day, b : Standing(day, b) = NewestScore(UpTo(day, b))
BY DEF Standing, NewestScore, UpTo

\* What stands at the end of a day is that day's last score, or what stood before.
LEMMA StandingStep ==
    ASSUME PostureTypeOK, ScoredInTurn, NEW day \in Nat \ {0}, NEW b \in Box
    PROVE  /\ Standing(day, b) \in Int
           /\ LastIn(b, {day}) = NewestScore(OnDay(day, b))
           /\ Standing(day, b) = IF LastIn(b, {day}) >= 0 THEN LastIn(b, {day}) ELSE Standing(day - 1, b)
<1> DEFINE I == OnDay(day, b)
           U == UpTo(day, b)
           L == UpTo(day - 1, b)
<1>1. I \in SUBSET DOMAIN reading /\ U \in SUBSET DOMAIN reading /\ L \in SUBSET DOMAIN reading
  BY DEF OnDay, UpTo
<1>2. \A i \in DOMAIN reading : i \in Nat /\ reading[i].day \in Nat
  <2>1. \A i \in DOMAIN reading : i \in Nat /\ reading[i] \in AReading
    BY DEF PostureTypeOK
  <2> QED BY <2>1 DEF AReading
<1>3. LastIn(b, {day}) = NewestScore(I)
  BY DEF LastIn, ReadingsOf, NewestScore, OnDay
<1>4. Standing(day, b) = NewestScore(U) /\ Standing(day - 1, b) = NewestScore(L)
  BY StandingIs
<1>5. U = I \cup L
  <2>1. \A i \in DOMAIN reading : reading[i].day <= day <=> reading[i].day = day \/ reading[i].day <= day - 1
    BY <1>2
  <2> QED BY <2>1 DEF UpTo, OnDay
<1>6. \A i \in I, j \in L : ~(i <= j)
  <2> SUFFICES ASSUME NEW i \in I, NEW j \in L, i <= j PROVE FALSE
    OBVIOUS
  <2>1. i \in DOMAIN reading /\ j \in DOMAIN reading /\ reading[i].day = day /\ reading[j].day <= day - 1
    BY DEF OnDay, UpTo
  <2>2. reading[i].day <= reading[j].day
    BY <2>1 DEF ScoredInTurn
  <2> QED BY <1>2, <2>1, <2>2
<1> HIDE DEF I, U, L
<1>7. CASE I = {}
  <2>1. U = L /\ ~(NewestScore(I) >= 0)
    BY <1>1, <1>5, <1>7, Newest1
  <2> QED BY <1>1, <1>3, <1>4, <2>1, Newest1 DEF I
<1>8. CASE I # {}
  <2>1. NewestScore(I) >= 0 /\ Max(I) \in I /\ Max(U) \in U /\ U # {} /\ \A i \in I : i <= Max(I)
    BY <1>1, <1>5, <1>8, Newest1
  <2>2. \A i \in U : i <= Max(U)
    BY <1>1, <2>1, Newest1
  <2>3. Max(I) \in U /\ Max(I) <= Max(U)
    BY <1>5, <2>1, <2>2
  <2>4. Max(U) \in I
    BY <1>5, <1>6, <2>1, <2>3
  <2>5. Max(U) <= Max(I) /\ Max(U) \in Nat /\ Max(I) \in Nat
    BY <1>1, <1>2, <2>1, <2>4
  <2>6. Max(U) = Max(I)
    BY <2>3, <2>5
  <2>7. NewestScore(U) = NewestScore(I)
    BY <1>8, <2>1, <2>6 DEF NewestScore
  <2> QED BY <1>1, <1>3, <1>4, <2>1, <2>7, Newest1 DEF I
<1> QED BY <1>7, <1>8

\* Some numbers have a least.
LEMMA LeastNumber ==
    ASSUME NEW B \in SUBSET Nat, B # {}
    PROVE  \E m \in B : \A x \in B : m <= x
<1>1. PICK m \in B : \A y \in B : <<y, m>> \notin OpToRel(<, Nat)
  BY NatLessThanWellFounded, WFMin
<1>2. \A y \in B : ~(y < m)
  BY <1>1 DEF OpToRel
<1> QED BY <1>2

LEMMA SinceIs == PostureTypeOK => Since \in Nat \ {0}
<1> SUFFICES ASSUME PostureTypeOK PROVE Since \in Nat \ {0}
  OBVIOUS
<1>1. today \in Nat /\ TrendDays \in Nat
  BY PostureAssumption DEF PostureTypeOK
<1> DEFINE n == today - TrendDays + 1
<1>2. n \in Int
  BY <1>1
<1> HIDE DEF n
<1>3. Max({1, n}) = IF 1 < n THEN n ELSE 1
  BY <1>2, LargerIs
<1> QED BY <1>2, <1>3 DEF Since, n

\* The fold over the window's days is what stood at the end of each.
LEMMA StandingFromIs ==
    ASSUME PostureTypeOK, ScoredInTurn
    PROVE  \A day \in 0 .. MaxDay : day >= Since - 1 => \A b \in retained : StandingFrom[day][b] = Standing(day, b)
<1> DEFINE W(f) == [day \in 0 .. MaxDay |->
                      IF day < Since THEN [b \in retained |-> LastIn(b, 1 .. (Since - 1))]
                      ELSE [b \in retained |-> IF LastIn(b, {day}) >= 0 THEN LastIn(b, {day}) ELSE f[day - 1][b]]]
           f == [day \in 0 .. MaxDay |-> IF day < Since THEN [b \in retained |-> LastIn(b, 1 .. (Since - 1))]
                                         ELSE [b \in retained |-> Standing(day, b)]]
<1>1. Since \in Nat \ {0} /\ MaxDay \in Nat /\ retained \subseteq Box
  BY SinceIs, PostureAssumption DEF PostureTypeOK
<1>2. ASSUME NEW b \in retained PROVE LastIn(b, 1 .. (Since - 1)) = Standing(Since - 1, b)
  <2>1. \A i \in DOMAIN reading : reading[i].day \in Nat \ {0}
    BY DEF ScoredInTurn
  <2>2. \A i \in DOMAIN reading : reading[i].day \in 1 .. (Since - 1) <=> reading[i].day <= Since - 1
    BY <1>1, <2>1
  <2>3. {i \in ReadingsOf(b) : reading[i].day \in 1 .. (Since - 1)} = {i \in DOMAIN reading : reading[i].box = b /\ reading[i].day <= Since - 1}
    BY <2>2 DEF ReadingsOf
  <2> QED BY <2>3 DEF LastIn, Standing
<1>3. ASSUME NEW day \in 0 .. MaxDay, day >= Since, NEW b \in retained
      PROVE  day - 1 \in 0 .. MaxDay /\ Standing(day, b) = IF LastIn(b, {day}) >= 0 THEN LastIn(b, {day}) ELSE Standing(day - 1, b)
  <2>1. day \in Nat \ {0} /\ day - 1 \in 0 .. MaxDay /\ b \in Box
    BY <1>1, <1>3
  <2> QED BY <2>1, StandingStep
<1>4. f = W(f)
  <2>1. ASSUME NEW day \in 0 .. MaxDay, day >= Since, NEW b \in retained PROVE f[day - 1][b] = Standing(day - 1, b)
    <3>1. CASE day = Since
      BY <1>1, <1>2, <1>3, <2>1, <3>1
    <3>2. CASE day # Since
      <4>1. day - 1 \in 0 .. MaxDay /\ ~(day - 1 < Since)
        BY <1>1, <2>1, <3>2
      <4> QED BY <4>1
    <3> QED BY <3>1, <3>2
  <2>2. ASSUME NEW day \in 0 .. MaxDay PROVE f[day] = W(f)[day]
    <3>1. CASE day < Since
      BY <3>1
    <3>2. CASE ~(day < Since)
      <4>1. day >= Since
        BY <1>1, <3>2
      <4>2. f[day] = [b \in retained |-> Standing(day, b)]
        BY <3>2
      <4>3. W(f)[day] = [b \in retained |-> IF LastIn(b, {day}) >= 0 THEN LastIn(b, {day}) ELSE f[day - 1][b]]
        BY <3>2
      <4> HIDE DEF f, W
      <4>4. \A b \in retained : Standing(day, b) = IF LastIn(b, {day}) >= 0 THEN LastIn(b, {day}) ELSE f[day - 1][b]
        BY <1>3, <2>1, <4>1
      <4> QED BY <4>2, <4>3, <4>4
    <3> QED BY <3>1, <3>2
  <2>3. f = [day \in 0 .. MaxDay |-> f[day]] /\ W(f) = [day \in 0 .. MaxDay |-> W(f)[day]]
    OBVIOUS
  <2> HIDE DEF f, W
  <2> QED BY <2>2, <2>3
<1>5. StandingFrom = CHOOSE h : h = W(h)
  BY DEF StandingFrom
<1> HIDE DEF f
<1>6. StandingFrom = W(StandingFrom)
  <2> HIDE DEF W
  <2> QED BY <1>4, <1>5
<1> DEFINE Right(day) == \A b \in retained : StandingFrom[day][b] = Standing(day, b)
           B == {day \in 0 .. MaxDay : day >= Since - 1 /\ ~Right(day)}
<1> SUFFICES ASSUME B # {} PROVE FALSE
  OBVIOUS
<1>7. PICK day \in B : \A x \in B : day <= x
  <2>1. B \in SUBSET Nat
    OBVIOUS
  <2> HIDE DEF B
  <2> QED BY <2>1, LeastNumber
<1>8. day \in 0 .. MaxDay /\ day >= Since - 1 /\ ~Right(day)
  BY <1>7
<1>9. CASE day < Since
  <2>1. day = Since - 1
    BY <1>1, <1>8, <1>9
  <2>2. StandingFrom[day] = [b \in retained |-> LastIn(b, 1 .. (Since - 1))]
    BY <1>6, <1>8, <1>9
  <2> QED BY <1>2, <1>8, <2>1, <2>2
<1>10. CASE ~(day < Since)
  <2>1. day >= Since /\ day - 1 \in 0 .. MaxDay /\ day - 1 >= Since - 1 /\ ~(day <= day - 1)
    BY <1>1, <1>8, <1>10
  <2>2. Right(day - 1)
    BY <1>7, <2>1
  <2>3. StandingFrom[day] = [b \in retained |-> IF LastIn(b, {day}) >= 0 THEN LastIn(b, {day}) ELSE StandingFrom[day - 1][b]]
    BY <1>6, <1>8, <1>10
  <2>4. ASSUME NEW b \in retained PROVE StandingFrom[day][b] = Standing(day, b)
    <3>1. StandingFrom[day][b] = IF LastIn(b, {day}) >= 0 THEN LastIn(b, {day}) ELSE StandingFrom[day - 1][b]
      BY <2>3
    <3>2. StandingFrom[day - 1][b] = Standing(day - 1, b)
      BY <2>2
    <3>3. Standing(day, b) = IF LastIn(b, {day}) >= 0 THEN LastIn(b, {day}) ELSE Standing(day - 1, b)
      BY <1>3, <1>8, <2>1
    <3> QED BY <3>1, <3>2, <3>3
  <2> QED BY <1>8, <2>4
<1> QED BY <1>9, <1>10

LEMMA SeriesOfTheEstate == PostureTypeOK /\ ScoredInTurn /\ Levelled => EstateSeriesIsTrue
<1> SUFFICES ASSUME PostureTypeOK, ScoredInTurn, Levelled, NEW day \in Since .. (today - 1)
             PROVE  LET known == {b \in retained : levels[day][b] >= 0}
                    IN EstateRisk(day) = [devices |-> Cardinality(known), score |-> RollUp(levels[day], known)]
  BY DEF EstateSeriesIsTrue
<1> DEFINE known == {b \in retained : levels[day][b] >= 0}
           other == {b \in retained : StandingFrom[day][b] >= 0}
<1>1. day \in 1 .. today - 1 /\ day \in 0 .. MaxDay /\ day >= Since - 1 /\ day \in Nat \ {0} /\ retained \subseteq Box /\ IsFiniteSet(retained)
  <2>1. Since \in Nat \ {0} /\ today \in Nat /\ today - 1 <= MaxDay /\ retained \subseteq Box /\ MaxDay \in Nat
    BY SinceIs, PostureAssumption DEF PostureTypeOK
  <2>2. IsFiniteSet(retained)
    BY <2>1, PostureAssumption, FS_Subset
  <2> QED BY <2>1, <2>2
<1>2. ASSUME NEW b \in retained PROVE StandingFrom[day][b] = levels[day][b] /\ levels[day][b] \in Int
  <2>1. levels[day][b] = Standing(day, b) /\ Standing(day, b) \in Int
    BY <1>1, StandingStep DEF Levelled
  <2>2. StandingFrom[day][b] = Standing(day, b)
    BY <1>1, StandingFromIs
  <2> QED BY <2>1, <2>2
<1>3. known = other
  BY <1>2
<1>4. IsFiniteSet(known) /\ known \subseteq retained
  BY <1>1, FS_Subset
<1> HIDE DEF known, other
<1>5. RollUp(StandingFrom[day], other) = RollUp(levels[day], known)
  <2> DEFINE score == levels[day]
             also == StandingFrom[day]
  <2>1. \A b \in known : score[b] \in Int /\ also[b] = score[b]
    BY <1>2, <1>4
  <2> HIDE DEF score, also
  <2>2. RollUp(score, known) = RollUp(also, known)
    BY <1>4, <2>1, RollUpSame
  <2> QED BY <1>3, <2>2 DEF score, also
<1>6. EstateRisk(day) = [devices |-> Cardinality(other), score |-> RollUp(StandingFrom[day], other)]
  BY DEF EstateRisk, other
<1> QED BY <1>3, <1>5, <1>6 DEF known

\* The devices that have a letter have the score of their last reading.
LEMMA ScoresAre ==
    ASSUME PostureTypeOK, ScoredInTurn
    PROVE  /\ IsFiniteSet(Graded) /\ Graded \subseteq retained /\ DOMAIN Scores = Graded
           /\ \A b \in Graded : Scores[b] \in 0 .. 100
<1>1. IsFiniteSet(Graded) /\ Graded \subseteq retained
  <2>1. Graded \subseteq Box /\ Graded \subseteq retained
    BY DEF Graded, PostureTypeOK
  <2> QED BY <2>1, PostureAssumption, FS_Subset
<1>2. ASSUME NEW b \in Graded PROVE Scores[b] \in 0 .. 100
  <2> DEFINE I == ReadingsOf(b)
             i == Max(I)
  <2>1. I # {} /\ I \in SUBSET DOMAIN reading
    BY DEF Graded, ReadingsOf
  <2>2. i \in DOMAIN reading
    <3> HIDE DEF I
    <3> QED BY <2>1, Newest1
  <2>3. Scores[b] = reading[i].score
    BY DEF Scores
  <2> HIDE DEF i
  <2>4. reading[i] \in AReading /\ reading[i].score = ScoreDevice(reading[i].box, reading[i].verdict, reading[i].found)
    BY <2>2 DEF PostureTypeOK, ScoredInTurn
  <2>5. reading[i].box \in Box /\ reading[i].verdict \in Judgements /\ reading[i].found \in SUBSET Match
    BY <2>4 DEF AReading
  <2> QED BY <2>3, <2>4, <2>5, ScoreIs
<1>3. DOMAIN Scores = Graded
  BY DEF Scores
<1> QED BY <1>1, <1>2, <1>3

\* What a step adds to one side of the balance.
LEMMA Gains ==
    ASSUME NEW O, NEW N, NEW P, IsFiniteSet(O), IsFiniteSet(N), P = O \cup N, O \cap N = {}
    PROVE  IsFiniteSet(P) /\ Cardinality(P) = Cardinality(O) + Cardinality(N)
<1>1. IsFiniteSet(P) /\ Cardinality(P) = Cardinality(O) + Cardinality(N) - Cardinality(O \cap N)
  BY FS_Union
<1>2. Cardinality(O \cap N) = 0 /\ Cardinality(O) \in Nat /\ Cardinality(N) \in Nat
  BY FS_EmptySet, FS_CardinalityType
<1> QED BY <1>1, <1>2

\* The coverage is whole when every check came to a verdict, and for the rounding
\* when not one in two hundred did not.
LEMMA CoverageIs ==
    ASSUME NEW v
    PROVE  /\ Item # {} /\ Concluded(v) = Item => CoveragePercent(v) = 100
           /\ CoveragePercent(v) = 100 => 200 * Cardinality(Item \ Concluded(v)) <= Cardinality(Item)
<1> DEFINE n == Cardinality(Item)
           k == Cardinality(Concluded(v))
           m == Cardinality(Item \ Concluded(v))
<1>1. n \in Nat /\ k \in Nat /\ m \in Nat /\ n = k + m /\ (Item = {} <=> n = 0)
  <2>1. IsFiniteSet(Item) /\ Concluded(v) \subseteq Item
    BY PostureAssumption DEF Concluded
  <2>2. IsFiniteSet(Concluded(v)) /\ IsFiniteSet(Item \ Concluded(v)) /\ Item = Concluded(v) \cup (Item \ Concluded(v))
    BY <2>1, FS_Subset
  <2>3. Concluded(v) \cap (Item \ Concluded(v)) = {}
    OBVIOUS
  <2>4. n = k + m
    BY <2>2, <2>3, Gains
  <2> QED BY <2>1, <2>2, <2>4, FS_CardinalityType, FS_EmptySet
<1>2. CoveragePercent(v) = IF Item = {} THEN -1 ELSE Rounded(100 * k, n)
  BY DEF CoveragePercent
<1>3. Concluded(v) = Item => k = n
  OBVIOUS
<1> HIDE DEF n, k, m
<1>4. CASE Item = {}
  BY <1>2, <1>4
<1>5. CASE Item # {}
  <2> DEFINE top == 100 * k
             low == top \div n
             rest == top % n
  <2>1. n \in Nat \ {0} /\ top \in Nat
    BY <1>1, <1>5
  <2>2. CoveragePercent(v) = IF 2 * rest > n \/ (2 * rest = n /\ low % 2 = 1) THEN low + 1 ELSE low
    BY <1>2, <1>5 DEF Rounded
  <2>3. low \in Nat /\ rest \in Nat /\ rest < n /\ top = low * n + rest
    <3> HIDE DEF top
    <3> QED BY <2>1
  <2>4. ASSUME k = n PROVE CoveragePercent(v) = 100
    <3>1. top = 100 * n
      BY <2>4
    <3> HIDE DEF top
    <3>2. low = 100 /\ rest = 0
      BY <2>1, <3>1
    <3> HIDE DEF low, rest
    <3> QED BY <2>1, <2>2, <3>2
  <2>5. ASSUME CoveragePercent(v) = 100 PROVE 200 * m <= n
    <3> HIDE DEF low, rest
    <3>1. low = 100 \/ (low = 99 /\ 2 * rest >= n)
      BY <2>1, <2>2, <2>3, <2>5
    <3>2. CASE low = 100
      <4>1. 100 * k = 100 * n + rest
        BY <2>1, <2>3, <3>2
      <4> QED BY <1>1, <2>1, <2>3, <4>1
    <3>3. CASE low = 99 /\ 2 * rest >= n
      <4>1. 100 * k = 99 * n + rest
        BY <2>1, <2>3, <3>3
      <4> QED BY <1>1, <2>1, <2>3, <3>3, <4>1
    <3> QED BY <3>1, <3>2, <3>3
  <2>6. 200 * Cardinality(Item \ Concluded(v)) = 200 * m /\ Cardinality(Item) = n
    BY DEF m, n
  <2> HIDE DEF low, rest
  <2> QED BY <1>3, <2>4, <2>5, <2>6
<1> QED BY <1>4, <1>5

LEMMA FairScores == PostureTypeOK /\ ScoredInTurn => ScoresAreFair
<1> SUFFICES ASSUME PostureTypeOK, ScoredInTurn PROVE ScoresAreFair
  OBVIOUS
<1>0. \A x \in Range(reading) : x \in AReading /\ x.score = ScoreDevice(x.box, x.verdict, x.found)
  BY DEF PostureTypeOK, ScoredInTurn, Range
<1>0a. \A x \in Range(reading) : x.box \in Box /\ x.verdict \in Judgements /\ x.found \in SUBSET Match
  BY <1>0 DEF AReading
<1>1. ASSUME NEW one \in Range(reading), NEW two \in Range(reading), Criticality[one.box] <= Criticality[two.box], one.found \subseteq two.found,
             \A c \in Concluded(one.verdict) : c \in Concluded(two.verdict) /\ Share[one.verdict[c]] <= Share[two.verdict[c]]
      PROVE  one.score <= two.score
  <2> DEFINE b == one.box
             v == one.verdict
             found == one.found
             c == two.box
             w == two.verdict
             lost == two.found
  <2>3. /\ b \in Box /\ v \in Judgements /\ found \in SUBSET Match /\ c \in Box /\ w \in Judgements /\ lost \in SUBSET Match
        /\ Criticality[b] <= Criticality[c] /\ found \subseteq lost /\ \A i \in Item : Share[v[i]] <= Share[w[i]]
    <3>1. ASSUME NEW i \in Item PROVE Share[v[i]] <= Share[w[i]]
      <4>1. v[i] \in DOMAIN Share /\ w[i] \in DOMAIN Share
        BY <1>0a DEF Judgements
      <4>2. CASE v[i] = "unknown"
        <5>1. Share[v[i]] = 0 /\ Share[w[i]] \in {0, 4, 10}
          BY <4>1, <4>2, Shares DEF Share
        <5> QED BY <5>1
      <4>3. CASE v[i] # "unknown"
        BY <1>1, <4>3 DEF Concluded
      <4> QED BY <4>2, <4>3
    <3> QED BY <1>0a, <1>1, <3>1
  <2>4. one.score = ScoreDevice(b, v, found) /\ two.score = ScoreDevice(c, w, lost)
    BY <1>0
  <2> HIDE DEF b, v, found, c, w, lost
  <2> QED BY <2>3, <2>4, ScoresFollow
<1>3. ASSUME NEW r \in Range(reading), NEW deserved \in [Item -> DOMAIN Share], \A c \in Concluded(r.verdict) : deserved[c] = r.verdict[c]
      PROVE  r.score <= ScoreDevice(r.box, deserved, r.found)
  <2> DEFINE b == r.box
             v == r.verdict
             found == r.found
  <2>1. b \in Box /\ v \in Judgements /\ found \in SUBSET Match /\ deserved \in Judgements /\ r.score = ScoreDevice(b, v, found)
    BY <1>0, <1>0a DEF Judgements
  <2>2. ASSUME NEW i \in Item PROVE Share[v[i]] <= Share[deserved[i]]
    <3>1. v[i] \in DOMAIN Share /\ deserved[i] \in DOMAIN Share
      BY <2>1 DEF Judgements
    <3>2. Share[v[i]] \in {0, 4, 10} /\ Share[deserved[i]] \in {0, 4, 10}
      BY <3>1, Shares
    <3>3. CASE v[i] = "unknown"
      <4>1. Share[v[i]] = 0
        BY <3>3 DEF Share
      <4> QED BY <3>2, <4>1
    <3>4. CASE v[i] # "unknown"
      <4>1. deserved[i] = v[i]
        BY <1>3, <3>4 DEF Concluded
      <4> QED BY <3>2, <4>1
    <3> QED BY <3>3, <3>4
  <2>3. Criticality[b] <= Criticality[b] /\ found \subseteq found
    <3>1. Criticality[b] \in {8, 10, 12, 15}
      BY <2>1, PostureAssumption
    <3> QED BY <3>1
  <2> HIDE DEF b, v, found
  <2>4. ScoreDevice(b, v, found) <= ScoreDevice(b, deserved, found)
    BY <2>1, <2>2, <2>3, ScoresFollow
  <2> QED BY <2>1, <2>4 DEF b, found
<1>4. ASSUME NEW r \in Range(reading)
      PROVE  /\ Item # {} /\ Concluded(r.verdict) = Item => CoveragePercent(r.verdict) = 100
             /\ CoveragePercent(r.verdict) = 100 => 200 * Cardinality(Item \ Concluded(r.verdict)) <= Cardinality(Item)
  BY CoverageIs
<1>2. ASSUME Graded # {} PROVE EstateScore <= Max(Range(Scores)) /\ (EstateScore + 1) * Cardinality(Graded) >= Total(Scores, Graded)
  <2>1. Range(Scores) = {Scores[b] : b \in Graded}
    BY ScoresAre DEF Range
  <2>2. IsFiniteSet(Graded) /\ \A b \in Graded : Scores[b] \in 0 .. 100
    BY ScoresAre
  <2>3. /\ RollUp(Scores, Graded) <= Max({Scores[b] : b \in Graded})
        /\ (RollUp(Scores, Graded) + 1) * Cardinality(Graded) >= Total(Scores, Graded)
    BY <1>2, <2>2, RollUpIs
  <2> QED BY <2>1, <2>3 DEF EstateScore
<1> QED BY <1>1, <1>2, <1>3, <1>4 DEF ScoresAreFair

\* A transition of one finding, and a log that a device's findings have added to.
Transition(b, p, after) == [box |-> b, problem |-> p, day |-> today, from |-> row[b][p].status, to |-> after[p].status]

Adds(l, b, after) ==
    /\ l \in Seq(ATransition) /\ Len(l) >= Len(log)
    /\ \A i \in DOMAIN log : i \in DOMAIN l /\ i <= Len(log) /\ l[i] = log[i]
    /\ \A i \in DOMAIN l : i \in DOMAIN log \/ i > Len(log)
    /\ \A i \in DOMAIN l : i > Len(log) => \E p \in Problem : row[b][p].status # after[p].status /\ l[i] = Transition(b, p, after)
    /\ \A p \in Problem : row[b][p].status # after[p].status => \E i \in DOMAIN l : i > Len(log) /\ l[i] = Transition(b, p, after)
    /\ \A i, j \in DOMAIN l : i > Len(log) /\ j > Len(log) /\ l[i].problem = l[j].problem => i = j

LEMMA ProblemsFinite == IsFiniteSet(Problem) /\ IsFiniteSet(FindingKeys)
<1>1. IsFiniteSet(Problem)
  BY PostureAssumption, FS_Union DEF Problem
<1> QED BY <1>1, PostureAssumption, FS_Product DEF FindingKeys

LEMMA Added ==
    ASSUME PostureTypeOK, NEW b \in Box, NEW after \in [Problem -> AFinding]
    PROVE  Adds(log \o Transitions(b, after), b, after)
<1> DEFINE changed == {p \in Problem : row[b][p].status # after[p].status}
           T == {Transition(b, p, after) : p \in changed}
           f == [p \in changed |-> Transition(b, p, after)]
           s == SetToSeq(T)
           l == log \o s
           n == Len(log)
<1>1. Transitions(b, after) = s
  BY DEF Transitions, Transition
<1>2. \A p \in Problem : Transition(b, p, after) \in ATransition /\ Transition(b, p, after).problem = p
  <2>1. ASSUME NEW p \in Problem PROVE row[b][p] \in AFinding /\ after[p] \in AFinding /\ today \in Nat
    BY DEF PostureTypeOK
  <2>2. ASSUME NEW p \in Problem PROVE row[b][p].status \in PStatus /\ after[p].status \in PStatus /\ today \in Nat
    BY <2>1 DEF AFinding
  <2> QED BY <2>2 DEF Transition, ATransition
<1>3. IsFiniteSet(T)
  <2>1. IsFiniteSet(changed)
    BY ProblemsFinite, FS_Subset
  <2>2. f \in Surjection(changed, T)
    BY DEF Surjection
  <2> HIDE DEF changed, T, f
  <2> QED BY <2>1, <2>2, FS_Surjection
<1>4. T \subseteq ATransition /\ \A x, y \in T : x.problem = y.problem => x = y
  BY <1>2
<1>5. /\ s \in Seq(T) /\ \A i, j \in DOMAIN s : s[i] = s[j] => i = j
      /\ \A x \in T : \E i \in DOMAIN s : s[i] = x
  <2> HIDE DEF T
  <2> QED BY <1>3, AsSequence
<1>6. \A x \in T : \E p \in Problem : row[b][p].status # after[p].status /\ x = Transition(b, p, after)
  OBVIOUS
<1>7. \A p \in Problem : row[b][p].status # after[p].status => Transition(b, p, after) \in T
  OBVIOUS
<1> HIDE DEF changed, T, f, s
<1>8. log \in Seq(ATransition) /\ s \in Seq(ATransition) /\ n \in Nat /\ Len(s) \in Nat /\ DOMAIN log = 1 .. n /\ DOMAIN s = 1 .. Len(s)
  BY <1>4, <1>5 DEF PostureTypeOK
<1>9. l \in Seq(ATransition) /\ Len(l) = n + Len(s) /\ DOMAIN l = 1 .. n + Len(s)
  BY <1>8
<1>10. \A i \in 1 .. n + Len(s) : l[i] = IF i <= n THEN log[i] ELSE s[i - n]
  BY <1>8
<1> HIDE DEF n, l
<1>11. \A i \in DOMAIN log : i \in DOMAIN l /\ i <= n /\ l[i] = log[i]
  BY <1>8, <1>9, <1>10
<1>12. \A i \in DOMAIN l : (i \in DOMAIN log \/ i > n) /\ (i > n => i - n \in DOMAIN s /\ l[i] = s[i - n])
  BY <1>8, <1>9, <1>10
<1>13. \A i \in DOMAIN s : i + n \in DOMAIN l /\ i + n > n /\ l[i + n] = s[i]
  <2> SUFFICES ASSUME NEW i \in DOMAIN s PROVE i + n \in DOMAIN l /\ i + n > n /\ l[i + n] = s[i]
    OBVIOUS
  <2>1. i \in Nat /\ i >= 1 /\ i <= Len(s) /\ i + n \in 1 .. n + Len(s) /\ ~(i + n <= n) /\ i + n > n /\ (i + n) - n = i
    BY <1>8
  <2> QED BY <1>9, <1>10, <2>1
<1>14. \A i \in DOMAIN s : s[i] \in T
  BY <1>5
<1>15. \A i \in DOMAIN l : i > n => \E p \in Problem : row[b][p].status # after[p].status /\ l[i] = Transition(b, p, after)
  BY <1>6, <1>12, <1>14
<1>16. \A p \in Problem : row[b][p].status # after[p].status => \E i \in DOMAIN l : i > n /\ l[i] = Transition(b, p, after)
  BY <1>5, <1>7, <1>13
<1>17. \A i, j \in DOMAIN l : i > n /\ j > n /\ l[i].problem = l[j].problem => i = j
  <2> SUFFICES ASSUME NEW i \in DOMAIN l, NEW j \in DOMAIN l, i > n, j > n, l[i].problem = l[j].problem PROVE i = j
    OBVIOUS
  <2>1. i - n \in DOMAIN s /\ j - n \in DOMAIN s /\ l[i] = s[i - n] /\ l[j] = s[j - n]
    BY <1>12
  <2>2. s[i - n] = s[j - n]
    BY <1>4, <1>14, <2>1
  <2>3. i - n = j - n
    BY <1>5, <2>1, <2>2
  <2> QED BY <1>8, <1>9, <2>3
<1>18. Len(l) >= n
  BY <1>8, <1>9
<1>19. Adds(l, b, after)
  BY <1>9, <1>11, <1>12, <1>15, <1>16, <1>17, <1>18 DEF Adds, n
<1> QED BY <1>1, <1>19 DEF l

\* What may become of a finding in one step.
Lawful(f, g) ==
    \/ g = f
    \/ /\ g.status # f.status /\ g.status # "none" /\ g.first = IF f.status = "none" THEN today ELSE f.first
       /\ g.status = "resolved" => g.resolved = today
       /\ Natural(f.status, g.status)

LEMMA RowsTell ==
    ASSUME PostureTypeOK, AllTold, NEW b \in Box, NEW after \in [Problem -> AFinding], \A p \in Problem : Lawful(row[b][p], after[p]),
           row' = [row EXCEPT ![b] = after], Adds(log', b, after), today' = today
    PROVE  AllTold'
<1>1. today \in Nat \ {0} /\ \A i \in DOMAIN log : log[i].day \in 1 .. today /\ Natural(log[i].from, log[i].to)
  BY DEF PostureTypeOK, AllTold
<1>2. \A c \in Box : row'[c] = IF c = b THEN after ELSE row[c]
  BY DEF PostureTypeOK
<1>3. ASSUME NEW i \in DOMAIN log' PROVE log'[i].day \in 1 .. today /\ Natural(log'[i].from, log'[i].to)
  <2>1. CASE i \in DOMAIN log
    BY <1>1, <2>1 DEF Adds
  <2>2. CASE i > Len(log)
    <3>1. PICK p \in Problem : row[b][p].status # after[p].status /\ log'[i] = Transition(b, p, after)
      BY <2>2 DEF Adds
    <3>2. Natural(row[b][p].status, after[p].status)
      BY <3>1 DEF Lawful
    <3> QED BY <1>1, <3>1, <3>2 DEF Transition
  <2> QED BY <2>1, <2>2 DEF Adds
<1>4. ASSUME NEW x \in FindingKeys PROVE RowTold(x)'
  <2>1. x[1] \in Box /\ x[2] \in Problem /\ x = <<x[1], x[2]>>
    BY DEF FindingKeys
  <2> DEFINE f == row[x[1]][x[2]]
             g == row'[x[1]][x[2]]
             Old == OwnSteps(x)
             Own == {i \in DOMAIN log' : log'[i].box = x[1] /\ log'[i].problem = x[2]}
  <2>2. IF Old = {} THEN f = NoFinding ELSE \E low, high \in Old : Spans(x, f, low, high)
    BY DEF AllTold, RowTold
  <2>3. Old \subseteq Own /\ \A i \in Old : i \in DOMAIN log /\ i <= Len(log) /\ log'[i] = log[i]
    BY DEF OwnSteps, Adds
  <2>4. \A i \in Own : i \in Old \/ (i > Len(log) /\ x[1] = b /\ row[b][x[2]].status # after[x[2]].status /\ log'[i] = Transition(b, x[2], after))
    <3> SUFFICES ASSUME NEW i \in Own, i \notin Old
                 PROVE  i > Len(log) /\ x[1] = b /\ row[b][x[2]].status # after[x[2]].status /\ log'[i] = Transition(b, x[2], after)
      OBVIOUS
    <3>1. i \in DOMAIN log' /\ log'[i].box = x[1] /\ log'[i].problem = x[2] /\ i > Len(log)
      BY DEF OwnSteps, Adds
    <3>2. PICK p \in Problem : row[b][p].status # after[p].status /\ log'[i] = Transition(b, p, after)
      BY <3>1 DEF Adds
    <3>3. p = x[2] /\ b = x[1]
      BY <3>1, <3>2 DEF Transition
    <3> QED BY <3>1, <3>2, <3>3
  <2>5. RowTold(x)' <=> IF Own = {} THEN g = NoFinding ELSE
                       \E low, high \in Own :
                         /\ \A i \in Own : low <= i /\ i <= high /\ (log'[i].from = "none" => i = low)
                         /\ log'[low].from = "none" /\ g.first = log'[low].day /\ g.status = log'[high].to /\ g.status # "none"
                         /\ g.status = "resolved" => g.resolved = log'[high].day
    BY DEF RowTold, OwnSteps, Spans
  <2>6. CASE x[1] # b \/ row[b][x[2]].status = after[x[2]].status
    <3>1. g = f
      <4>1. CASE x[1] # b
        BY <1>2, <2>1, <4>1
      <4>2. CASE x[1] = b /\ row[b][x[2]].status = after[x[2]].status
        <5>1. Lawful(row[b][x[2]], after[x[2]])
          BY <2>1
        <5>2. after[x[2]] = row[b][x[2]]
          BY <4>2, <5>1 DEF Lawful
        <5> QED BY <1>2, <2>1, <4>2, <5>2
      <4> QED BY <2>6, <4>1, <4>2
    <3>2. Own = Old
      BY <2>3, <2>4, <2>6
    <3>3. CASE Old = {}
      <4> HIDE DEF Old, Own, f, g
      <4> QED BY <2>2, <2>5, <3>1, <3>2, <3>3
    <3>4. CASE Old # {}
      <4>1. PICK low \in Old, high \in Old : Spans(x, f, low, high)
        BY <2>2, <3>4
      <4>2. /\ \A i \in Old : low <= i /\ i <= high /\ (log[i].from = "none" => i = low)
            /\ log[low].from = "none" /\ f.first = log[low].day /\ f.status = log[high].to /\ f.status # "none"
            /\ f.status = "resolved" => f.resolved = log[high].day
        BY <4>1 DEF Spans
      <4> HIDE DEF Old, Own, f, g
      <4>3. /\ \A i \in Own : low <= i /\ i <= high /\ (log'[i].from = "none" => i = low)
            /\ log'[low].from = "none" /\ g.first = log'[low].day /\ g.status = log'[high].to /\ g.status # "none"
            /\ g.status = "resolved" => g.resolved = log'[high].day
        BY <2>3, <3>1, <3>2, <4>2
      <4> QED BY <2>5, <3>2, <3>4, <4>3
    <3> QED BY <3>3, <3>4
  <2>7. CASE x[1] = b /\ row[b][x[2]].status # after[x[2]].status
    <3>1. f = row[b][x[2]] /\ g = after[x[2]]
      BY <1>2, <2>1, <2>7
    <3>2. PICK n \in DOMAIN log' : n > Len(log) /\ log'[n] = Transition(b, x[2], after)
      BY <2>1, <2>7 DEF Adds
    <3>3. n \in Own /\ log'[n].from = f.status /\ log'[n].to = g.status /\ log'[n].day = today
      BY <2>7, <3>1, <3>2 DEF Transition
    <3>4. \A i \in Own : i \in Old \/ i = n
      <4> SUFFICES ASSUME NEW i \in Own, i \notin Old PROVE i = n
        OBVIOUS
      <4>1. i \in DOMAIN log' /\ i > Len(log) /\ log'[i] = Transition(b, x[2], after)
        BY <2>4
      <4> QED BY <3>2, <4>1 DEF Adds
    <3>5. g.status # "none" /\ g.first = (IF f.status = "none" THEN today ELSE f.first) /\ (g.status = "resolved" => g.resolved = today)
      <4>1. Lawful(f, g) /\ g # f
        BY <2>1, <2>7, <3>1
      <4> QED BY <4>1 DEF Lawful
    <3>6. Len(log) \in Nat /\ n \in Nat /\ \A i \in Old : i \in Nat
      <4>1. log \in Seq(ATransition) /\ log' \in Seq(ATransition)
        BY DEF PostureTypeOK, Adds
      <4> HIDE DEF Old
      <4>2. \A i \in DOMAIN log : i \in Nat
        BY <4>1
      <4> QED BY <2>3, <3>2, <4>1, <4>2
    <3>7. CASE Old = {}
      <4>1. f.status = "none"
        BY <2>2, <3>7 DEF NoFinding
      <4> HIDE DEF Old, Own, f, g
      <4>2. \A i \in Own : i = n /\ n <= i /\ i <= n
        BY <3>4, <3>6, <3>7
      <4> QED BY <2>5, <3>3, <3>5, <4>1, <4>2
    <3>8. CASE Old # {}
      <4>1. PICK low \in Old, high \in Old : Spans(x, f, low, high)
        BY <2>2, <3>8
      <4>2. /\ \A i \in Old : low <= i /\ (log[i].from = "none" => i = low)
            /\ log[low].from = "none" /\ f.first = log[low].day /\ f.status # "none"
        BY <4>1 DEF Spans
      <4> HIDE DEF Old, Own, f, g
      <4>3. ASSUME NEW i \in Own PROVE low <= i /\ i <= n /\ (log'[i].from = "none" => i = low)
        <5>1. CASE i \in Old
          BY <2>3, <3>2, <3>6, <4>2, <5>1
        <5>2. CASE i = n
          BY <2>3, <3>2, <3>3, <3>6, <4>2, <5>2
        <5> QED BY <3>4, <5>1, <5>2
      <4>4. low \in Own /\ log'[low].from = "none" /\ g.first = log'[low].day
        BY <2>3, <3>5, <4>2
      <4> QED BY <2>5, <3>3, <3>5, <4>3, <4>4
    <3> QED BY <3>7, <3>8
  <2> QED BY <2>6, <2>7
<1>5. AllTold' <=> /\ \A i \in DOMAIN log' : log'[i].day \in 1 .. today' /\ Natural(log'[i].from, log'[i].to)
                   /\ \A x \in FindingKeys : RowTold(x)'
  BY DEF AllTold, Natural
<1> QED BY <1>3, <1>4, <1>5

\* Two sets whose members answer to each other have as many.
LEMMA AsMany ==
    ASSUME NEW X, NEW Y, IsFiniteSet(Y), NEW f \in [X -> Y], \A i, j \in X : f[i] = f[j] => i = j, \A y \in Y : \E i \in X : f[i] = y
    PROVE  IsFiniteSet(X) /\ Cardinality(X) = Cardinality(Y)
<1>1. f \in Injection(X, Y)
  BY DEF Injection, IsInjective
<1>2. f \in Surjection(X, Y)
  BY DEF Surjection
<1> QED BY <1>1, <1>2, FS_Injection

Log1(l) == {i \in DOMAIN l : i > Len(log) /\ l[i].to \in Kept /\ l[i].from \notin Kept}
Log2(l) == {i \in DOMAIN l : i > Len(log) /\ l[i].from \in Kept /\ l[i].to \notin Kept}
ListedIn(r) == {x \in FindingKeys : r[x[1]][x[2]].status \in Kept}

Came(l, r, b, after) == Adds(l, b, after) /\ r = [row EXCEPT ![b] = after]

Tally(l, r) ==
    /\ IsFiniteSet(Log1(l)) /\ Cardinality(Log1(l)) = Cardinality(ListedIn(r) \ Listed)
    /\ IsFiniteSet(Log2(l)) /\ Cardinality(Log2(l)) = Cardinality(Listed \ ListedIn(r))

\* The transitions that a device's findings have added are the findings that
\* came onto the list, and those that left it.
LEMMA AddedAreListed ==
    ASSUME PostureTypeOK, NEW b \in Box, NEW after \in [Problem -> AFinding], NEW l, NEW r, Came(l, r, b, after)
    PROVE  Tally(l, r)
<1>0. Adds(l, b, after) /\ r = [row EXCEPT ![b] = after]
  BY DEF Came
<1> USE <1>0
<1>1. \A c \in Box : r[c] = IF c = b THEN after ELSE row[c]
  BY DEF PostureTypeOK
<1>2. \A x \in FindingKeys : x[1] \in Box /\ x[2] \in Problem /\ x = <<x[1], x[2]>>
  BY DEF FindingKeys
<1>3. \A p \in Problem : <<b, p>> \in FindingKeys /\ <<b, p>>[1] = b /\ <<b, p>>[2] = p
  BY DEF FindingKeys
<1>4. Listed = ListedIn(row)
  BY DEF Listed, ListedIn, StatusOf
<1>5. ASSUME NEW i \in DOMAIN l, i > Len(log)
      PROVE  \E p \in Problem : /\ l[i].box = b /\ l[i].problem = p /\ l[i].from = row[b][p].status /\ l[i].to = after[p].status
                                /\ row[b][p].status # after[p].status
  <2>1. PICK p \in Problem : row[b][p].status # after[p].status /\ l[i] = Transition(b, p, after)
    BY <1>5 DEF Adds
  <2> QED BY <2>1 DEF Transition
<1> DEFINE key(i) == <<l[i].box, l[i].problem>>
<1>6. ASSUME NEW i \in DOMAIN l, i > Len(log), NEW j \in DOMAIN l, j > Len(log), key(i) = key(j) PROVE i = j
  <2>1. l[i].problem = l[j].problem
    BY <1>6
  <2> QED BY <1>6, <2>1 DEF Adds
<1>7. ASSUME NEW x \in FindingKeys, row[x[1]][x[2]].status # r[x[1]][x[2]].status
      PROVE  \E i \in DOMAIN l : i > Len(log) /\ key(i) = x /\ l[i].from = row[x[1]][x[2]].status /\ l[i].to = r[x[1]][x[2]].status
  <2>1. x[1] = b
    BY <1>1, <1>2, <1>7
  <2>2. row[b][x[2]].status # after[x[2]].status /\ r[b] = after
    BY <1>1, <1>7, <2>1
  <2>3. PICK i \in DOMAIN l : i > Len(log) /\ l[i] = Transition(b, x[2], after)
    BY <1>2, <2>2 DEF Adds
  <2>4. l[i].box = b /\ l[i].problem = x[2] /\ l[i].from = row[b][x[2]].status /\ l[i].to = after[x[2]].status
    BY <2>3 DEF Transition
  <2> QED BY <1>2, <2>1, <2>2, <2>3, <2>4
<1> DEFINE gained == ListedIn(r) \ ListedIn(row)
           lost == ListedIn(row) \ ListedIn(r)
<1>8. IsFiniteSet(gained) /\ IsFiniteSet(lost)
  <2>1. gained \subseteq FindingKeys /\ lost \subseteq FindingKeys
    BY DEF ListedIn
  <2> HIDE DEF gained, lost
  <2> QED BY <2>1, ProblemsFinite, FS_Subset
<1>9. IsFiniteSet(Log1(l)) /\ Cardinality(Log1(l)) = Cardinality(gained)
  <2> DEFINE f == [i \in Log1(l) |-> key(i)]
  <2>1. ASSUME NEW i \in Log1(l) PROVE key(i) \in gained
    <3>1. i \in DOMAIN l /\ i > Len(log) /\ l[i].to \in Kept /\ l[i].from \notin Kept
      BY DEF Log1
    <3>2. PICK p \in Problem : l[i].box = b /\ l[i].problem = p /\ l[i].from = row[b][p].status /\ l[i].to = after[p].status
      BY <1>5, <3>1
    <3>3. key(i) = <<b, p>> /\ r[b] = after
      BY <1>1, <3>2
    <3> QED BY <1>3, <3>1, <3>2, <3>3 DEF ListedIn
  <2>2. ASSUME NEW x \in gained PROVE \E i \in Log1(l) : key(i) = x
    <3>1. x \in FindingKeys /\ r[x[1]][x[2]].status \in Kept /\ row[x[1]][x[2]].status \notin Kept
      BY DEF ListedIn
    <3>2. PICK i \in DOMAIN l : i > Len(log) /\ key(i) = x /\ l[i].from = row[x[1]][x[2]].status /\ l[i].to = r[x[1]][x[2]].status
      BY <1>7, <3>1
    <3> QED BY <3>1, <3>2 DEF Log1
  <2>3. \A i, j \in Log1(l) : key(i) = key(j) => i = j
    BY <1>6 DEF Log1
  <2> HIDE DEF key, gained
  <2>4. f \in [Log1(l) -> gained] /\ (\A i, j \in Log1(l) : f[i] = f[j] => i = j) /\ \A x \in gained : \E i \in Log1(l) : f[i] = x
    BY <2>1, <2>2, <2>3
  <2> HIDE DEF f
  <2> QED BY <1>8, <2>4, AsMany
<1>10. IsFiniteSet(Log2(l)) /\ Cardinality(Log2(l)) = Cardinality(lost)
  <2> DEFINE f == [i \in Log2(l) |-> key(i)]
  <2>1. ASSUME NEW i \in Log2(l) PROVE key(i) \in lost
    <3>1. i \in DOMAIN l /\ i > Len(log) /\ l[i].from \in Kept /\ l[i].to \notin Kept
      BY DEF Log2
    <3>2. PICK p \in Problem : l[i].box = b /\ l[i].problem = p /\ l[i].from = row[b][p].status /\ l[i].to = after[p].status
      BY <1>5, <3>1
    <3>3. key(i) = <<b, p>> /\ r[b] = after
      BY <1>1, <3>2
    <3> QED BY <1>3, <3>1, <3>2, <3>3 DEF ListedIn
  <2>2. ASSUME NEW x \in lost PROVE \E i \in Log2(l) : key(i) = x
    <3>1. x \in FindingKeys /\ row[x[1]][x[2]].status \in Kept /\ r[x[1]][x[2]].status \notin Kept
      BY DEF ListedIn
    <3>2. PICK i \in DOMAIN l : i > Len(log) /\ key(i) = x /\ l[i].from = row[x[1]][x[2]].status /\ l[i].to = r[x[1]][x[2]].status
      BY <1>7, <3>1
    <3> QED BY <3>1, <3>2 DEF Log2
  <2>3. \A i, j \in Log2(l) : key(i) = key(j) => i = j
    BY <1>6 DEF Log2
  <2> HIDE DEF key, lost
  <2>4. f \in [Log2(l) -> lost] /\ (\A i, j \in Log2(l) : f[i] = f[j] => i = j) /\ \A x \in lost : \E i \in Log2(l) : f[i] = x
    BY <2>1, <2>2, <2>3
  <2> HIDE DEF f
  <2> QED BY <1>8, <2>4, AsMany
<1> QED BY <1>4, <1>9, <1>10 DEF Tally

\* Sets that share what they share differ by what each has alone.
LEMMA Exchange ==
    ASSUME NEW X, NEW Y, IsFiniteSet(X), IsFiniteSet(Y)
    PROVE  /\ Cardinality(X) \in Nat /\ Cardinality(Y) \in Nat
           /\ Cardinality(Y) - Cardinality(X) = Cardinality(Y \ X) - Cardinality(X \ Y)
<1>1. Cardinality(X \ Y) = Cardinality(X) - Cardinality(X \cap Y) /\ Cardinality(Y \ X) = Cardinality(Y) - Cardinality(Y \cap X)
  BY FS_Difference
<1>2. X \cap Y = Y \cap X
  OBVIOUS
<1>3. IsFiniteSet(X \cap Y)
  BY FS_Intersection
<1>4. Cardinality(X) \in Nat /\ Cardinality(Y) \in Nat /\ Cardinality(X \cap Y) \in Nat
  BY <1>3, FS_CardinalityType
<1> QED BY <1>1, <1>2, <1>4

LEMMA LogFinite == PostureTypeOK => \A n : IsFiniteSet(Opened(n)) /\ IsFiniteSet(Closed(n))
<1> SUFFICES ASSUME PostureTypeOK, NEW n PROVE IsFiniteSet(Opened(n)) /\ IsFiniteSet(Closed(n))
  OBVIOUS
<1>1. DOMAIN log = 1 .. Len(log) /\ Len(log) \in Int /\ 1 \in Int
  BY DEF PostureTypeOK
<1>2. IsFiniteSet(DOMAIN log)
  BY <1>1, FS_Interval
<1>3. Opened(n) \subseteq DOMAIN log /\ Closed(n) \subseteq DOMAIN log
  BY DEF Opened, Closed
<1> QED BY <1>2, <1>3, FS_Subset

LEMMA ListedFinite == IsFiniteSet(Listed) /\ \A r : IsFiniteSet(ListedIn(r))
<1>1. Listed \subseteq FindingKeys /\ \A r : ListedIn(r) \subseteq FindingKeys
  BY DEF Listed, ListedIn
<1> QED BY <1>1, ProblemsFinite, FS_Subset

LEMMA RowsBalance ==
    ASSUME PostureTypeOK, Balanced, NEW b \in Box, NEW after \in [Problem -> AFinding],
           row' = [row EXCEPT ![b] = after], Adds(log', b, after), earlier' = earlier
    PROVE  Balanced'
<1> SUFFICES ASSUME earlier # <<>> PROVE Balanced'
  BY DEF Balanced
<1> DEFINE n == earlier[2]
           s == earlier[1].findings
           O == Opened(n)
           C == Closed(n)
           O2 == {i \in DOMAIN log' : i > n /\ log'[i].to \in Kept /\ log'[i].from \notin Kept}
           C2 == {i \in DOMAIN log' : i > n /\ log'[i].from \in Kept /\ log'[i].to \notin Kept}
           L2 == ListedIn(row')
<1>1. /\ n \in Nat /\ s \in Nat /\ (\A w \in Severities : earlier[1].severity[w] \in Nat) /\ s = Total(earlier[1].severity, Severities)
      /\ Cardinality(Listed) - s = Cardinality(O) - Cardinality(C) /\ n <= Len(log)
  BY DEF Balanced
<1>2. Len(log) \in Nat /\ Len(log') \in Nat /\ Len(log') >= Len(log) /\ DOMAIN log = 1 .. Len(log) /\ DOMAIN log' = 1 .. Len(log')
  BY DEF PostureTypeOK, Adds
<1>3. O2 = O \cup Log1(log') /\ O \cap Log1(log') = {}
  <2>1. \A i \in DOMAIN log' : i > n <=> (i > n /\ i <= Len(log)) \/ i > Len(log)
    BY <1>1, <1>2
  <2>2. O = {i \in DOMAIN log' : i > n /\ i <= Len(log) /\ log'[i].to \in Kept /\ log'[i].from \notin Kept}
    <3>1. \A i : i \in DOMAIN log <=> i \in DOMAIN log' /\ i <= Len(log)
      BY <1>2
    <3>2. \A i \in DOMAIN log : log'[i] = log[i]
      BY DEF Adds
    <3> QED BY <3>1, <3>2 DEF Opened
  <2>3. \A i \in DOMAIN log' : ~(i <= Len(log) /\ i > Len(log))
    BY <1>2
  <2> HIDE DEF n, O
  <2> QED BY <2>1, <2>2, <2>3 DEF Log1
<1>4. C2 = C \cup Log2(log') /\ C \cap Log2(log') = {}
  <2>1. \A i \in DOMAIN log' : i > n <=> (i > n /\ i <= Len(log)) \/ i > Len(log)
    BY <1>1, <1>2
  <2>2. C = {i \in DOMAIN log' : i > n /\ i <= Len(log) /\ log'[i].from \in Kept /\ log'[i].to \notin Kept}
    <3>1. \A i : i \in DOMAIN log <=> i \in DOMAIN log' /\ i <= Len(log)
      BY <1>2
    <3>2. \A i \in DOMAIN log : log'[i] = log[i]
      BY DEF Adds
    <3> QED BY <3>1, <3>2 DEF Closed
  <2>3. \A i \in DOMAIN log' : ~(i <= Len(log) /\ i > Len(log))
    BY <1>2
  <2> HIDE DEF n, C
  <2> QED BY <2>1, <2>2, <2>3 DEF Log2
<1>5. /\ IsFiniteSet(Log1(log')) /\ Cardinality(Log1(log')) = Cardinality(L2 \ Listed)
      /\ IsFiniteSet(Log2(log')) /\ Cardinality(Log2(log')) = Cardinality(Listed \ L2)
  <2> DEFINE l == log'
             r == row'
  <2>1. Came(l, r, b, after)
    BY DEF Came
  <2> HIDE DEF l, r
  <2>2. Tally(l, r)
    BY <2>1, AddedAreListed
  <2> QED BY <2>2 DEF Tally, l, r
<1>6. Cardinality(O2) = Cardinality(O) + Cardinality(Log1(log')) /\ Cardinality(C2) = Cardinality(C) + Cardinality(Log2(log'))
  <2>1. IsFiniteSet(O) /\ IsFiniteSet(C)
    BY LogFinite
  <2> HIDE DEF O, C, O2, C2
  <2> QED BY <1>3, <1>4, <1>5, <2>1, Gains
<1>7. /\ Cardinality(L2) - Cardinality(Listed) = Cardinality(L2 \ Listed) - Cardinality(Listed \ L2)
      /\ Cardinality(L2) \in Nat /\ Cardinality(Listed) \in Nat
  <2>1. IsFiniteSet(Listed) /\ IsFiniteSet(L2)
    BY ListedFinite
  <2> HIDE DEF L2
  <2> QED BY <2>1, Exchange
<1>8. /\ Cardinality(O) \in Nat /\ Cardinality(C) \in Nat /\ Cardinality(L2 \ Listed) \in Nat /\ Cardinality(Listed \ L2) \in Nat
  <2>1. IsFiniteSet(O) /\ IsFiniteSet(C) /\ IsFiniteSet(Listed) /\ IsFiniteSet(L2)
    BY LogFinite, ListedFinite
  <2> HIDE DEF O, C, L2
  <2> QED BY <2>1, FS_CardinalityType, FS_Difference
<1>9. Cardinality(L2) - s = Cardinality(O2) - Cardinality(C2)
  <2> DEFINE o == Cardinality(O)
             c == Cardinality(C)
             l == Cardinality(Listed)
             k == Cardinality(L2)
             p == Cardinality(L2 \ Listed)
             q == Cardinality(Listed \ L2)
  <2>1. o \in Nat /\ c \in Nat /\ l \in Nat /\ k \in Nat /\ p \in Nat /\ q \in Nat /\ s \in Nat
    BY <1>1, <1>7, <1>8
  <2>2. l - s = o - c /\ k - l = p - q /\ Cardinality(O2) = o + p /\ Cardinality(C2) = c + q
    BY <1>1, <1>5, <1>6, <1>7
  <2> HIDE DEF O, C, O2, C2, L2, s, n, o, c, l, k, p, q
  <2>3. k - s = (o + p) - (c + q)
    BY <2>1, <2>2
  <2> QED BY <2>2, <2>3 DEF k
<1>10. Listed' = L2 /\ Opened(n)' = O2 /\ Closed(n)' = C2
  BY DEF Listed, StatusOf, ListedIn, Opened, Closed
<1>11. n <= Len(log')
  BY <1>1, <1>2
<1> QED BY <1>1, <1>9, <1>10, <1>11 DEF Balanced

\* A sum of differences is the difference of the sums.
LEMMA TotalLess ==
    ASSUME NEW f, NEW g, NEW h, NEW S, IsFiniteSet(S), OnNumbers(f, S), OnNumbers(g, S), \A x \in S : h[x] = f[x] - g[x]
    PROVE  Total(h, S) = Total(f, S) - Total(g, S)
<1> DEFINE B == {T \in SUBSET S : Total(h, T) # Total(f, T) - Total(g, T)}
<1> SUFFICES ASSUME B # {} PROVE FALSE
  OBVIOUS
<1>1. PICK T \in B : \A x \in T : T \ {x} \notin B
  BY Smallest
<1>2. T \in SUBSET S /\ Total(h, T) # Total(f, T) - Total(g, T) /\ IsFiniteSet(T)
  BY <1>1, FS_Subset
<1>3. T # {}
  <2>1. Total(h, {}) = 0 /\ Total(f, {}) = 0 /\ Total(g, {}) = 0
    BY TotalChosen
  <2> QED BY <1>2, <2>1
<1>4. PICK x \in T : TRUE
  BY <1>3
<1> DEFINE R == T \ {x}
<1>5. Total(h, R) = Total(f, R) - Total(g, R)
  BY <1>1, <1>2, <1>4
<1>6. OnNumbers(f, T) /\ OnNumbers(g, T) /\ OnNumbers(h, T)
  BY <1>2 DEF OnNumbers
<1>7. Total(f, T) = f[x] + Total(f, R) /\ Total(g, T) = g[x] + Total(g, R) /\ Total(h, T) = h[x] + Total(h, R)
  BY <1>2, <1>4, <1>6, TotalIs
<1>8. Total(f, R) \in Int /\ Total(g, R) \in Int
  <2>1. IsFiniteSet(R) /\ OnNumbers(f, R) /\ OnNumbers(g, R)
    BY <1>2, <1>6, FS_Subset DEF OnNumbers
  <2> QED BY <2>1, TotalNumber
<1>9. f[x] \in Int /\ g[x] \in Int /\ h[x] = f[x] - g[x]
  BY <1>2, <1>4 DEF OnNumbers
<1> HIDE DEF R, B
<1> QED BY <1>2, <1>5, <1>7, <1>8, <1>9

\* The findings of the severities together are the findings.
LEMMA SeveritiesShare ==
    ASSUME NEW f, \A w \in Severities : f[w] = Cardinality(BySeverity(w))
    PROVE  (\A w \in Severities : f[w] \in Nat) /\ Total(f, Severities) = Cardinality(Listed)
<1> DEFINE Of(S) == {x \in Listed : Weight[x[2]] \in S}
           B == {S \in SUBSET Severities : Total(f, S) # Cardinality(Of(S))}
<1>1. IsFiniteSet(Severities)
  <2>1. IsFiniteSet(0 .. 40)
    <3>1. 0 \in Int /\ 40 \in Int
      OBVIOUS
    <3> QED BY <3>1, FS_Interval
  <2>2. Severities \subseteq 0 .. 40
    BY DEF Severities
  <2> QED BY <2>1, <2>2, FS_Subset
<1>2. Of(Severities) = Listed
  <2>1. \A x \in Listed : Weight[x[2]] \in Severities
    BY PostureAssumption DEF Listed, FindingKeys, Problem, Severities
  <2> QED BY <2>1
<1>3. \A S : IsFiniteSet(Of(S))
  BY ListedFinite, FS_Subset
<1>4. \A w \in Severities : f[w] \in Nat
  <2>1. \A w \in Severities : IsFiniteSet(BySeverity(w))
    BY ListedFinite, FS_Subset DEF BySeverity
  <2> QED BY <2>1, FS_CardinalityType
<1>5. ASSUME B # {} PROVE FALSE
  <2>1. PICK S \in B : \A w \in S : S \ {w} \notin B
    BY <1>1, <1>5, Smallest
  <2>2. S \in SUBSET Severities /\ Total(f, S) # Cardinality(Of(S)) /\ IsFiniteSet(S)
    BY <1>1, <2>1, FS_Subset
  <2>3. S # {}
    <3>1. Of({}) = {}
      OBVIOUS
    <3>2. Total(f, {}) = 0 /\ Cardinality({}) = 0
      BY TotalChosen, FS_EmptySet
    <3> HIDE DEF Of
    <3> QED BY <2>2, <3>1, <3>2
  <2>4. PICK w \in S : TRUE
    BY <2>3
  <2> DEFINE R == S \ {w}
  <2>5. Total(f, R) = Cardinality(Of(R))
    BY <2>1, <2>2, <2>4
  <2>6. Total(f, S) = f[w] + Total(f, R)
    <3>1. OnNumbers(f, S)
      BY <1>4, <2>2 DEF OnNumbers
    <3> QED BY <2>2, <2>4, <3>1, TotalIs
  <2>7. Of(S) = Of(R) \cup BySeverity(w) /\ Of(R) \cap BySeverity(w) = {}
    BY <2>4 DEF BySeverity
  <2>8. IsFiniteSet(Of(R)) /\ IsFiniteSet(BySeverity(w)) /\ f[w] = Cardinality(BySeverity(w))
    BY <1>3, <2>2, <2>4, ListedFinite, FS_Subset DEF BySeverity
  <2> HIDE DEF R, Of, B
  <2>9. Cardinality(Of(S)) = Cardinality(Of(R)) + Cardinality(BySeverity(w))
    BY <2>7, <2>8, Gains
  <2>10. Cardinality(Of(R)) \in Nat /\ Cardinality(BySeverity(w)) \in Nat
    BY <2>8, FS_CardinalityType
  <2> QED BY <2>2, <2>5, <2>6, <2>8, <2>9, <2>10
<1>6. Total(f, Severities) = Cardinality(Of(Severities))
  BY <1>5
<1> HIDE DEF Of, B
<1> QED BY <1>2, <1>4, <1>6

\* A step of one device's findings, and of nothing else that is counted.
RowStep(b) ==
    \E after \in [Problem -> AFinding] :
        /\ \A p \in Problem : Lawful(row[b][p], after[p])
        /\ row' = [row EXCEPT ![b] = after] /\ log' = log \o Transitions(b, after)

\* The readings stay, or one comes of this day.
Reads ==
    \/ reading' = reading
    \/ \E r \in AReading : /\ reading' = Append(reading, r) /\ r.day = today
                           /\ r.score = ScoreDevice(r.box, r.verdict, r.found)

JudgedIs == \A f \in AFinding, says \in DOMAIN Share : Judged1(f, says) \in AFinding /\ Lawful(f, Judged1(f, says))

LEMMA Judging == today \in Nat \ {0} => JudgedIs
<1> SUFFICES ASSUME today \in Nat \ {0}, NEW f \in AFinding, NEW says \in DOMAIN Share
             PROVE  Judged1(f, says) \in AFinding /\ Lawful(f, Judged1(f, says))
  BY DEF JudgedIs
<1> DEFINE g == Judged1(f, says)
<1>1. f.status \in PStatus /\ f.first \in Nat /\ f.resolved \in Nat
  BY DEF AFinding
<1>2. CASE says \in {"fail", "warning"} /\ f.status = "none"
  <2>1. g = [status |-> "new", first |-> today, resolved |-> 0]
    BY <1>2 DEF Judged1
  <2> HIDE DEF g
  <2>2. g \in AFinding /\ Lawful(f, g)
    BY <1>2, <2>1 DEF AFinding, PStatus, Kept, Lawful, Natural
  <2> QED BY <2>2 DEF g
<1>3. CASE says \in {"fail", "warning"} /\ f.status \notin Kept \cup {"none"}
  <2>1. g = [f EXCEPT !.status = "reopened", !.resolved = 0]
    BY <1>3 DEF Judged1
  <2> HIDE DEF g
  <2>2. g.status = "reopened" /\ g.first = f.first /\ g \in AFinding
    BY <2>1 DEF AFinding, PStatus, Kept
  <2>3. Lawful(f, g)
    <3>1. f.status \in {"resolved", "risk_accepted"}
      BY <1>1, <1>3 DEF PStatus, Kept
    <3> QED BY <1>3, <2>2, <3>1 DEF Lawful, Kept, Natural
  <2> QED BY <2>2, <2>3 DEF g
<1>4. CASE says = "pass" /\ f.status \in Kept
  <2>1. g = [f EXCEPT !.status = "resolved", !.resolved = today]
    BY <1>4 DEF Judged1, Kept
  <2> HIDE DEF g
  <2>2. g.status = "resolved" /\ g.first = f.first /\ g.resolved = today /\ g \in AFinding
    BY <2>1 DEF AFinding, PStatus
  <2>3. Lawful(f, g)
    BY <1>4, <2>2 DEF Lawful, Kept, Natural
  <2> QED BY <2>2, <2>3 DEF g
<1>5. CASE ~(says \in {"fail", "warning"} /\ f.status = "none") /\ ~(says \in {"fail", "warning"} /\ f.status \notin Kept \cup {"none"})
           /\ ~(says = "pass" /\ f.status \in Kept)
  <2>1. g = f
    BY <1>5 DEF Judged1
  <2> QED BY <2>1 DEF Lawful
<1> QED BY <1>2, <1>3, <1>4, <1>5

LEMMA AssessSteps ==
    ASSUME PostureTypeOK, NEW b \in Box, NEW verdict \in Judgements, Assess(b, verdict)
    PROVE  RowStep(b) /\ Reads /\ UNCHANGED <<today, retained, earlier, levels>>
<1> DEFINE after == [p \in Problem |-> IF p \in Item THEN Judged1(row[b][p], verdict[p]) ELSE row[b][p]]
           found == {p \in Match : row[b][p].status \in Kept}
           r == [box |-> b, day |-> today, verdict |-> verdict, found |-> found, score |-> ScoreDevice(b, verdict, found)]
<1>1. /\ row' = [row EXCEPT ![b] = after] /\ log' = log \o Transitions(b, after)
      /\ reading' = Append(reading, r) /\ UNCHANGED <<today, retained, earlier, levels>>
  BY DEF Assess
<1>2. today \in Nat \ {0} /\ \A p \in Problem : row[b][p] \in AFinding
  BY DEF PostureTypeOK
<1>3. \A p \in Problem : after[p] \in AFinding /\ Lawful(row[b][p], after[p])
  <2> SUFFICES ASSUME NEW p \in Problem PROVE after[p] \in AFinding /\ Lawful(row[b][p], after[p])
    OBVIOUS
  <2>1. CASE p \in Item
    <3>1. verdict[p] \in DOMAIN Share
      BY <2>1 DEF Judgements
    <3>2. after[p] = Judged1(row[b][p], verdict[p])
      BY <2>1
    <3> QED BY <1>2, <3>1, <3>2, Judging DEF JudgedIs
  <2>2. CASE p \notin Item
    <3>1. after[p] = row[b][p]
      BY <2>2
    <3> QED BY <1>2, <3>1 DEF Lawful
  <2> QED BY <2>1, <2>2
<1>4. after \in [Problem -> AFinding]
  <2>1. after = [p \in Problem |-> after[p]]
    OBVIOUS
  <2> HIDE DEF after
  <2> QED BY <1>3, <2>1
<1>5. found \in SUBSET Match
  OBVIOUS
<1> HIDE DEF after, found
<1>6. ScoreDevice(b, verdict, found) \in 0 .. 100
  BY <1>5, ScoreIs
<1>7. r \in AReading /\ r.day = today /\ r.score = ScoreDevice(r.box, r.verdict, r.found)
  BY <1>2, <1>5, <1>6 DEF AReading
<1> HIDE DEF r
<1>8. RowStep(b)
  BY <1>1, <1>3, <1>4 DEF RowStep
<1>9. Reads
  BY <1>1, <1>7 DEF Reads
<1> QED BY <1>1, <1>8, <1>9

LEMMA TriageSteps ==
    ASSUME PostureTypeOK, NEW b \in Box, Rematch(b) \/ UpdateFinding(b)
    PROVE  RowStep(b) /\ Reads /\ UNCHANGED <<today, retained, earlier, levels>>
<1>1. today \in Nat \ {0} /\ row[b] \in [Problem -> AFinding] /\ \A p \in Problem : row[b][p] \in AFinding
  BY DEF PostureTypeOK
<1>2. ASSUME NEW p \in Problem, NEW g \in AFinding, Lawful(row[b][p], g), NEW after, after = [row[b] EXCEPT ![p] = g],
             row' = [row EXCEPT ![b] = after], log' = log \o Transitions(b, after)
      PROVE  RowStep(b)
  <2>1. after \in [Problem -> AFinding]
    BY <1>1, <1>2
  <2>2. \A q \in Problem : after[q] = IF q = p THEN g ELSE row[b][q]
    BY <1>1, <1>2
  <2>3. \A q \in Problem : Lawful(row[b][q], after[q])
    BY <1>2, <2>2 DEF Lawful
  <2> QED BY <1>2, <2>1, <2>3 DEF RowStep
<1>3. CASE Rematch(b)
  <2>1. UNCHANGED <<today, retained, reading, earlier, levels>>
    BY <1>3 DEF Rematch
  <2>2. PICK p \in Match, says \in {"fail", "pass"} :
          LET after == [row[b] EXCEPT ![p] = Judged1(@, says)]
          IN row' = [row EXCEPT ![b] = after] /\ log' = log \o Transitions(b, after)
    BY <1>3 DEF Rematch
  <2> DEFINE g == Judged1(row[b][p], says)
             after == [row[b] EXCEPT ![p] = g]
  <2>3. p \in Problem /\ says \in DOMAIN Share
    BY DEF Problem, Share
  <2>4. g \in AFinding /\ Lawful(row[b][p], g)
    BY <1>1, <2>3, Judging DEF JudgedIs
  <2>5. row' = [row EXCEPT ![b] = after] /\ log' = log \o Transitions(b, after)
    BY <2>2
  <2> HIDE DEF g
  <2>6. after = [row[b] EXCEPT ![p] = g]
    OBVIOUS
  <2> HIDE DEF after
  <2>7. RowStep(b)
    BY <1>2, <2>3, <2>4, <2>5, <2>6
  <2> QED BY <2>1, <2>7 DEF Reads
<1>4. CASE UpdateFinding(b)
  <2>1. UNCHANGED <<today, retained, reading, earlier, levels>>
    BY <1>4 DEF UpdateFinding
  <2>2. PICK p \in Problem, s \in {"open", "risk_accepted"} :
          LET after == [row[b] EXCEPT ![p].status = s]
          IN /\ row[b][p].status \notin {"none", s}
             /\ row' = [row EXCEPT ![b] = after] /\ log' = log \o Transitions(b, after)
    BY <1>4 DEF UpdateFinding
  <2> DEFINE g == [row[b][p] EXCEPT !.status = s]
             after == [row[b] EXCEPT ![p] = g]
  <2>3. row[b][p].status \notin {"none", s} /\ row[b][p] \in AFinding
    BY <1>1, <2>2
  <2>4. g \in AFinding /\ g.status = s /\ g.first = row[b][p].first
    BY <2>3 DEF AFinding, PStatus, Kept
  <2>5. Lawful(row[b][p], g)
    <3> HIDE DEF g
    <3> QED BY <2>3, <2>4 DEF Lawful, Natural
  <2>6. [row[b] EXCEPT ![p].status = s] = after
    OBVIOUS
  <2>7. row' = [row EXCEPT ![b] = after] /\ log' = log \o Transitions(b, after)
    BY <2>2, <2>6
  <2> HIDE DEF g
  <2>8. after = [row[b] EXCEPT ![p] = g]
    OBVIOUS
  <2> HIDE DEF after
  <2>9. RowStep(b)
    BY <1>2, <2>4, <2>5, <2>7, <2>8
  <2> QED BY <2>1, <2>9 DEF Reads
<1> QED BY <1>3, <1>4

\* Readings and what stood, under a step that adds at most a reading of today.
LEMMA ReadingsKeep ==
    ASSUME PostureTypeOK, ScoredInTurn, Levelled, Reads, UNCHANGED <<today, levels>>
    PROVE  reading' \in Seq(AReading) /\ ScoredInTurn' /\ Levelled'
<1> DEFINE n == Len(reading)
<1>0. /\ reading \in Seq(AReading) /\ today \in Nat \ {0} /\ Len(levels) = today - 1
      /\ levels \in Seq([Box -> Int])
  BY DEF PostureTypeOK
<1>0a. n \in Nat /\ DOMAIN reading = 1 .. n /\ \A i \in DOMAIN reading : reading[i] \in AReading
  BY <1>0
<1>0b. \A r \in AReading : r.day \in Nat
  BY DEF AReading
<1>1. /\ n \in Nat /\ DOMAIN reading = 1 .. n /\ reading \in Seq(AReading) /\ today \in Nat \ {0} /\ Len(levels) = today - 1
      /\ levels \in Seq([Box -> Int]) /\ \A i \in DOMAIN reading : reading[i] \in AReading /\ reading[i].day \in Nat
  BY <1>0, <1>0a, <1>0b
<1>2. CASE reading' = reading
  <2>1. reading' \in Seq(AReading)
    BY <1>0, <1>2
  <2>2. ScoredInTurn'
    BY <1>2 DEF ScoredInTurn
  <2>3. Levelled'
    BY <1>2 DEF Levelled, Standing
  <2> QED BY <2>1, <2>2, <2>3
<1>3. ASSUME NEW r \in AReading, reading' = Append(reading, r), r.day = today, r.score = ScoreDevice(r.box, r.verdict, r.found)
      PROVE  reading' \in Seq(AReading) /\ ScoredInTurn' /\ Levelled'
  <2>1. /\ reading' \in Seq(AReading) /\ DOMAIN reading' = 1 .. n + 1 /\ reading'[n + 1] = r
        /\ \A i \in 1 .. n : reading'[i] = reading[i]
    BY <1>1, <1>3
  <2>2. \A i \in 1 .. n + 1 : i \in 1 .. n \/ i = n + 1
    BY <1>1
  <2>3. ASSUME NEW i \in DOMAIN reading'
        PROVE  reading'[i].day \in 1 .. today /\ reading'[i].score = ScoreDevice(reading'[i].box, reading'[i].verdict, reading'[i].found)
    <3>1. CASE i \in 1 .. n
      BY <1>1, <2>1, <3>1 DEF ScoredInTurn
    <3>2. CASE i = n + 1
      BY <1>1, <1>3, <2>1, <3>2
    <3> QED BY <2>1, <2>2, <3>1, <3>2
  <2>4. ASSUME NEW i \in DOMAIN reading', NEW j \in DOMAIN reading', i <= j PROVE reading'[i].day <= reading'[j].day
    <3>1. CASE j = n + 1
      <4>1. reading'[j].day = today /\ reading'[i].day \in 1 .. today
        BY <1>3, <2>1, <2>3, <3>1
      <4> QED BY <1>1, <4>1
    <3>2. CASE j # n + 1
      <4>1. i \in 1 .. n /\ j \in 1 .. n
        BY <1>1, <2>1, <2>4, <3>2
      <4> QED BY <1>1, <2>1, <2>4, <4>1 DEF ScoredInTurn
    <3> QED BY <3>1, <3>2
  <2>5. ScoredInTurn'
    BY <2>3, <2>4 DEF ScoredInTurn
  <2>6. ASSUME NEW day \in 1 .. today - 1, NEW b \in Box PROVE Standing(day, b)' = Standing(day, b)
    <3> DEFINE I == {i \in DOMAIN reading : reading[i].box = b /\ reading[i].day <= day}
               J == {i \in DOMAIN reading' : reading'[i].box = b /\ reading'[i].day <= day}
    <3>1. ~(today <= day)
      BY <1>1
    <3>2. I = J
      <4>1. n + 1 \notin J
        BY <1>3, <2>1, <3>1
      <4>2. \A i \in 1 .. n : i \in J <=> i \in I
        BY <1>1, <2>1, <2>2
      <4> QED BY <1>1, <2>1, <2>2, <4>1, <4>2
    <3>3. Standing(day, b)' = (IF J = {} THEN -1 ELSE reading'[Max(J)].score) /\ Standing(day, b) = IF I = {} THEN -1 ELSE reading[Max(I)].score
      BY DEF Standing
    <3>4. I # {} => Max(I) \in 1 .. n
      <4>1. I \in SUBSET DOMAIN reading
        OBVIOUS
      <4> HIDE DEF I
      <4> QED BY <1>1, <4>1, Newest1
    <3> HIDE DEF I, J
    <3> QED BY <2>1, <3>2, <3>3, <3>4
  <2>7. Levelled'
    <3> SUFFICES ASSUME NEW day \in 1 .. today - 1, NEW b \in Box PROVE levels'[day][b] = Standing(day, b)'
      BY DEF Levelled
    <3> QED BY <2>6 DEF Levelled
  <2> QED BY <2>1, <2>5, <2>7
<1> QED BY <1>2, <1>3 DEF Reads

LEMMA PostureStarts == PostureInit => PostureInv
<1> SUFFICES ASSUME PostureInit PROVE PostureInv
  OBVIOUS
<1>1. /\ today = 1 /\ retained = Box /\ reading = <<>> /\ row = [b \in Box |-> [p \in Problem |-> NoFinding]]
      /\ earlier = <<>> /\ log = <<>> /\ levels = <<>>
  BY DEF PostureInit
<1>2. NoFinding \in AFinding
  BY DEF NoFinding, AFinding, PStatus
<1>3. row \in [Box -> [Problem -> AFinding]] /\ \A b \in Box, p \in Problem : row[b][p] = NoFinding
  BY <1>1, <1>2
<1>4. PostureTypeOK
  BY <1>1, <1>3, PostureAssumption DEF PostureTypeOK
<1>5. ScoredInTurn /\ Levelled
  BY <1>1 DEF ScoredInTurn, Levelled
<1>6. AllTold
  <2>1. \A x \in FindingKeys : OwnSteps(x) = {} /\ row[x[1]][x[2]] = NoFinding
    BY <1>1, <1>3 DEF OwnSteps, FindingKeys
  <2> QED BY <1>1, <2>1 DEF AllTold, RowTold
<1>7. Balanced
  BY <1>1 DEF Balanced
<1> QED BY <1>4, <1>5, <1>6, <1>7 DEF PostureInv

LEMMA PostureKeeps == PostureInv /\ [PostureNext]_postureVars => PostureInv'
<1> SUFFICES ASSUME PostureInv, [PostureNext]_postureVars PROVE PostureInv'
  OBVIOUS
<1>1. PostureTypeOK /\ ScoredInTurn /\ Levelled /\ AllTold /\ Balanced
  BY DEF PostureInv
<1>2. /\ today \in Nat \ {0} /\ today - 1 <= MaxDay /\ MaxDay \in Nat /\ retained \subseteq Box
      /\ reading \in Seq(AReading) /\ row \in [Box -> [Problem -> AFinding]]
      /\ log \in Seq(ATransition) /\ levels \in Seq([Box -> Int]) /\ Len(levels) = today - 1
  BY <1>1, PostureAssumption DEF PostureTypeOK
<1>3. ASSUME NEW b \in Box, RowStep(b), Reads, UNCHANGED <<today, retained, earlier, levels>> PROVE PostureInv'
  <2>1. PICK after \in [Problem -> AFinding] :
          /\ \A p \in Problem : Lawful(row[b][p], after[p])
          /\ row' = [row EXCEPT ![b] = after] /\ log' = log \o Transitions(b, after)
    BY <1>3 DEF RowStep
  <2>2. Adds(log', b, after)
    BY <1>1, <2>1, Added
  <2>3. AllTold'
    BY <1>1, <1>3, <2>1, <2>2, RowsTell
  <2>4. Balanced'
    BY <1>1, <1>3, <2>1, <2>2, RowsBalance
  <2>5. reading' \in Seq(AReading) /\ ScoredInTurn' /\ Levelled'
    BY <1>1, <1>3, ReadingsKeep
  <2>6. row' \in [Box -> [Problem -> AFinding]] /\ log' \in Seq(ATransition)
    BY <1>2, <2>1, <2>2 DEF Adds
  <2>7. PostureTypeOK'
    BY <1>2, <1>3, <2>5, <2>6 DEF PostureTypeOK
  <2> QED BY <2>3, <2>4, <2>5, <2>7 DEF PostureInv
<1>4. ASSUME UNCHANGED <<today, reading, row, log, levels, earlier>>, retained' \subseteq Box PROVE PostureInv'
  <2>0. PostureTypeOK'
    BY <1>2, <1>4 DEF PostureTypeOK
  <2>0a. ScoredInTurn'
    BY <1>1, <1>4 DEF ScoredInTurn
  <2>0b. Levelled'
    BY <1>1, <1>4 DEF Levelled, Standing
  <2>1. PostureTypeOK' /\ ScoredInTurn' /\ Levelled'
    BY <2>0, <2>0a, <2>0b
  <2>2. AllTold'
    BY <1>1, <1>4 DEF AllTold, RowTold, OwnSteps, Spans, Natural
  <2>3. Balanced'
    BY <1>1, <1>4 DEF Balanced, Listed, StatusOf, Opened, Closed
  <2> QED BY <2>1, <2>2, <2>3 DEF PostureInv
<1>5. CASE NextDay
  <2> DEFINE last1 == [b \in Box |-> Standing(today, b)]
  <2>1. /\ today < MaxDay /\ today' = today + 1 /\ levels' = Append(levels, last1)
        /\ UNCHANGED <<retained, reading, row, earlier, log>>
    BY <1>5 DEF NextDay
  <2>2. \A b \in Box : last1[b] = Standing(today, b)
    OBVIOUS
  <2>3. last1 \in [Box -> Int]
    <3>1. \A b \in Box : Standing(today, b) \in Int
      BY <1>1, <1>2, StandingStep
    <3> QED BY <3>1
  <2> HIDE DEF last1
  <2>4. /\ levels' \in Seq([Box -> Int]) /\ Len(levels') = today /\ levels'[today] = last1
        /\ \A day \in 1 .. today - 1 : levels'[day] = levels[day]
    BY <1>2, <2>1, <2>3
  <2>5. PostureTypeOK'
    BY <1>2, <2>1, <2>4 DEF PostureTypeOK
  <2>6. ScoredInTurn'
    <3>1. \A i \in DOMAIN reading : reading[i].day \in 1 .. today + 1
      BY <1>1, <1>2 DEF ScoredInTurn
    <3> QED BY <1>1, <2>1, <3>1 DEF ScoredInTurn
  <2>7. Levelled'
    <3>1. \A day, b : Standing(day, b)' = Standing(day, b)
      BY <2>1 DEF Standing
    <3>2. ASSUME NEW day \in 1 .. today, NEW b \in Box PROVE levels'[day][b] = Standing(day, b)
      <4>1. CASE day = today
        BY <2>2, <2>4, <4>1
      <4>2. CASE day # today
        <5>1. day \in 1 .. today - 1
          BY <1>2, <4>2
        <5> QED BY <1>1, <2>4, <5>1 DEF Levelled
      <4> QED BY <4>1, <4>2
    <3>3. today' - 1 = today
      BY <1>2, <2>1
    <3> QED BY <3>1, <3>2, <3>3 DEF Levelled
  <2>8. AllTold'
    <3>1. \A i \in DOMAIN log : log[i].day \in 1 .. today + 1 /\ Natural(log[i].from, log[i].to)
      BY <1>1, <1>2 DEF AllTold
    <3>2. \A x \in FindingKeys : RowTold(x)' <=> RowTold(x)
      BY <2>1 DEF RowTold, OwnSteps, Spans
    <3> QED BY <1>1, <2>1, <3>1, <3>2 DEF AllTold, Natural
  <2>9. Balanced'
    BY <1>1, <2>1 DEF Balanced, Listed, StatusOf, Opened, Closed
  <2> QED BY <2>5, <2>6, <2>7, <2>8, <2>9 DEF PostureInv
<1>6. CASE Generate
  <2>1a. UNCHANGED <<today, retained, reading, row, log, levels>>
    BY <1>6 DEF Generate
  <2>0. PostureTypeOK'
    BY <1>2, <2>1a DEF PostureTypeOK
  <2>0a. ScoredInTurn'
    BY <1>1, <2>1a DEF ScoredInTurn
  <2>0b. Levelled'
    BY <1>1, <2>1a DEF Levelled, Standing
  <2>0c. AllTold'
    BY <1>1, <2>1a DEF AllTold, RowTold, OwnSteps, Spans, Natural
  <2>2. PostureTypeOK' /\ ScoredInTurn' /\ Levelled' /\ AllTold'
    BY <2>0, <2>0a, <2>0b, <2>0c
  <2> DEFINE severity == [w \in {0, 3, 8, 20, 40} |-> Cardinality(BySeverity(w))]
             n == Cardinality(Listed)
  <2>1. earlier' = <<[findings |-> n, severity |-> severity], Len(log)>> /\ UNCHANGED <<today, retained, reading, row, log, levels>>
    BY <1>6 DEF Generate, ExecutiveSummary
  <2>3. \A w \in Severities : severity[w] = Cardinality(BySeverity(w))
    BY DEF Severities
  <2> HIDE DEF severity
  <2>4. (\A w \in Severities : severity[w] \in Nat) /\ Total(severity, Severities) = n
    BY <2>3, SeveritiesShare
  <2>5. n \in Nat
    BY ListedFinite, FS_CardinalityType
  <2>6. Opened(Len(log)) = {} /\ Closed(Len(log)) = {} /\ Len(log) \in Nat
    <3>1. \A i \in DOMAIN log : ~(i > Len(log))
      BY <1>2
    <3> QED BY <1>2, <3>1 DEF Opened, Closed
  <2>7. earlier'[2] = Len(log) /\ earlier'[1].findings = n /\ earlier'[1].severity = severity
    BY <2>1
  <2> DEFINE m == Len(log)
  <2>8. Listed' = Listed /\ Opened(m)' = Opened(m) /\ Closed(m)' = Closed(m) /\ Len(log') = Len(log) /\ m' = m
    BY <2>1 DEF Listed, StatusOf, Opened, Closed
  <2>9. n - n = Cardinality({}) - Cardinality({})
    BY <2>5, FS_EmptySet
  <2> DEFINE k == earlier'[2]
             is == earlier'[1]
  <2>11. {i \in DOMAIN log' : i > k /\ log'[i].to \in Kept /\ log'[i].from \notin Kept} = {}
    BY <2>1, <2>6, <2>7 DEF Opened
  <2>12. {i \in DOMAIN log' : i > k /\ log'[i].from \in Kept /\ log'[i].to \notin Kept} = {}
    BY <2>1, <2>6, <2>7 DEF Closed
  <2>13. Cardinality(Listed') = is.findings /\ is.findings = n
    BY <2>7, <2>8
  <2>14. k \in Nat /\ is.findings \in Nat /\ (\A w \in Severities : is.severity[w] \in Nat) /\ k <= Len(log')
    BY <2>4, <2>5, <2>6, <2>7, <2>8
  <2>15. is.findings = Total(is.severity, Severities)
    BY <2>4, <2>7
  <2>16. Cardinality(Listed') - is.findings = Cardinality({}) - Cardinality({})
    BY <2>9, <2>13
  <2>10. Balanced'
    <3> HIDE DEF k, is
    <3> QED BY <2>11, <2>12, <2>14, <2>15, <2>16 DEF Balanced, Opened, Closed, k, is
  <2> QED BY <2>2, <2>10 DEF PostureInv
<1>7. ASSUME NEW b \in Box, Archive(b) PROVE PostureInv'
  BY <1>2, <1>4, <1>7 DEF Archive
<1>8. ASSUME NEW b \in Box, NEW verdict \in [Item -> DOMAIN Share], Assess(b, verdict) PROVE PostureInv'
  BY <1>1, <1>3, <1>8, AssessSteps DEF Judgements
<1>9. ASSUME NEW b \in Box, Rematch(b) \/ UpdateFinding(b) PROVE PostureInv'
  BY <1>1, <1>3, <1>9, TriageSteps
<1>10. CASE UNCHANGED postureVars
  BY <1>2, <1>4, <1>10 DEF postureVars
<1> QED BY <1>5, <1>6, <1>7, <1>8, <1>9, <1>10 DEF PostureNext

\* The posture's tables keep what its pages are made of.
THEOREM PostureInductive == PostureSpec => []PostureInv
BY PostureStarts, PostureKeeps, PTL DEF PostureSpec

\* The series of a finding are those of its first transition and its last.
SeriesOf(x) ==
    LET own == {i \in DOMAIN log : log[i].box = x[1] /\ log[i].problem = x[2]}
        ended(status) == own # {} /\ log[Max(own)].to = status
    IN /\ {day \in 1..today : x \in FirstSeenOn(day)} = {log[i].day : i \in {i \in own : log[i].from = "none"}}
       /\ {day \in 1..today : x \in ResolvedOn(day)} = (IF ended("resolved") THEN {log[Max(own)].day} ELSE {})
       /\ x \in ReopenedNow => own # {} /\ log[Max(own)].from \in {"resolved", "risk_accepted"}
       /\ (\E i \in own : i # Max(own) /\ log[i].to = "resolved")
             => x \in ReopenedNow \/ ended("resolved") \/ ended("open") \/ ended("risk_accepted")
       /\ ended("resolved") => DaysToResolve(x) = log[Max(own)].day - log[Min(own)].day

LEMMA NeverSeen ==
    ASSUME PostureTypeOK, AllTold, NEW x \in FindingKeys, OwnSteps(x) = {}
    PROVE  SeriesOf(x)
<1> DEFINE f == row[x[1]][x[2]]
<1>1. f = NoFinding
  BY DEF AllTold, RowTold
<1>2. f.first = 0 /\ f.resolved = 0 /\ f.status = "none"
  BY <1>1 DEF NoFinding
<1>3. \A day \in 1 .. today : x \notin FirstSeenOn(day) /\ x \notin ResolvedOn(day)
  <2>1. \A day \in 1 .. today : day # 0
    BY DEF PostureTypeOK
  <2> QED BY <1>2, <2>1 DEF FirstSeenOn, ResolvedOn
<1>4. x \notin ReopenedNow
  BY <1>2 DEF ReopenedNow, StatusOf
<1> DEFINE own == {i \in DOMAIN log : log[i].box = x[1] /\ log[i].problem = x[2]}
<1>5. own = {}
  BY DEF OwnSteps
<1>6. {log[i].day : i \in {i \in own : log[i].from = "none"}} = {}
  BY <1>5
<1>7. {day \in 1..today : x \in FirstSeenOn(day)} = {} /\ {day \in 1..today : x \in ResolvedOn(day)} = {}
  BY <1>3
<1>8. ~\E i \in own : i # Max(own) /\ log[i].to = "resolved"
  BY <1>5
<1> HIDE DEF own
<1> QED BY <1>4, <1>5, <1>6, <1>7, <1>8 DEF SeriesOf, own

LEMMA OnceSeen ==
    ASSUME PostureTypeOK, AllTold, NEW x \in FindingKeys, OwnSteps(x) # {}
    PROVE  SeriesOf(x)
<1> DEFINE f == row[x[1]][x[2]]
           own == {i \in DOMAIN log : log[i].box = x[1] /\ log[i].problem = x[2]}
<1>1. PICK low, high \in OwnSteps(x) : Spans(x, f, low, high)
  BY DEF AllTold, RowTold
<1>2. own = OwnSteps(x) /\ low \in own /\ high \in own /\ own # {}
  BY <1>1 DEF OwnSteps
<1>3. log \in Seq(ATransition) /\ own \subseteq Int
  BY DEF PostureTypeOK
<1>4. \A i \in own : low <= i /\ i <= high /\ (log[i].from = "none" => i = low)
  BY <1>1, <1>2 DEF Spans
<1>5. /\ log[low].from = "none" /\ f.first = log[low].day /\ f.status = log[high].to
      /\ f.status = "resolved" => f.resolved = log[high].day
  BY <1>1 DEF Spans
<1>6. log[low].day \in 1 .. today /\ log[high].day \in 1 .. today
  BY <1>2 DEF AllTold
<1> HIDE DEF own
<1>7. Max(own) = high
  BY <1>2, <1>3, <1>4, MaxOf
<1>8. Min(own) = low
  BY <1>2, <1>3, <1>4, MinOf
<1> DEFINE ended(status) == own # {} /\ log[Max(own)].to = status
<1>9. \A s : ended(s) <=> f.status = s
  BY <1>2, <1>5, <1>7
<1>10. {day \in 1..today : x \in FirstSeenOn(day)} = {log[i].day : i \in {i \in own : log[i].from = "none"}}
  <2>1. {i \in own : log[i].from = "none"} = {low}
    BY <1>2, <1>4, <1>5
  <2>2. {log[i].day : i \in {i \in own : log[i].from = "none"}} = {log[low].day}
    BY <2>1
  <2>3. \A day \in 1 .. today : x \in FirstSeenOn(day) <=> day = log[low].day
    BY <1>5 DEF FirstSeenOn
  <2>4. {day \in 1 .. today : x \in FirstSeenOn(day)} = {log[low].day}
    BY <1>6, <2>3
  <2> QED BY <2>2, <2>4
<1>11. {day \in 1..today : x \in ResolvedOn(day)} = (IF ended("resolved") THEN {log[Max(own)].day} ELSE {})
  <2>1. CASE f.status = "resolved"
    <3>1. \A day \in 1 .. today : x \in ResolvedOn(day) <=> day = log[high].day
      BY <1>5, <2>1 DEF ResolvedOn, StatusOf
    <3>2. {day \in 1 .. today : x \in ResolvedOn(day)} = {log[high].day}
      BY <1>6, <3>1
    <3>3. ended("resolved")
      BY <1>9, <2>1
    <3> HIDE DEF ended
    <3> QED BY <1>7, <3>2, <3>3
  <2>2. CASE f.status # "resolved"
    <3>1. \A day \in 1 .. today : x \notin ResolvedOn(day)
      BY <2>2 DEF ResolvedOn, StatusOf
    <3>2. {day \in 1 .. today : x \in ResolvedOn(day)} = {}
      BY <3>1
    <3>3. ~ended("resolved")
      BY <1>9, <2>2
    <3> HIDE DEF ended
    <3> QED BY <3>2, <3>3
  <2> QED BY <2>1, <2>2
<1>12. /\ x \in ReopenedNow => own # {} /\ log[Max(own)].from \in {"resolved", "risk_accepted"}
       /\ (\E i \in own : i # Max(own) /\ log[i].to = "resolved")
             => x \in ReopenedNow \/ ended("resolved") \/ ended("open") \/ ended("risk_accepted")
  <2>1. x \in ReopenedNow <=> f.status = "reopened"
    BY DEF ReopenedNow, StatusOf
  <2>2. Natural(log[high].from, f.status)
    BY <1>2, <1>5 DEF AllTold, OwnSteps
  <2>3. x \in ReopenedNow => log[high].from \in {"resolved", "risk_accepted"}
    BY <2>1, <2>2 DEF Natural
  <2>4. ASSUME NEW i \in own, i # high PROVE f.status # "new"
    <3>1. low # high
      BY <1>2, <1>3, <1>4, <2>4
    <3>2. log[high].from # "none"
      BY <1>2, <1>4, <3>1
    <3> QED BY <2>2, <3>2 DEF Natural
  <2>5. f.status \in PStatus /\ f.status # "none"
    <3>1. log[high] \in ATransition
      BY <1>1, <1>3 DEF OwnSteps
    <3> QED BY <1>1, <1>5, <3>1 DEF ATransition, Spans
  <2>6. ASSUME NEW i \in own, i # high
        PROVE  x \in ReopenedNow \/ ended("resolved") \/ ended("open") \/ ended("risk_accepted")
    <3>1. f.status \in {"open", "reopened", "resolved", "risk_accepted"}
      BY <2>4, <2>5, <2>6 DEF PStatus, Kept
    <3> HIDE DEF ended
    <3> QED BY <1>9, <2>1, <3>1
  <2> HIDE DEF ended
  <2> QED BY <1>2, <1>7, <2>3, <2>6
<1>13. ended("resolved") => DaysToResolve(x) = log[Max(own)].day - log[Min(own)].day
  <2> SUFFICES ASSUME ended("resolved") PROVE DaysToResolve(x) = log[high].day - log[low].day
    BY <1>7, <1>8
  <2>1. f.status = "resolved"
    BY <1>9
  <2> QED BY <1>5, <2>1 DEF DaysToResolve
<1> HIDE DEF ended
<1> QED BY <1>10, <1>11, <1>12, <1>13 DEF SeriesOf, ended, own

LEMMA SeriesAsTold == PostureTypeOK /\ AllTold => SeriesAreTrue
<1> SUFFICES ASSUME PostureTypeOK, AllTold PROVE SeriesAreTrue
  OBVIOUS
<1>1. \A x \in FindingKeys : SeriesOf(x)
  BY NeverSeen, OnceSeen
<1> QED BY <1>1 DEF SeriesAreTrue, SeriesOf

\* Every finding has one priority of four.
LEMMA PriorityIs == \A b, p : PriorityFor(b, p) \in 1 .. 4
BY DEF PriorityFor

\* The buckets of the priorities share out the findings of the retained devices.
LEMMA BucketsShare ==
    /\ {x \in Listed : x[1] \in retained} = UNION {Bucket(c) : c \in 1..4}
    /\ \A c, d \in 1..4 : c # d => Bucket(c) \cap Bucket(d) = {}
    /\ \A b \in retained : WorstPriority(b) = Min({c \in 1..4 : \E x \in Bucket(c) : x[1] = b} \cup {5})
<1>1. \A x, c : x \in Bucket(c) <=> x \in Listed /\ x[1] \in retained /\ PriorityFor(x[1], x[2]) = c
  BY DEF Bucket
<1>2. {x \in Listed : x[1] \in retained} = UNION {Bucket(c) : c \in 1..4}
  <2>1. ASSUME NEW x \in Listed, x[1] \in retained PROVE x \in UNION {Bucket(c) : c \in 1..4}
    <3>1. x \in Bucket(PriorityFor(x[1], x[2])) /\ PriorityFor(x[1], x[2]) \in 1 .. 4
      BY <1>1, <2>1, PriorityIs
    <3> QED BY <3>1
  <2>2. ASSUME NEW c \in 1 .. 4, NEW x \in Bucket(c) PROVE x \in Listed /\ x[1] \in retained
    BY <1>1
  <2> QED BY <2>1, <2>2
<1>3. \A c, d \in 1..4 : c # d => Bucket(c) \cap Bucket(d) = {}
  BY <1>1
<1>4. ASSUME NEW b \in retained
      PROVE  WorstPriority(b) = Min({c \in 1..4 : \E x \in Bucket(c) : x[1] = b} \cup {5})
  <2> DEFINE one == {PriorityFor(b, x[2]) : x \in {x \in Listed : x[1] = b}}
             two == {c \in 1..4 : \E x \in Bucket(c) : x[1] = b}
  <2>1. ASSUME NEW c \in one PROVE c \in two
    <3>1. PICK x \in Listed : x[1] = b /\ c = PriorityFor(b, x[2])
      OBVIOUS
    <3>2. c \in 1 .. 4 /\ x \in Bucket(c)
      BY <1>1, <3>1, PriorityIs
    <3> QED BY <3>1, <3>2
  <2>2. ASSUME NEW c \in two PROVE c \in one
    <3>1. PICK x \in Bucket(c) : x[1] = b
      OBVIOUS
    <3>2. x \in Listed /\ c = PriorityFor(b, x[2])
      BY <1>1, <3>1
    <3> QED BY <3>1, <3>2
  <2>3. one = two
    BY <2>1, <2>2
  <2> HIDE DEF one, two
  <2> QED BY <2>3 DEF WorstPriority, one, two
<1> QED BY <1>2, <1>3, <1>4

\* Every retained device that was ever assessed has one letter.
LEMMA LettersShare ==
    ASSUME PostureTypeOK, ScoredInTurn, NEW b \in retained
    PROVE  Cardinality({g \in 1..6 : b \in ByGrade(g)}) = (IF b \in Graded THEN 1 ELSE 0)
<1>1. \A g : b \in ByGrade(g) <=> b \in Graded /\ GradeFor(Scores[b]) = g
  BY DEF ByGrade
<1> DEFINE S == {g \in 1 .. 6 : b \in ByGrade(g)}
<1>2. CASE b \in Graded
  <2> DEFINE g == GradeFor(Scores[b])
  <2>1. g \in 1 .. 6
    BY <1>2, ScoresAre, GradeIs
  <2> HIDE DEF g
  <2>2. S = {g}
    BY <1>1, <1>2, <2>1 DEF g
  <2>3. Cardinality({g}) = 1
    BY FS_Singleton
  <2> HIDE DEF S
  <2> QED BY <1>2, <2>2, <2>3 DEF S
<1>3. CASE b \notin Graded
  <2>1. S = {}
    BY <1>1, <1>3
  <2>2. Cardinality({}) = 0
    BY FS_EmptySet
  <2> HIDE DEF S
  <2> QED BY <1>3, <2>1, <2>2 DEF S
<1> QED BY <1>2, <1>3

\* The differences of the trend report: what opened less what closed, and the
\* sum of those of the severities.
LEMMA DifferencesAreTrue ==
    ASSUME PostureTypeOK, Balanced, earlier # <<>>
    PROVE  LET since == {i \in DOMAIN log : i > earlier[2]}
               opened == {i \in since : log[i].to \in Kept /\ log[i].from \notin Kept}
               closed == {i \in since : log[i].from \in Kept /\ log[i].to \notin Kept}
           IN /\ FindingsDelta = Cardinality(opened) - Cardinality(closed)
              /\ FindingsDelta = Total([w \in {0, 3, 8, 20, 40} |-> SeverityDelta(w)], {0, 3, 8, 20, 40})
<1> DEFINE since == {i \in DOMAIN log : i > earlier[2]}
           opened == {i \in since : log[i].to \in Kept /\ log[i].from \notin Kept}
           closed == {i \in since : log[i].from \in Kept /\ log[i].to \notin Kept}
           now == [w \in Severities |-> Cardinality(BySeverity(w))]
           then == earlier[1].severity
           less == [w \in Severities |-> SeverityDelta(w)]
<1>1. /\ earlier[1].findings \in Nat /\ \A w \in Severities : then[w] \in Nat
      /\ earlier[1].findings = Total(then, Severities)
      /\ Cardinality(Listed) - earlier[1].findings = Cardinality(Opened(earlier[2])) - Cardinality(Closed(earlier[2]))
  BY DEF Balanced
<1>2. opened = Opened(earlier[2]) /\ closed = Closed(earlier[2])
  BY DEF Opened, Closed
<1>3. \A w \in Severities : now[w] = Cardinality(BySeverity(w)) /\ less[w] = now[w] - then[w]
  BY DEF SeverityDelta
<1> HIDE DEF now, then, less, opened, closed
<1>4. (\A w \in Severities : now[w] \in Nat) /\ Total(now, Severities) = Cardinality(Listed)
  BY <1>3, SeveritiesShare
<1>5. IsFiniteSet(Severities)
  <2>1. IsFiniteSet(0 .. 40)
    <3>1. 0 \in Int /\ 40 \in Int
      OBVIOUS
    <3> QED BY <3>1, FS_Interval
  <2>2. Severities \subseteq 0 .. 40
    BY DEF Severities
  <2> QED BY <2>1, <2>2, FS_Subset
<1>6. OnNumbers(now, Severities) /\ OnNumbers(then, Severities)
  BY <1>1, <1>4 DEF OnNumbers
<1>7. Total(less, Severities) = Total(now, Severities) - Total(then, Severities)
  BY <1>3, <1>5, <1>6, TotalLess
<1>8. FindingsDelta = Cardinality(opened) - Cardinality(closed)
  BY <1>1, <1>2 DEF FindingsDelta
<1>9. FindingsDelta = Total(less, Severities)
  BY <1>1, <1>4, <1>7 DEF FindingsDelta
<1>10. FindingsDelta = Total([w \in {0, 3, 8, 20, 40} |-> SeverityDelta(w)], {0, 3, 8, 20, 40})
  BY <1>9 DEF less, Severities
<1> QED BY <1>8, <1>10 DEF opened, closed

\* The posture's four promises, of any devices, checks, weights and days.
THEOREM PostureAlwaysTrue == PostureSpec => []PostureIsTrue
<1>1. ASSUME PostureInv PROVE PostureHolds
  <2>1. PostureTypeOK /\ ScoredInTurn /\ Levelled /\ AllTold /\ Balanced
    BY <1>1 DEF PostureInv
  <2>2. SeriesAreTrue /\ EstateSeriesIsTrue /\ ScoresAreFair
    BY <2>1, SeriesAsTold, SeriesOfTheEstate, FairScores
  <2>3. PagesAgree
    BY <2>1, BucketsShare, LettersShare, DifferencesAreTrue DEF PagesAgree
  <2> QED BY <2>2, <2>3 DEF PostureHolds
<1>2. PostureInv => PostureIsTrue
  BY <1>1 DEF PostureIsTrue
<1> QED BY <1>2, PostureInductive, PTL
=============================================================================
