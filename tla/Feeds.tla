-------------------------------- MODULE Feeds --------------------------------
(***************************************************************************)
(* Vulnerability feeds: incremental synchronisation with NVD, bundles      *)
(* imported by hand, and the KEV catalogue applied to the CVEs on record.  *)
(* A CVE is represented by the times NVD revised it.  Every import is a    *)
(* transaction; the watermark is the time a successful one inserted its    *)
(* feed_syncs row, which comes after the fetch.                            *)
(***************************************************************************)
EXTENDS Integers, SequencesExt

CONSTANTS
    Cve,
    Importer,       \* transactions that import feeds
    MaxWindow,      \* MAX_NVD_WINDOW, in clock units
    MaxFeedTime,    \* bound: time
    MaxRevisions,   \* bound: revisions by NVD and changes of the catalogue
    MaxImports      \* bound: imports begun

ASSUME FeedAssumption == MaxWindow \in Nat \ {0}

VARIABLES
    feedClock,
    revisions,      \* NVD: when each CVE was revised
    catalogue,      \* CISA: the CVEs listed now
    stored,         \* the revision on record of each CVE, 0 without one
    flag,           \* its KEV flag: "unchecked" (NULL), "listed" or "cleared"
    entries,        \* KevEntry rows
    applied,        \* history: the catalogue applied last
    mark,           \* started_at of the last successful NVD import, 0 without one
    import,
    raced,          \* history: an NVD and a KEV import overlapped
    changes, imports

feedVars == <<feedClock, revisions, catalogue, stored, flag, entries, applied, mark, import, raced, changes, imports>>

NoImport == [kind |-> "none", step |-> "", since |-> 0, taken |-> 0, at |-> 0,
             got |-> [c \in Cve |-> 0], says |-> [c \in Cve |-> "same"], rejected |-> {}, seen |-> {}]

FeedInit ==
    /\ feedClock = 1 /\ revisions = [c \in Cve |-> {}] /\ catalogue = {}
    /\ stored = [c \in Cve |-> 0] /\ flag = [c \in Cve |-> "unchecked"] /\ entries = {} /\ applied = {}
    /\ mark = 0 /\ import = [i \in Importer |-> NoImport] /\ raced = FALSE /\ changes = 0 /\ imports = 0

Latest(c, by) == Max({r \in revisions[c] : r <= by} \cup {0})
-----------------------------------------------------------------------------
FeedTick == /\ feedClock < MaxFeedTime /\ feedClock' = feedClock + 1
            /\ UNCHANGED <<revisions, catalogue, stored, flag, entries, applied, mark, import, raced, changes, imports>>

Change == changes < MaxRevisions /\ changes' = changes + 1

Revise(c) ==
    /\ Change /\ revisions' = [revisions EXCEPT ![c] = @ \cup {feedClock}]
    /\ UNCHANGED <<feedClock, catalogue, stored, flag, entries, applied, mark, import, raced, imports>>

\* CISA adds and withdraws entries.
Recatalogue(c) ==
    /\ Change /\ catalogue' = (catalogue \cup {c}) \ (catalogue \cap {c})
    /\ UNCHANGED <<feedClock, revisions, stored, flag, entries, applied, mark, import, raced, imports>>
-----------------------------------------------------------------------------
Begins(i, record) ==
    /\ import[i].kind = "none" /\ imports < MaxImports /\ imports' = imports + 1
    /\ import' = [import EXCEPT ![i] = record]
    /\ raced' = (raced \/ \E j \in Importer : import[j].kind # "none" /\ (import[j].kind = "kev") # (record.kind = "kev"))
    /\ UNCHANGED <<feedClock, revisions, catalogue, stored, flag, entries, applied, mark, changes>>

\* An import that has fetched nothing yet.
Importing(kind, since, taken, seen) ==
    [kind |-> kind, step |-> "fetch", since |-> since, taken |-> taken, at |-> 0,
     got |-> [c \in Cve |-> 0], says |-> [c \in Cve |-> "same"], rejected |-> {}, seen |-> seen]

\* It has inserted its row and upserted its records but those it rejected.
Written(i, got, says, rejected) ==
    [kind |-> import[i].kind, step |-> "written", since |-> import[i].since, taken |-> import[i].taken,
     at |-> feedClock, got |-> got, says |-> says, rejected |-> rejected, seen |-> import[i].seen]

\* sync_online takes the watermark and the time, then fetches.
StartNvd(i) == Begins(i, Importing("nvd", mark, feedClock, {}))

\* A bundle saved at some earlier time, imported under the same name.
StartBundle(i) == \E day \in 1 .. feedClock : Begins(i, Importing("bundle", 0, day, {}))

\* Entries of the catalogue that cannot be read are dropped.
StartKev(i) == \E read \in SUBSET catalogue : Begins(i, Importing("kev", 0, 0, read))

\* NVD answers for a bounded window only; without a watermark, for all of it.
WindowStart(since, taken) == IF since = 0 THEN taken - MaxWindow ELSE Max({since, taken - MaxWindow})

\* What the feed holds of a CVE.  NVD files it under its last revision only.
Offered(i, c) ==
    IF import[i].kind = "bundle" THEN Latest(c, import[i].taken)
    ELSE LET r == Latest(c, feedClock)
         IN IF r # 0 /\ r \in WindowStart(import[i].since, import[i].taken) .. import[i].taken THEN r ELSE 0

\* Rows another import has written and not committed.
Busy(i) == {c \in Cve : \E j \in Importer \ {i} : import[j].step = "written"
                                                  /\ (import[j].got[c] # 0 \/ import[j].says[c] # "same")}

\* The flag a CVE is stored with, by the entries on record: none leave it alone.
KevState(c) == IF entries = {} THEN "same" ELSE IF c \in entries THEN "listed" ELSE "cleared"

\* The row of the run is inserted, then the records are upserted.  One that
\* cannot be read is counted and skipped: what is on record of it stays.
IngestNvd(i) ==
    /\ import[i].kind \in {"nvd", "bundle"} /\ import[i].step = "fetch"
    /\ \E rejected \in SUBSET {c \in Cve : Offered(i, c) # 0} :
        LET got == [c \in Cve |-> IF c \in rejected THEN 0 ELSE Offered(i, c)]
        IN  /\ \A c \in Busy(i) : got[c] = 0
            /\ import' = [import EXCEPT ![i] =
                   Written(i, got, [c \in Cve |-> IF got[c] = 0 THEN "same" ELSE KevState(c)], rejected)]
    /\ UNCHANGED <<feedClock, revisions, catalogue, stored, flag, entries, applied, mark, raced, changes, imports>>

\* Mutant: what the catalogue does not list is left as it was.
Verdicts_ListedOnly(seen) == [c \in Cve |-> IF stored[c] # 0 /\ c \in seen THEN "listed" ELSE "same"]

\* Listed or not, every CVE on record gets an answer.
Verdicts(seen) == [c \in Cve |-> IF stored[c] = 0 THEN "same" ELSE IF c \in seen THEN "listed" ELSE "cleared"]

IngestKev(i) ==
    /\ import[i].kind = "kev" /\ import[i].step = "fetch"
    /\ \A c \in Busy(i) : stored[c] = 0
    /\ \A j \in Importer \ {i} : ~(import[j].kind = "kev" /\ import[j].step = "written")
    /\ import' = [import EXCEPT ![i] = Written(i, import[i].got, Verdicts(import[i].seen), {})]
    /\ UNCHANGED <<feedClock, revisions, catalogue, stored, flag, entries, applied, mark, raced, changes, imports>>

\* NVD answers for MaxWindow only: an online run further behind skips a stretch.
Skips(i) == import[i].kind = "nvd" /\ import[i].since # 0 /\ import[i].taken - import[i].since > MaxWindow

\* What the run's row says of it in the end.
RunStatus(i, ok) ==
    IF ~ok THEN "failed" ELSE IF import[i].rejected # {} \/ Skips(i) THEN "partial" ELSE "succeeded"

\* Mutant: a run that failed moves the watermark.
Succeeded_Any(i, ok) == import[i].kind # "kev"

\* Partial counts; failed does not.
Succeeded(i, ok) == RunStatus(i, ok) \in {"succeeded", "partial"} /\ import[i].kind # "kev"

\* The run ends.  One the reader refused commits its FAILED row and nothing
\* else; a catalogue without a readable entry is refused.
Finish(i, ok) ==
    /\ import[i].step = "written"
    /\ import[i].kind = "kev" /\ import[i].seen = {} => ~ok
    /\ stored' = [c \in Cve |-> IF ok /\ import[i].got[c] # 0 THEN import[i].got[c] ELSE stored[c]]
    /\ flag' = [c \in Cve |-> IF ok /\ import[i].says[c] # "same" THEN import[i].says[c] ELSE flag[c]]
    /\ entries' = IF ok THEN entries \cup import[i].seen ELSE entries
    /\ applied' = IF ok /\ import[i].kind = "kev" THEN import[i].seen ELSE applied
    /\ mark' = IF Succeeded(i, ok) THEN Max({mark, import[i].at}) ELSE mark
    /\ import' = [import EXCEPT ![i] = NoImport]
    /\ UNCHANGED <<feedClock, revisions, catalogue, raced, changes, imports>>

\* The fetch fails, or the transaction is undone: no row is left.
Abandon(i) == /\ import[i].kind # "none" /\ import' = [import EXCEPT ![i] = NoImport]
              /\ UNCHANGED <<feedClock, revisions, catalogue, stored, flag, entries, applied, mark, raced, changes, imports>>

FeedNext ==
    \/ FeedTick
    \/ \E c \in Cve : Revise(c) \/ Recatalogue(c)
    \/ \E i \in Importer :
        \/ StartNvd(i) \/ StartBundle(i) \/ StartKev(i) \/ IngestNvd(i) \/ IngestKev(i) \/ Abandon(i)
        \/ \E ok \in BOOLEAN : Finish(i, ok)

FeedSpec == FeedInit /\ [][FeedNext]_feedVars
-----------------------------------------------------------------------------
\* The watermark passes a revision that was not stored only where the run's row
\* says PARTIAL (records were rejected, or NVD's window skipped a stretch), however
\* imports fail, overlap or follow one another.  Three gaps no row tells of: what
\* NVD revises between the close of the window and the row of the run, what the
\* first run finds outside its window, and what was revised after a bundle was saved.
NoSilentGap ==
    [][\A i \in Importer, ok \in BOOLEAN : Finish(i, ok) /\ mark' > mark =>
          \A c \in Cve : LET r == Latest(c, feedClock) IN
              r # 0 /\ r \in mark .. mark' - 1 =>
                  \/ stored'[c] = r
                  \/ RunStatus(i, ok) = "partial"
                  \/ r >= import[i].taken
                  \/ import[i].kind = "nvd" /\ import[i].since = 0 /\ r < import[i].taken - MaxWindow]_feedVars

\* Once a catalogue with entries is on record every CVE has its answer, in
\* whatever order the feeds arrived, unless a KEV and an NVD import overlapped.
NothingStaysUnchecked ==
    entries # {} /\ ~raced => \A c \in Cve : stored[c] # 0 => flag[c] # "unchecked"

\* No CVE among the entries read from the catalogue applied last reads as
\* cleared: an analyst who filters by the flag misses none of them.
ListedIsNeverCleared ==
    ~raced => \A c \in applied : stored[c] # 0 => flag[c] = "listed"
\* The exploited flag follows the catalogue, whichever feed came first.
FlagsFollowCatalogue == NothingStaysUnchecked /\ ListedIsNeverCleared
=============================================================================
