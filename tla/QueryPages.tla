----------------------------- MODULE QueryPages -----------------------------
(***************************************************************************)
(* The pages of the query explorer (query_records in                       *)
(* analytics_service/store.py) read by a client that follows next_cursor,  *)
(* while refreshes replace the snapshot.  Every page is one SELECT over    *)
(* the version that is active then.                                        *)
(*                                                                         *)
(* A record is its place in the order by created_at and request_id; Rank   *)
(* is the value the other sort fields order it by.  The client's filters   *)
(* select the same records on every page and are left out.                 *)
(***************************************************************************)
EXTENDS AnalyticsSnapshots, Sequences, Functions

CONSTANTS
    SortBy,     \* "created_at" (descending, the default) or another field
    Rank,       \* what the other field says of each record
    Limit       \* page size

\* The source holds the searches of history_days.
ASSUME RecordAssumption == Records \subseteq Nat /\ IsFiniteSet(Records)
ASSUME LimitAssumption == Limit \in Nat \ {0}
ASSUME RankAssumption == Rank \in [Records -> Nat]

VARIABLES
    walk,       \* the client: its state and its cursor
    shown,      \* how often each record was shown to it
    kept        \* records that every snapshot since its first page had

pageVars == <<walk, shown, kept>>
allVars == <<snapshotVars, pageVars>>

NoCursor == 0

PageTypeOK ==
    /\ walk \in [state : {"none", "new", "ended"}, cursor : {NoCursor}]
                   \cup [state : {"reading"}, cursor : Nat \ {NoCursor}]
    /\ shown \in [Records -> Nat]
    /\ kept \subseteq Records

\* A client is about to read, or there is none.
PageInit ==
    /\ SnapshotsInit
    /\ walk \in [state : {"none", "new"}, cursor : {NoCursor}]
    /\ shown = [x \in Records |-> 0]
    /\ kept = {}

Default == SortBy = "created_at"

\* The keyset condition of the default cursor.
After(x) == walk.cursor = NoCursor \/ x < walk.cursor

\* ORDER BY.
Before(x, y) == IF Default \/ Rank[x] = Rank[y] THEN x > y ELSE Rank[x] > Rank[y]

\* The records of a set in that order.
Sorted(S) ==
    LET n == Cardinality(S)
    IN  CHOOSE s \in Bijection(1 .. n, S) : \A i, j \in 1 .. n : i < j => Before(s[i], s[j])

\* The rows the statement selects: LIMIT limit + 1, after the cursor or OFFSET.
Selected ==
    LET active == IF snapshot = NoRun THEN {} ELSE rows[snapshot]
        sorted == Sorted({x \in active : Default => After(x)})
        from   == IF Default THEN 1 ELSE walk.cursor + 1
    IN  SubSeq(sorted, from, Len(sorted))

\* Fault: the cursor is taken from the row that shows that there is more.
NextCursor_Extra(selected) ==
    IF Default THEN selected[Limit + 1] ELSE walk.cursor + Limit + 1

\* next_cursor: the last visible record, or the offset behind it.
NextCursor(selected) == IF Default THEN selected[Limit] ELSE walk.cursor + Limit

\* company_status(...)["has_snapshot"], tested before every page.
HasSnapshot == snapshot # NoRun

\* query_records: one page.
Page ==
    /\ walk.state \in {"new", "reading"}
    /\ LET selected == Selected
           more     == Len(selected) > Limit
           visible  == {selected[i] : i \in 1 .. (IF more THEN Limit ELSE Len(selected))}
       IN /\ shown' = [x \in Records |-> IF x \in visible THEN shown[x] + 1 ELSE shown[x]]
          /\ walk' = IF more THEN [state |-> "reading", cursor |-> NextCursor(selected)]
                     ELSE [state |-> "ended", cursor |-> NoCursor]
          /\ kept' = IF walk.state = "new" THEN rows[snapshot] ELSE kept
    /\ UNCHANGED snapshotVars

\* get_queries answers 503 without a snapshot.
GetQueries == HasSnapshot /\ Page

\* A step of the rest of the system; a new snapshot may lack records.
Elsewhere ==
    /\ SnapshotsNext
    /\ kept' = IF snapshot' # snapshot /\ walk.state = "reading"
               THEN kept \cap rows'[snapshot'] ELSE kept
    /\ UNCHANGED <<walk, shown>>

PageNext == GetQueries \/ Elsewhere

PageSpec == PageInit /\ [][PageNext]_allVars

-----------------------------------------------------------------------------
\* "The query endpoint uses a stable descending (created_at, request_id)
\* cursor.  It never uses offset pagination" (docs/analytics_service.md): a
\* client that follows next_cursor to the end gets every record that stayed in
\* the snapshots meanwhile exactly once, and no record twice, although records
\* come, also between older ones, and go with every refresh.
PagesAreStable ==
    /\ PageTypeOK
    /\ \A x \in Records : shown[x] <= 1
    /\ walk.state = "ended" => \A x \in kept : shown[x] = 1
=============================================================================
