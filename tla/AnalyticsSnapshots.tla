------------------------- MODULE AnalyticsSnapshots -------------------------
(***************************************************************************)
(* The dashboard snapshots of one company (analytics_service/service.py,   *)
(* store.py, refresh.py and the readers in api.py).  Refresh processes     *)
(* load the source, compute, and publish a snapshot into a shared SQLite   *)
(* file; the API, another process, reads it and keeps two caches.          *)
(*                                                                         *)
(* The publication is one BEGIN IMMEDIATE transaction, hence one step.     *)
(* The readers run in autocommit mode: every SELECT is a step of its own.  *)
(*                                                                         *)
(* A run publishes at most once, so the run stands for the version and for *)
(* generated_at of its snapshot.  Both audiences work alike: one is kept.  *)
(***************************************************************************)
EXTENDS Naturals, FiniteSets

CONSTANTS
    Runs,       \* refresh processes
    Records,    \* search records the source can hold
    Readers,    \* threads of the analytics API
    NoRun,
    Manual      \* refreshes started by hand: the others are started by the scripts,
                \* which share a lock

ASSUME RunAssumption == NoRun \notin Runs
ASSUME ManualAssumption == Manual \subseteq Runs

VARIABLES
    source,     \* records of the company database within history_days
    proc,       \* what each refresh process is doing
    status,     \* rows of analytics_refresh_runs
    old,        \* runs started more than STALE_REFRESH_AFTER ago
    loaded,     \* what each run read from the source and computed from
    base,       \* the snapshot that was active then
    rows,       \* analytics_query_records by version
    snapshot,   \* the row of analytics_snapshots
    request,    \* what each API thread is doing
    activity,   \* cached_dashboard_activity, by generated_at
    facets      \* _facet_cache of the API, by version

refreshVars == <<source, proc, status, old, loaded, base, rows, snapshot>>
readerVars == <<request, activity, facets>>
snapshotVars == <<refreshVars, readerVars>>

NotCached == [cached |-> FALSE]
Cached(value) == [cached |-> TRUE, value |-> value]
Entries(values) == {NotCached} \cup [cached : {TRUE}, value : values]
NoRequest == [op |-> "idle"]

Requests ==
    {NoRequest}
      \cup [op : {"lookup"}, key : Runs]
      \cup [op : {"records"}, key : Runs, version : Runs]
      \cup [op : {"facets"}, version : Runs]
      \cup [op : {"moreFacets"}, version : Runs, first : SUBSET Records]
      \cup [op : {"answer"}, version : Runs, first : SUBSET Records, rest : SUBSET Records]

SnapshotsTypeOK ==
    /\ source \subseteq Records
    /\ proc \in [Runs -> {"new", "started", "loading", "ready", "failing", "ended", "killed"}]
    /\ status \in [Runs -> {"none", "running", "complete", "failed", "interrupted"}]
    /\ old \in [Runs -> BOOLEAN]
    /\ loaded \in [Runs -> SUBSET Records]
    /\ base \in [Runs -> Runs \cup {NoRun}]
    /\ rows \in [Runs -> SUBSET Records]
    /\ snapshot \in Runs \cup {NoRun}
    /\ request \in [Readers -> Requests]
    /\ activity \in [Runs -> Entries(SUBSET Records)]
    /\ facets \in [Runs -> Entries((SUBSET Records) \X (SUBSET Records))]

SnapshotsInit ==
    /\ source = {}
    /\ proc = [r \in Runs |-> "new"]
    /\ status = [r \in Runs |-> "none"]
    /\ old = [r \in Runs |-> FALSE]
    /\ loaded = [r \in Runs |-> {}]
    /\ base = [r \in Runs |-> NoRun]
    /\ rows = [r \in Runs |-> {}]
    /\ snapshot = NoRun
    /\ request = [c \in Readers |-> NoRequest]
    /\ activity = [r \in Runs |-> NotCached]
    /\ facets = [r \in Runs |-> NotCached]

-----------------------------------------------------------------------------
(* The source: searches are uploaded in any order and leave history_days. *)

Arrive(x) ==
    /\ x \notin source
    /\ source' = source \cup {x}
    /\ UNCHANGED <<proc, status, old, loaded, base, rows, snapshot, readerVars>>

Leave(x) ==
    /\ x \in source
    /\ source' = source \ {x}
    /\ UNCHANGED <<proc, status, old, loaded, base, rows, snapshot, readerVars>>

-----------------------------------------------------------------------------
(* A refresh process. *)

Running(r) == proc[r] \in {"started", "loading", "ready", "failing"}

\* Fault: the refresh is started without the scripts' lock.
MayStart_Unlocked(r) == TRUE

\* flock -n in run_scheduled_analytics.sh and deploy_production.sh.
MayStart(r) == r \in Manual \/ \A q \in Runs \ Manual : ~Running(q)

\* Fault: the cutoff compares the wrong way round.
Stale_Young(r) == status[r] = "running" /\ ~old[r]

Stale(r) == status[r] = "running" /\ old[r]

\* reconcile_stale_refreshes, when a store is opened.
Reconciled == [r \in Runs |-> IF Stale(r) THEN "interrupted" ELSE status[r]]

\* The process opens the store.
Start(r) ==
    /\ proc[r] = "new"
    /\ MayStart(r)
    /\ proc' = [proc EXCEPT ![r] = "started"]
    /\ status' = Reconciled
    /\ UNCHANGED <<source, old, loaded, base, rows, snapshot, readerVars>>

\* --if-missing, with a snapshot.
Skip(r) ==
    /\ proc[r] = "started"
    /\ snapshot # NoRun
    /\ proc' = [proc EXCEPT ![r] = "ended"]
    /\ UNCHANGED <<source, status, old, loaded, base, rows, snapshot, readerVars>>

\* begin_refresh.
Begin(r) ==
    /\ proc[r] = "started"
    /\ proc' = [proc EXCEPT ![r] = "loading"]
    /\ status' = [status EXCEPT ![r] = "running"]
    /\ UNCHANGED <<source, old, loaded, base, rows, snapshot, readerVars>>

\* source.load and the computation from what it returned.
Load(r) ==
    /\ proc[r] = "loading"
    /\ proc' = [proc EXCEPT ![r] = "ready"]
    /\ loaded' = [loaded EXCEPT ![r] = source]
    /\ base' = [base EXCEPT ![r] = snapshot]
    /\ UNCHANGED <<source, status, old, rows, snapshot, readerVars>>

\* The source, the adapter, or the transaction (rolled back) raises.
Raises(r) ==
    /\ proc[r] \in {"loading", "ready"}
    /\ proc' = [proc EXCEPT ![r] = "failing"]
    /\ UNCHANGED <<source, status, old, loaded, base, rows, snapshot, readerVars>>

\* fail_refresh, whatever the row says.
Fail(r) ==
    /\ proc[r] = "failing"
    /\ proc' = [proc EXCEPT ![r] = "ended"]
    /\ status' = [status EXCEPT ![r] = "failed"]
    /\ UNCHANGED <<source, old, loaded, base, rows, snapshot, readerVars>>

\* The records of the new version are in, those of the previous one are out.
Published(r) == [q \in Runs |-> IF q = r THEN loaded[r]
                                ELSE IF q = snapshot THEN {} ELSE rows[q]]

\* publish: the caches it clears are those of the refresh process.
Publish(r) ==
    /\ proc[r] = "ready"
    /\ proc' = [proc EXCEPT ![r] = "ended"]
    /\ rows' = Published(r)
    /\ snapshot' = r
    /\ status' = [status EXCEPT ![r] = "complete"]
    /\ UNCHANGED <<source, old, loaded, base, readerVars>>

\* The process is killed: an open transaction is rolled back, the row stays.
Kill(r) ==
    /\ Running(r)
    /\ proc' = [proc EXCEPT ![r] = "killed"]
    /\ UNCHANGED <<source, status, old, loaded, base, rows, snapshot, readerVars>>

\* Six hours go by.
Age(r) ==
    /\ status[r] = "running" /\ ~old[r]
    /\ old' = [old EXCEPT ![r] = TRUE]
    /\ UNCHANGED <<source, proc, status, loaded, base, rows, snapshot, readerVars>>

-----------------------------------------------------------------------------
(* The API. *)

\* Another refresh (of a later hour or another company) opens the store.
OpenStore ==
    /\ status' = Reconciled
    /\ UNCHANGED <<source, proc, old, loaded, base, rows, snapshot, readerVars>>

\* The API is restarted: its caches and requests are gone, it opens the store.
ApiStart ==
    /\ status' = Reconciled
    /\ request' = [c \in Readers |-> NoRequest]
    /\ activity' = [r \in Runs |-> NotCached]
    /\ facets' = [r \in Runs |-> NotCached]
    /\ UNCHANGED <<source, proc, old, loaded, base, rows, snapshot>>

Continue(c, state) == request' = [request EXCEPT ![c] = state]

\* get_dashboard: store.dashboard.  Without a snapshot it answers 503.
AskDashboard(c) ==
    /\ request[c] = NoRequest
    /\ snapshot # NoRun
    /\ Continue(c, [op |-> "lookup", key |-> snapshot])
    /\ UNCHANGED <<refreshVars, activity, facets>>

\* The dashboard's activity is cached for its generated_at.
ActivityHit(c) ==
    /\ request[c].op = "lookup"
    /\ activity[request[c].key].cached
    /\ Continue(c, NoRequest)
    /\ UNCHANGED <<refreshVars, activity, facets>>

\* It is not: dashboard_activity_records reads the active version...
ActivityMiss(c) ==
    /\ request[c].op = "lookup"
    /\ ~activity[request[c].key].cached
    /\ Continue(c, [op |-> "records", key |-> request[c].key, version |-> snapshot])
    /\ UNCHANGED <<refreshVars, activity, facets>>

\* Fault: the result is kept for the snapshot that is active by then.
CacheKey_Active(c) == snapshot

\* The key: generated_at of the dashboard that was read first.
CacheKey(c) == request[c].key

\* ... and then its rows.  lru_cache keeps a result that came first.
ReadActivity(c) ==
    /\ request[c].op = "records"
    /\ activity' = IF activity[CacheKey(c)].cached THEN activity
                   ELSE [activity EXCEPT ![CacheKey(c)] = Cached(rows[request[c].version])]
    /\ Continue(c, NoRequest)
    /\ UNCHANGED <<refreshVars, facets>>

\* lru_cache(maxsize=32) drops a result.
EvictActivity(r) ==
    /\ activity[r].cached
    /\ activity' = [activity EXCEPT ![r] = NotCached]
    /\ UNCHANGED <<refreshVars, request, facets>>

\* query_facets_snapshot: the active version, found in the cache...
FacetsHit(c) ==
    /\ request[c] = NoRequest
    /\ snapshot # NoRun
    /\ facets[snapshot].cached
    /\ Continue(c, [op |-> "answer", version |-> snapshot,
                    first |-> facets[snapshot].value[1], rest |-> facets[snapshot].value[2]])
    /\ UNCHANGED <<refreshVars, activity, facets>>

\* ... or not.
FacetsMiss(c) ==
    /\ request[c] = NoRequest
    /\ snapshot # NoRun
    /\ ~facets[snapshot].cached
    /\ Continue(c, [op |-> "facets", version |-> snapshot])
    /\ UNCHANGED <<refreshVars, activity, facets>>

\* The first of the statements that collect the choices.
FirstFacets(c) ==
    /\ request[c].op = "facets"
    /\ Continue(c, [op |-> "moreFacets", version |-> request[c].version,
                    first |-> rows[request[c].version]])
    /\ UNCHANGED <<refreshVars, activity, facets>>

FacetKey(c) == request[c].version

\* The last of them; the result is cached for the version.
RestFacets(c) ==
    /\ request[c].op = "moreFacets"
    /\ LET rest == rows[request[c].version] IN
         /\ facets' = [facets EXCEPT ![FacetKey(c)] = Cached(<<request[c].first, rest>>)]
         /\ Continue(c, [op |-> "answer", version |-> request[c].version,
                         first |-> request[c].first, rest |-> rest])
    /\ UNCHANGED <<refreshVars, activity>>

Answer(c) ==
    /\ request[c].op = "answer"
    /\ Continue(c, NoRequest)
    /\ UNCHANGED <<refreshVars, activity, facets>>

-----------------------------------------------------------------------------
RefreshStep(r) ==
    \/ Start(r) \/ Skip(r) \/ Begin(r) \/ Load(r) \/ Raises(r) \/ Fail(r)
    \/ Publish(r) \/ Kill(r) \/ Age(r)

ReaderStep(c) ==
    \/ AskDashboard(c) \/ ActivityHit(c) \/ ActivityMiss(c) \/ ReadActivity(c)
    \/ FacetsHit(c) \/ FacetsMiss(c) \/ FirstFacets(c) \/ RestFacets(c) \/ Answer(c)

SnapshotsNext ==
    \/ \E x \in Records : Arrive(x) \/ Leave(x)
    \/ \E r \in Runs : RefreshStep(r) \/ EvictActivity(r)
    \/ \E c \in Readers : ReaderStep(c)
    \/ OpenStore \/ ApiStart

SnapshotsSpec == SnapshotsInit /\ [][SnapshotsNext]_snapshotVars

\* A process that is not killed goes on, hours go by, and the two-hour timer
\* opens the store again and again.
Fairness ==
    /\ \A r \in Runs : WF_snapshotVars(Begin(r) \/ Load(r) \/ Raises(r) \/ Fail(r) \/ Publish(r))
    /\ \A r \in Runs : WF_snapshotVars(Age(r))
    /\ WF_snapshotVars(OpenStore)

FairSpec == SnapshotsSpec /\ Fairness

-----------------------------------------------------------------------------
\* "Versioned query records, and an atomic active-version switch"
\* (docs/analytics_service.md): whatever refreshes overlap or are killed, the
\* active version has all of its records and no other version has any.
ActiveVersionIsWhole ==
    \A r \in Runs : rows[r] = IF r = snapshot THEN loaded[r] ELSE {}

\* "A failed refresh records a failed run but does not replace ... the last
\* completed dashboard": the snapshot belongs to a run recorded as complete,
\* also when the run had been given up as interrupted before.
SnapshotRunIsComplete == snapshot # NoRun => status[snapshot] = "complete"

\* With the scripts' lock no refresh overwrites a snapshot it has not seen, also
\* after one was killed, unless it or the other was started by hand: the
\* dashboard never goes back to older data.
NewerReplacesOlder ==
    [][ snapshot' # snapshot =>
          base[snapshot'] = snapshot \/ snapshot \in Manual \/ snapshot' \in Manual ]_snapshotVars

\* "Snapshot identity invalidates every cached result after a refresh"
\* (api.py): what is cached for the snapshot that is active is its own
\* activity, although it is read in two statements after the key.
ActivityCacheIsCurrent ==
    snapshot # NoRun /\ activity[snapshot].cached =>
        activity[snapshot].value = loaded[snapshot]

\* The facets cached for the active version are its own, although they are
\* collected in several statements: a bad answer is never given twice.
FacetCacheIsCurrent ==
    snapshot # NoRun /\ facets[snapshot].cached =>
        facets[snapshot].value = <<loaded[snapshot], loaded[snapshot]>>

\* Both caches of the API: a publication between the statements of a request
\* never files one version's data under the name of the next.
CachedIsCurrent == ActivityCacheIsCurrent /\ FacetCacheIsCurrent

\* What is served is one whole, completed refresh, from the file and from the
\* caches, whatever refreshes overlap, fail, are killed or given up.
SnapshotIsSound ==
    /\ ActiveVersionIsWhole
    /\ SnapshotRunIsComplete
    /\ CachedIsCurrent

\* "Return facet choices with the immutable snapshot version they describe"
\* (store.py, query_facets_snapshot): the choices in an answer are those of
\* the version in it.
FacetsDescribeVersion ==
    \A c \in Readers : request[c].op = "answer" =>
        /\ request[c].first = loaded[request[c].version]
        /\ request[c].rest = loaded[request[c].version]

\* "Close runs that could not record a terminal state before shutdown"
\* (store.py): no run is reported as running for ever.
RunsAreClosed == \A r \in Runs : status[r] = "running" ~> status[r] # "running"
=============================================================================
