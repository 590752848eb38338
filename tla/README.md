# Querix semantic search: TLA+ specifications

TLA+ models of the stateful parts of the Querix semantic-search service, model
checked with TLC, with TLAPS proofs of the results that matter most. Every
module is a translation of the Python code under `src/`; `PROJECT.json` maps
each definition to the lines it models, each property to a plausible bug that
breaks it, and each hazard of the code to the properties that cover it.

## 1. The system

Querix serves product search for several tenants ("companies") from one API
process, keeps each tenant's indexes up to date with an ingestion process that
works beside the serving index, records every search for analytics, and serves
dashboards over those records from a second API.

| Part | State it keeps | Operations | Who shares it |
|---|---|---|---|
| index generations (`storage/index_generations.py`, `ingestion/generations.py`, `ingestion/service.py`, `api/tenants.py`) | two slots (vector table + BM25 file) per tenant, a JSON manifest naming the active one, a consistency gate per slot, a progress file | seed, ingest, validate, record, promote, activate, roll back, reload, restore | ingestion process, API admin operations, searches; no common lock |
| tenant service pool (`api/tenants.py`) | LRU map of search services, list of retired ones, admin operation in progress | get, evict, swap, retire, close, readiness, shutdown | request threads, admin requests |
| search admission (`api/service.py`, GAINR's `filter_results`) | capacity slots, in-flight searches by key, monitor counters | admit, coalesce, wait, search, signal, release | request threads |
| database pool (`storage/database.py`) | idle queue, number of connections created, closed flag | check out, return, discard, validate, close | request threads, readiness, shutdown |
| budgets (`core/rate_limit.py`, `core/request_limit.py`, `storage/redis.py`) | token buckets in Redis and in each process, rolling windows | allow | request threads of all processes |
| search analytics spool (`storage/search_analytics_spool.py`, `storage/search_analytics.py`) | bounded queue per store, SQLite spool, MySQL rows, counters | submit, write, flush, close, deliver | request threads, worker, uploaders started by a timer or by hand |
| analytics snapshots (`analytics_service/store.py`, `service.py`, `refresh.py`, `api.py`) | snapshot row, versioned query records, refresh runs, two caches of the API | begin, load, publish, fail, reconcile; dashboard, facets, pages | refresh processes, API threads |
| portal authentication (`analytics_service/auth.py`, `users.py`) | users with failure counters and locks, sessions | log in, resolve, log out, create, set password, disable, prune | API threads, command line |
| API requests (`api/__init__.py`, `api/contracts.py`, `storage/usage.py`) | LRU + TTL map of searches behind cursors (one for all tenants), usage ledger | authenticate, admit, search, page, book, record, probe | request threads, readiness |
| search pipeline (`search/engine.py`, `engine_support.py`) | result cache, plan caches in the engine and in Redis, speculative embedding | plan, embed, retrieve, rank, store, close | request threads, a timer, one executor per engine, the engine before and after a promotion |
| retrieval and ranking (`search/retrieval.py`, `ranking.py`, `bm25.py`, `storage/pgvector.py`) | none of its own; reads the index and the tenant's database at several moments | filter, query, fuse, hydrate, rerank, fill, sort | searches, in-place ingestion, the tenant |
| model providers and rerankers (`search/reranker.py`, `providers/`) | cooldowns, request windows, usage of the last call | score, plan, fall back | request threads of all processes |
| rows of the indexes (`ingestion/service.py`, `cli/ingest.py`) | vectors with hashes and revisions, BM25 rows, progress file | classify, embed, update, delete, reconcile, clear, migrate | ingestion process, operator, tenant |
| GAINR (`tenants/gainr/`) | recent searches, cached lists, diagnostics queue | filter-result, suggestions, lists, diagnose, close | request threads, diagnostics thread, ETL job, tenant |
| portal API (`analytics_service/api.py`) | two cookies in each browser | log in, pages, log out, API keys | tabs, command line |
| lifecycle, registry, settings, admin logs | startup and shutdown order, configuration | | |

`PROJECT.json` lists every part with its status, also those that are not
modelled and why.

How the parts touch: a search takes a service from the pool, passes admission,
checks the gate of the slot its service was built on, borrows database
connections, asks the budgets before it calls a provider, and submits an
analytics event on its way out. Admin operations swap services in the pool and
thereby the slot that is served; ingestion writes the slot that is not. The
uploader moves analytics events to the tenant's database, from which refreshes
build the snapshots the portals show.

What is hard here: the parties share files and tables without a common lock
(manifest, slots, spool, snapshot file); state is read, then used after a lock
was released (gate, `_closed`, active version, clock readings); processes are
killed between steps; callers give up on requests that go on; counters and
pools have to balance on every error path; and deliveries, closes and answers
must eventually happen.

## 2. Modules

| Module | Models | Correctness it states |
|---|---|---|
| `IndexGenerations`, `IndexGenerations_proofs` | slots, manifest, gates, the shadow run, activation, rollback, reload, one search | the manifest always names exactly one active slot; damage is always gated; the route is the manifest's; a search sees one complete scan while no run takes its slot; what is routed to was validated; every run ends |
| `ServicePool`, `ServicePool_proofs` | `TenantServicePool` | no service is closed while a request uses it; each is in one place; the bound is restored; retired ones are closed |
| `SearchAdmission`, `SearchAdmission_proofs` | `run_engine_search`, `_start_search`, `filter_results` | slots bound the searches; identical searches follow one; nobody waits for a search that does not run, or in a circle; counters balance; every request is answered |
| `DatabasePool` | `DatabaseConnectionPool` | each connection has one holder; the counter is exact; no put blocks; close drains |
| `TokenBucket` | both token buckets, the Redis script and the fallback | the Redis bucket keeps its budget |
| `AnalyticsSpool`, `AnalyticsSpool_proofs` | stores, worker, spool file, uploaders | every accepted event is accounted for; implements `AnalyticsDelivery` |
| `AnalyticsDelivery` | (abstract) what delivery promises | an event in the file becomes one row, and is pending until then |
| `AnalyticsSnapshots` | refresh runs, publication, the API's readers and caches | the active version is whole; caches hold the active version's own data; runs are closed |
| `QueryPages` | extends `AnalyticsSnapshots` with a client that follows cursors | every record that stays is shown exactly once |
| `PortalSessions` | users and sessions, the command line, synchronised credentials | live sessions belong to active accounts with the current password; absolute limits hold; guessing is throttled; prune takes only what is over |
| `PortalApi`, `PortalApi_proofs` | extends `PortalSessions` with the portal routes, browsers with two cookies, API keys | a company's figures go only to its own sessions and key, internal ones only to administrators, in whatever order replies arrive |
| `ProviderFailover`, `ProviderFailover_proofs` | `structured_chat`, the three rerankers, `RequestWindowLimiter` | no window exceeds its limit; a cooldown leaks at most one call per thread; reported usage is what was billed |
| `IngestionRows` | what one ingestion run does row by row, the operator's commands | a full run leaves exactly what it scanned; torn rows are gated |
| `SearchPipeline` | one search through the caches, the planner's routes, the speculative embedding | nothing degraded or of another engine is reused; every search ends |
| `Retrieval` | `retrieve`, `search`, `_filtered_search`, `rank`, BM25, pgvector queries | every path filters alike; the ranking is kept; a short page has left nothing out; "equal" in shadow mode is safe |
| `ApiRequests`, `ApiRequests_proofs` | extends `TokenBucket` with the HTTP routes of all tenants, the shared session store, usage ledger, readiness | recent cursors survive, also replaced services, and stay with their tenant; an answer is booked and recorded once |
| `GainrCatalog` | which ads a filter-result request asks for: merge with the plan, WHERE clause, relaxed variants (operators only) | |
| `GainrRequests`, `GainrRequests_proofs` | extends `DatabasePool` and `GainrCatalog`: requests, hydration, retries, recent searches, diagnostics, close | cards are on sale and answer the request; pages tile; one event per search; diagnoses are true; recent searches are kept |
| `MCApiRequests`, `MCGainrRequests`, `MCIngestionRows`, `MCPortalApi`, `MCQueryPages`, `MCRanking` (of `Retrieval` and `ProviderFailover`) | instances whose constants, scenes or symmetry need a definition; the other modules are instantiated by their `.cfg` alone | |

Compositions: `ApiRequests` runs on `TokenBucket`, `GainrRequests` on
`DatabasePool`, `PortalApi` on `PortalSessions`, `QueryPages` on
`AnalyticsSnapshots`; the extending module takes the extended module's steps as
they are and adds the callers'. The runs check the extended modules' invariants
there, under the calls the program really makes; that `ApiRequests` and
`GainrRequests` use what they run on in no other way is proved (section 5). The
proofs about `TokenBucket`, `DatabasePool` and `PortalSessions` are in the
`_proofs` module of the composition. `AnalyticsDelivery` is the
abstract specification that `AnalyticsSpool` implements.

A proof module may hold the theorems of a second model that touches the first:
those about `IngestionRows` (what is in a slot) are in
`IndexGenerations_proofs`, about `SearchPipeline` (what an admitted search does)
in `SearchAdmission_proofs`, about `AnalyticsSnapshots` and `QueryPages` (what
the portals show) in `PortalApi_proofs`, about `Retrieval` (what the rerankers
score) in `ProviderFailover_proofs`. Such models share a name space, which is why
their specifications are called `RowsSpec`, `PipelineSpec`, `SnapshotsSpec`,
`PageSpec` and `RetrievalSpec`.

Correspondence, where it is not literal:

* **One step per critical section.** A statement under a lock, an atomic file
  replacement or a transaction is one step; what the code does between them is
  separate steps. `TenantServicePool.get` builds under `_lock`, so it is one
  step; `submit` tests `_closed` under the lock and puts after it, so it is two.
* **Files and tables are their content.** An index slot holds the number of the
  run whose scan it contains, `Partial` while it mixes two, `Absent` before it
  exists. Run n names its generation n. In `IngestionRows` a content hash is the
  document itself, and a row is its embedding text and its BM25 text.
* **Time** is a counter (`TokenBucket`, `PortalSessions`, `ProviderFailover`), a
  countdown (`ServicePool`) or a flag "old enough" (`AnalyticsSnapshots`). In
  `SearchPipeline` an entry may be found expired whenever it is looked up.
* **Failures** are actions of their own: each call that can raise, each process
  that can be killed, each answer that can be lost.
* **Scores** in `Retrieval` are integers from a small set, chosen anew for each
  list; fusion and the bands compute with them as the code does (a band of 5 %
  is a comparison of multiples).
* `SearchAdmission`: the two kinds of requests never share a coalescing key,
  because their keyword arguments differ; the key is (kind, query).
* `PortalSessions`: a password is the number of times it was set.
* `GainrCatalog`: filters are partial functions from column names to sets of
  values; a `WHERE` clause is the set of ads it selects.

Operators named `X_Something` above a definition `X`, or marked `fault:`, are
faulty variants, one per property; they are used only to show that the property
notices the fault.

## 3. Runs

One run asks one question of one part of the system; its safety invariants that
belong together are one conjunction of named parts.

| Run | Instance | What it checks |
|---|---|---|
| `MCIndexGenerations` | 3 runs, admin operations and a search in any order, fair | `IndexInv`: the manifest is well formed, damage is gated, the route follows the manifest; searches see one scan; what is routed to was validated; every run ends |
| `MCServingIsReadOnly` | 2 runs, the same module | expected to be violated: the active generation is read-only to ingestion (section 4) |
| `MCServicePool` | 3 tenants, bound 1, 2 requests, 3 builds, fair | `PoolIsConsistent`: no close in use, every service in one place; a miss restores the bound; retired services are closed |
| `MCSearchAdmission` | 3 requests of both kinds, 2 query texts, 2 slots, fair | `AdmissionInv`: slots, Events and counters are exact; no circular wait; every request is answered |
| `MCAnalyticsSpool` | 2 events, 1 store with a queue of 1, 2 uploaders, fair | `SpoolInv`: accepted events and counters are accounted for; refinement of `AnalyticsDelivery`; what is spooled is delivered |
| `MCQueryPages` | two scenes: a client on pages of 1 over 3 records beside a scripted and a manual run; a reader filling caches beside two scripted runs; fair | `SnapshotIsSound`: the active version is whole, its run complete, the caches its own; the default cursor is stable; no refresh overwrites a snapshot it has not seen; runs are closed |
| `MCPortalApi` | two modes: the store with 1 user, 2 sessions, 2 callers, time to 3; a browser and API keys with a user and an administrator at one moment | `AccessIsScoped`; `SessionInv`: live sessions are current and bounded, guessing is throttled; prune takes only what is over |
| `MCIngestionRows` | 2 rows, batches of 1, 2 runs with all options, 2 edits, 2 model revisions, replaced at any moment | `FullRunIsExact`; `RowsAgree`: embeddings are of their documents and revisions, torn rows are gated until a completed run removes the gate |
| `MCSearchPipeline` | 2 identical searches, 2 engines, plan cache of 1, restarts of the process, one in-place ingestion, fair | `ReuseIsSound`; every search ends |
| `MCRanking` | half of it: 778 plans and configurations over 5 products, one change meanwhile; the other half: 2 threads, rerankers voyage and openrouter (one more without a key), 2 query models, windows of 1 and 2, time to 2, three workloads | every path filters; `RankingIsKept`; short pages are exhausted; shadow "equal" is safe; `ProviderInv`: window budgets, one shared reranker, leaks of a cooldown; usage is what was billed |
| `MCApiRequests` | 2 callers, 2 companies, 4 requests, 2 sessions, capacity 1, time to 2 | the Redis bucket keeps its budget; `CursorsAreKept`: recent cursors survive replaced services and other tenants' searches, pages stay with their company; `AnsweredIsAccountedFor`: ledger rows and analytics event of each answer |
| `MCGainrRequests` | 4 ads, 2 requests, pool of 2, queue of 1; workloads for the catalog, ranked and engine-row paths, empty answers, two searches of one user, lists, the pool alone with 3 threads and 2 validations | `PoolIsExact`; cards are eligible; pages are exact; one event per search; diagnoses are true; recent searches are kept |

Why the bounds are enough to meet the interesting cases: two runs are the least
with which a slot is reused, three with which a rollback target has been
overwritten; a pool bound of 1 evicts on every miss, and three tenants let a
swap overfill the pool before a miss; two slots with three requests give a
waiter behind a full semaphore and one behind an identical search; two
uploaders and a batch of 1 let deliveries overlap and stop in the middle; two
rows in batches of one give a torn row beside a whole one, and two runs a
resumed one; two searches of one query let one store what the other reads
across a promotion; five products in two main and three sub-categories, one
without a fee, fill all three parts of a tail; four requests over two session
places evict; the times are chosen so that a lock, an idle timeout, a TTL, a
window or a grace period runs out within the explored time. One store is enough
for the spool because stores meet only in the file; the proof covers any number.

`MCPortalApi` explores its two modes with a state constraint (`Explored`), and
`MCQueryPages` its two scenes with a conjunct on the next-state relation: the
product of both questions would be out of reach, and neither needs the other's
actors. `MCRanking` explores two modules that share no variable, one after the
other: the variable `half`, chosen in the initial state, says which of them steps.
`MCGainrRequests` starts in one of its workloads, `ProviderFailover` in one of its
own. In `MCQueryPages` the conjunct stops no step that a fairness
condition asks for: it only keeps runs from starting and readers idle.

Symmetry is used for interchangeable threads, connections, tokens, texts and
revisions in `MCGainrRequests`, `MCPortalApi`, `MCApiRequests`, `MCRanking` and
`MCIngestionRows`; none of them checks liveness.

`MCApiRequests` has a constraint, `Explored`: behaviours in which the other tenant
takes part are followed only while the limiter reaches Redis. What the fallback
bucket decides does not touch the session store, and the first tenant's requests
are followed with both.

`MCIndexGenerations` keeps nothing apart: the code has no lock that a run and the
API's operations share, so each of them may begin, end, fail or die between any
two steps of the others. What its properties except is told by two history
variables and not by a condition on the steps: `writer`, the last run that opened
a slot's gate, and `outrun`, which says that a run's record has put back an
active slot the API had changed since that run read the manifest.

`CHECK_DEADLOCK FALSE` is set where the instance really ends: all runs,
requests or time of the bound are used up.

### Fairness

* `IndexGenerations`: a process that is not killed takes its next step, and the
  API goes on with an operation it has begun. Kills, operators and timers are
  not assumed.
* `ServicePool`: requests proceed, time passes, and requests keep coming;
  retired services are only collected by `get`, so without traffic none closes.
* `SearchAdmission`: threads run. No refusal or timeout is assumed, so the
  property does not rest on them.
* `AnalyticsSpool`: the timer keeps starting deliveries (weak), and a step that
  fails now and then succeeds when tried again and again (strong): MySQL and
  the file are not broken for good.
* `AnalyticsSnapshots`: hours pass and the two-hour timer opens the store; a
  refresh that is not killed goes on.
* `SearchPipeline`: the thread of a search and the executor's worker run;
  failures, promotions and closes are not assumed, and the timer may be
  cancelled.

## 4. Statements the code does not keep

These statements of documents, comments or a careful reader do not hold. Those
with a name are definitions; TLC refutes each when it is put into the module's
configuration in place of the properties there.

* `IndexGenerations!ServedIsItsGeneration`: a run that fails validation has
  overwritten the standby slot, which stays recorded as the previous
  generation, and a rollback then serves it under the old name.
* `IndexGenerations!ServingIsReadOnly` (`docs/architecture.md:224`: "The active
  generation remains read-only to ingestion and continues serving."): the run
  `MCServingIsReadOnly` shows an activation that goes on after its request was
  given up, and promotes the slot after the next run has resolved it as its
  candidate; that run then gates and writes the serving slot. A rollback during a
  run does the same.
* `AnalyticsSpool!CloseLeavesNothing`: an event accepted just before close is
  put behind the stop mark and is lost without being counted.
* `ServicePool!PoolIsBounded`: admin operations insert services without
  evicting. (`MissRestoresBound` is what holds.)
* `TokenBucket!MemoryKeepsBudget`: two threads that reach the in-process bucket
  in the other order than they read the clock refill it twice.
* `DatabasePool!ValidationBlocksNobody`: a validation empties the pool while it
  pings.
* `AnalyticsSnapshots!FacetsDescribeVersion`: a publication between two
  statements empties the facets of an answer that carries the old version.
* `PortalSessions!LockNeedsAttempts`: once locked, every further wrong password
  locks again.
* `QueryPages!PagesAreStable` with `SortBy` another field: there the cursor is
  an offset, and a refresh between two pages repeats or skips records.

What else the models say of the code, met while they were written; the models
contain it, and the properties are stated so that they hold with it.

* Ingestion: a row that keeps its embedding text and loses its BM25 text keeps
  its former BM25 row; an operator's `--delete` and `--clear` leave the BM25
  rows alone and set no gate; rows from before revisions were recorded are
  adopted without a new embedding. A run that completes removes the state file
  over rows it never looked at, so that a limited run after a killed one has a
  torn row served (`unsettled` in `GateCoversTornRows`). When the model is replaced
  while a run goes on, the rows it embeds from then on are recorded under the
  revision read at its start (`drifted`); no later run sees that they differ if
  the old revision comes back.
* Generations: a search admitted before a run opens its slot's gate reads on while
  the run writes. A rollback does not look again at the generation it read at its
  start, so it may route requests to a slot that a run has rewritten since.
  Validation looks at the slot that is inactive at that moment
  (`generations.py:107-108`): with a rollback before it and another after it, the
  slot that is recorded is not the one it looked at. A run's record replaces the whole manifest, so it can put back an active slot that an
  activation or a rollback has changed meanwhile: requests and manifest are then
  on different slots until the next reload or restart (`outrun`).
* Retrieval: with pgvector, `VECTOR_POST_FILTER_OVERFETCH_FACTOR` changes
  nothing (`retrieval.py:113`, `147-153`); an empty list as a filter is refused
  by `metadata_matches` and skipped by the two index queries; a price filter is
  checked against the fee in the index, not the hydrated one.
* Search pipeline: the key of a result is made anew when it is stored
  (`_cache_search_result`), so a result that was read before an in-place ingestion
  changed the BM25 rows may be filed, and found, under the revision after it.
* Reranker: the minute budget is charged before the day budget refuses, so a
  call that is never made uses up the minute.
* API: the store of sessions is one for all tenants, so a busy tenant's searches
  push out another's cursors; a company that presents a foreign cursor is refused
  only after the session was moved to the end (`service.py:646-648`), or deleted
  when it had expired; the ledger row of a failed commit is booked by the next
  commit or dropped by a readiness rollback.
* Database pool: a waiter is not woken when a discarded connection frees its
  slot (`database.py:131`); it waits for the next return or its timeout.
* GAINR: a page and its total are two reads and may disagree; the total of the
  engine-row path counts ads that are switched off, and its page may be short;
  an inferred maximum and a client's minimum can make an empty range; relaxing
  the last categorical filter adds the text condition; lists read only the
  search-ready table, and an older read can overwrite a newer cached list;
  after 16 conflicts on the recent searches the last write is unguarded.
* Portal: a late reply of a page can bring back the cookie from before a logout;
  the session it names is revoked by then.

## 5. Proofs

All proofs are for every value of the constants, under the named `ASSUME`s of
the modules. Every safety invariant and every action property that a passing
run checks is proved; what stays with TLC is at the end of this section.

* **IndexGenerations.** All of it for any number of runs and with no assumption
  on how runs, admin operations and searches overlap. `ManifestMarksActive`,
  `DamageIsGated`: the manifest updates are read-then-replace, so the invariant
  has to speak of the copies that are under way: each is a well-formed manifest
  that some step could have published, which is why lost updates still leave
  exactly one active slot. For the gate, the invariant ties each point of the
  ingestion's program to what may be half written there. `IndexIsCovered` (the
  whole of `IndexInv`) adds the route: every step that changes the active slot
  swaps the route with it, but for a record that puts an older one back
  (`RouteInv`). `SearchIsConsistent` (`SearchSeesOneScan`) and the action property
  `PromotedWasValidated` (`PromotesWhatWasValidated`) rest on what a generation's
  name is worth: wherever a name is kept (in the manifest, in a copy of it, in an
  activation request, in the operation under way), it is no younger than the last
  run that opened the slot's gate, and if it is that run's, the slot holds exactly
  that run's scan without a gate (`NamesAreTrue`, `WriterProgress`). A validated
  slot therefore stays what it was until a later run opens the gate, and whoever
  was let in before reads one scan until then (`SearchInv`). `SlotsFilled` says why
  no copy of the manifest can forget a slot that is served. There is one lemma per
  part of the invariant.
* **IngestionRows.** `RowsHold` (`RowsAgree`) and `FullRunHolds`
  (`FullRunIsExact`), for any rows, texts, revisions, batch size, edits and kills.
  The invariant follows a row through a run: in a flush it is right after its
  metadata update or still to be embedded (`BatchRows`); when it has left the
  batch it is in both indexes as it was scanned (`FlushedRows`); the gate is up
  before anything is deleted, and without it a flush finds only rows that are
  right already (`GateIsUp`). Only a row that somebody else wrote while the run
  was on is excused (`Excused`). A torn row is in the hands of the running process
  (`AtWork`), or was when a run stopped (`stopped`), in which case the gate is up;
  it becomes `unsettled` only when a run that was not over it completes. An
  embedding is by the revision it is recorded with, or the model was replaced
  since its run began (`drifted`).
* **ServicePool.** `PoolHolds` (`PoolIsConsistent`): the recency order lists each
  loaded tenant once, and every service is loaded, retired or closed. That no
  service is closed in use rests on the grace period (`HandOff < Grace`): the
  service of a request is routed, or was retired after the request got it, so
  that its grace outlasts the hand-off. `MissesRestoreBound` is an action
  property: the evicted services are the head of the order, so what is left is
  within the bound.
* **SearchAdmission.** `AdmissionHolds` (`AdmissionInv`), `WaitsDoNotCircle`
  (`NoCircularWait`), for a finite set of requests. The invariant adds which way
  each kind of request goes and that an owner's Event stays registered until the
  owner withdraws it. The counters are cardinalities of the sets of requests at
  certain points, and one step changes such a set by one request.
* **SearchPipeline.** `ReuseHolds` (`ReuseIsSound`), for any searches, engines and
  cache sizes. An entry is stored under a key that names the catalogue or the
  index it was made from, so whatever is found under a key of this engine was
  made for it, and was complete when it was stored (`GoodPlans`, `GoodResults`).
  The searches between plan and store carry the same fact about what they have
  in hand.
* **TokenBucket and ApiRequests.** `RedisBudgetKept`: charges plus what is left
  never exceed the capacity plus the time of the last update. Out-of-order
  readings never set the key back, and a key that expired was full by then,
  because `Ttl >= Capacity + Delay`. `Delay` is the socket timeout (1 s) against
  a TTL of at least 60 s. `ApiUsesBucket` (`ApiSpec => Spec`) carries the budget
  over to the API's requests. `AnswersHold` (`AnsweredIsAccountedFor`): the
  invariant follows a search's rows from the caller that has still to write them
  through the shared connection's open transaction to the table. A search that
  is under way has nothing in that transaction, so neither the commit of another
  request nor the rollback of the readiness probe can touch what a page was
  answered for; a failed one leaves at most the row it had to write next.
  `CursorsSurvive` (`CursorsAreKept`): the store is in the order of use, so the
  distance of a session from its newer end is at most the number of sessions used
  since, and only a session as far back as the store is large is evicted; a
  service that is replaced leaves the store as it is. A session's company is
  written once, by the step that answers the search, before any page of it.
* **AnalyticsSpool.** `SpoolDeliversOnce`: the spool implements
  `AnalyticsDelivery` under the mapping "pending = in the file and not yet a
  row". The invariant: row ids are unique and events are in the file once; a
  row that an uploader will delete is committed; an event that is not spooled
  yet is in one queue or worker and nowhere else. `SpoolHolds` (`SpoolInv`) adds
  the books of the stores: an event is queued ahead of the stop mark unless
  close overtook its submit, the worker stops only with its store closed, and
  the sets behind the counters are finite although the set of events need not be.
* **AnalyticsSnapshots.** `ActiveVersionWhole`, `CachesAreCurrent` and
  `SnapshotSound` (the whole of `SnapshotIsSound`), whichever refreshes are
  manual and overlap others: a version that was replaced never becomes active
  again (its run has ended), so a request whose key is still active has seen no
  publication since it read the key, and what it caches is that version's.
  `OrderHolds` (`NewerReplacesOlder`, an action property): one scheduled run is
  at work at a time, and one that is ready to publish has either seen the active
  snapshot or a manual run has replaced it.
* **QueryPages.** `PagesHold` (`PagesAreStable`), for any finite set of records and
  any refreshes between the pages: by the default order, of the records that
  stay, those before the cursor were shown once and those behind it not at all.
  The other sort fields use offsets and do not have the property (section 4).
* **PortalSessions and PortalApi.** `SessionsHold` (`SessionInv`) for any order
  in which clock readings are used; `PruneIsSafe` (`PruneKeepsUsable`);
  `PortalsAreScoped` (`AccessIsScoped`), which needs that a token, once issued,
  stays with its portal, also in a reply that is still under way.
* **DatabasePool and GainrRequests.** `PoolHolds` and `GainrPoolHolds`
  (`PoolIsExact`): the invariant says at which points of `connection()` and
  `validate()` a party has a connection or a reservation in hand; the two kinds
  of party then differ only in how they reach the same effect on the pool, and
  the counter follows from the effects. `GainrUsesPool` (`GainrSpec => Spec`):
  the GAINR service does nothing else with its pool. `RecordsHold`
  (`ZeroResultsRecordedOnce`): events, refused events, queued jobs and the job
  in hand of a search add up to one once it is over; the stop mark is put into
  an empty queue and nothing is put after it. `RecentHolds`
  (`RecentSearchesKept`): the list repeats nothing, and what is past
  `remember_search` is in it or the list is full, also when a write lost the race
  and is tried again.
* **Answers of GAINR.** `CardsHold` (`CardsAreEligible`), `PageHolds`
  (`PageIsExact`) and `DiagnosisHolds` (`DiagnosisIsTrue`), for every catalog,
  every plan of the planner, every validated request, and any number of status
  changes, ETL runs, lost connections and repeated reads. Two parts. The first
  has no states: what the `WHERE` clause tests of a row, after client filters,
  inferred filters and the index names were merged, is true exactly when the row
  has what the request asks for, group by group (`PlainAsks`, `IndexedAsks`,
  `RelaxedAsks`). The second is the invariant (`AnswerInv`): what each thread's
  finished statements have found is right now if the catalog has rested since
  the request began, and was on sale at some moment since then otherwise. For the
  diagnostics (`DiagInv`), the labels already found to block and those that are
  still to be counted make up all the labels without whose filter an ad is found;
  the request of the job is over, so its mode and ranking no longer change.
* **ProviderFailover.** `FailoverHolds` (`ProviderInv`) and `UsageHolds`
  (`UsageIsWhatWasBilled`), for any threads, orders of providers, limits, windows
  and cooldowns. A limiter's deque is the end of everything it ever admitted, and
  what has been dropped from it has left the window (`DequesAreSuffixes`), so the
  budget holds although threads read the clock before they take the lock. A
  thread that is past the test of a cooldown has not slipped through it yet, and
  the thread whose failure set it is past no test (`FewSlip`). `compute_score` clears the usage of
  the thread before a call is made (`UsageIsFresh`).
* **Retrieval.** `FiltersHold` (`EveryPathFilters`), `ShadowHolds`
  (`ShadowEqualIsSafe`), `RankingHolds` (`RankingIsKept`), `ExhaustHolds`
  (`ShortPageIsExhausted`), for any finite catalogue and every request. Whatever a
  stage hands to the next has passed the filters (`PathsInv`); a sorted list is
  the one order of its elements by an integer key, which gives each place exactly
  one element, so that selecting from it keeps the order; the tail of a page is
  full or has everything that passed (`CatalogueInv`, `ExhaustInv`).

The inductive invariants were checked by TLC on small instances before they were
proved.

Sorting, selecting and counting in the models are functions, or `CHOOSE` an
ordering or a bijection whose existence is proved; facts about recursive functions
are proved by least counterexample, or by counting the places of a list. No proof
uses induction over an operator.

Only model-checked, because liveness and `ENABLED` are out of the prover's reach:
`EveryRunEnds`, `RetiredIsClosed`, `EveryRequestAnswered`, `SpooledIsDelivered`,
`RunsAreClosed`, `EverySearchEnds`. Their runs are small instances under the
fairness of section 3; the safety part they rest on (who holds what while an
operation is under way) is proved for every instance.

## 6. Not modelled, and assumptions

* `IndexGenerations`: ingestion from the command line straight into the active
  slot is in `IngestionRows`, `Retrieval` and `SearchPipeline` instead; a
  missing manifest is read as the default one, which is also what is written.
* `IngestionRows` leaves out how a document's text is put together and the cut
  of stored metadata at 1000 characters; `rebuild_mysql_bm25_index` is called by
  nothing under `src/`.
* `ServicePool` assumes that a request starts to use a service sooner after
  `get` than the grace period (300 s) ends.
* The proofs assume of the constants only what the named `ASSUME`s say: sizes and
  times are natural numbers, the parties of a pool are finitely many, numbers of
  products and model calls are natural numbers (`CountsAssumption`), a workload's
  threads and searches are the instance's own and no request is both a search and
  a list (`LoadsAssumption`). TLC evaluates them on every run.
* Assumptions that say more than a size:
  * `IngestionRows`: what stands for an absent row is no row, text or revision
    (`GoneAssumption`).
  * `ProviderFailover`: orders of providers are finite lists and there is a query
    model (`OrdersAssumption`).
  * `Retrieval`: products and levels are finite, windows are natural numbers, an
    index lists a product once, the sort is one of the three
    (`RetrievalAssumption`, `WindowAssumption`, `ValueAssumption`,
    `DataAssumption`).
  * `QueryPages`: there are finitely many records (`RecordAssumption`).
  * `GainrCatalog`: fees are natural numbers and an ad is of one of two types
    (`AdsAssumption`); a category name that has an id is on exactly the ads with
    that id (`CategoryAssumption`, which is why the code swaps only names with a
    single id); the planner infers only names, durations and the owner's gender
    (`PlansAssumption`, `resolve_query_filters`).
  * `GainrRequests`: requests are validated (`IsRequest`, in `LoadsAssumption`),
    and each runs on threads of its own (`ThreadsAssumption`); `RecentLimit` is at
    least one (`RecentAssumption`).
* `AnalyticsSpool` models the spool mode; the mode that writes to MySQL from the
  queue directly is left out.
* `SearchPipeline` does not say which plan a text gets: the planner's rules and
  tables (`planner_catalog.py`, `planner_rules.py`) are word lists and text
  matching without state. Prompts, schemas and parsing of provider answers are
  left out of `ProviderFailover`; an answer is good, useless, rate limited or an
  error.
* `ApiRequests` leaves out request validation and the texts of responses.
* `GainrCatalog` models the deployed table layout
  (`serves_cards_from_search_ready`), not the older one.
* `PortalSessions` leaves out schema migrations and audit events.
* Pure data work (metrics, SQL text, card and dashboard layout, settings) has no
  state; `PROJECT.json` lists each part with the reason.

## 7. Plan

Left to model: the immediate mode of search analytics; startup and warm-up
(`api/lifecycle.py`) composed with `ServicePool`; isolation of tenants in the
registry.

Proofs: no safety property of a run is left. Next would be the composition of
`Retrieval` and `GainrRequests`: that what the engine ranks is what `EngineRows`
offers.
