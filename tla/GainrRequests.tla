--------------------------- MODULE GainrRequests ----------------------------
(***************************************************************************)
(* The GAINR compatibility service (tenants/gainr) at work: filter-result  *)
(* requests that read the catalog through the tenant's connection pool,    *)
(* the recent searches they leave behind, the zero-result diagnostics      *)
(* thread, and the end of the service.                                     *)
(*                                                                         *)
(* Every read is a thread of DatabasePool: the steps of the pool are that  *)
(* module's, this one adds the statements and what the caller makes of an  *)
(* error.  Meanwhile ads are switched off, and the ETL job brings the      *)
(* search-ready projection up to date later.                               *)
(*                                                                         *)
(* What else a request does on its way is elsewhere: the capacity slots in *)
(* SearchAdmission, ranking in Retrieval, usage rows in ApiRequests.       *)
(***************************************************************************)
EXTENDS DatabasePool, GainrCatalog

CONSTANTS
    Requests,      \* filter-result, suggestion and filter-data requests
    ThreadsOf,     \* the two pool threads of each request
    DiagThread,    \* the pool thread of the diagnostics worker
    Loads,         \* the workloads to explore
    QueueLimit,    \* _ZERO_RESULT_DIAGNOSTICS_QUEUE_CAPACITY
    RecentLimit,   \* compatibility.recent_limit
    Stop           \* _DIAGNOSTICS_STOP

\* A workload: the requests that search or list and what they ask (searches,
\* lists, asks), what engine searches may return (rankings), threads that use
\* the pool for other purposes (free), readiness requests (checks), how many
\* changes the catalog sees (changes), whether Redis answers (redis), and what
\* is closed in the end (closes: "never", the "service", or only its "pool").
ASSUME LoadsAssumption ==
    \A l \in Loads :
        /\ l.free \subseteq Workers /\ l.checks \subseteq Checkers
        /\ l.searches \subseteq Requests /\ l.searches \cap l.lists = {}
        /\ \A r \in Requests : IsRequest(l.asks[r])
        /\ l.rankings \subseteq Seq(Ads)

\* A request runs on threads of its own, and so does the diagnostics worker.
ASSUME ThreadsAssumption ==
    /\ ThreadsOf \in [Requests -> Workers \X Workers]
    /\ \A r, s \in Requests, i, j \in {1, 2} :
         ThreadsOf[r][i] = ThreadsOf[s][j] => r = s /\ i = j
    /\ DiagThread \in Workers
    /\ \A r \in Requests, i \in {1, 2} : ThreadsOf[r][i] # DiagThread

\* TenantCompatibilityConfig.__post_init__: recent_limit is positive.
ASSUME RecentAssumption == RecentLimit \in Nat \ {0}

\* Neither None nor the stop mark is a request.
ASSUME RequestsAssumption == None \notin Requests /\ Stop \notin Requests

VARIABLES
    load,       \* the workload
    ad,         \* the result table: "on", "off" (status) or "deleted"
    ready,      \* ads that are active in the search-ready table
    changes,    \* how many changes the catalog has seen
    req,        \* the requests
    read,       \* the reads under way on the pool's threads
    slots,      \* _parallel_catalog_slots
    recent,     \* a user's recent searches, in Redis or in memory
    lists,      \* cached suggestions and filter data: <<>> or <<answer>>
    queue,      \* _diagnostics_queue
    diag,       \* the diagnostics worker
    closing,    \* how far close() of the service is
    storeOpen,  \* the analytics store takes events
    events,     \* analytics events submitted for a request
    refused,    \* events that came after the store was closed
    seen,       \* history: ads on sale at some time since a request began
    steady      \* history: the catalog has not changed since then

poolVars == <<idle, created, closed, open, worker, checker, closer, late>>
catalogVars == <<load, ad, ready, changes>>
closeVars == <<closing, storeOpen>>
gainrVars == <<catalogVars, req, read, slots, recent, lists, queue, diag, closeVars,
               events, refused, seen, steady>>
allVars == <<poolVars, gainrVars>>

q(r) == load.asks[r]
OnSale == {a \in ready : ad[a] = "on"}

NoRead == [st |-> "none", todo |-> <<>>, total |-> 0, rows |-> <<>>]
Idle == [pc |-> "idle", mode |-> "none", ranked |-> <<>>, total |-> 0, rows |-> <<>>,
         attempt |-> 0, parallel |-> FALSE, copy |-> <<>>]

GainrInit ==
    /\ Init
    /\ load \in Loads
    /\ ad = [a \in Ads |-> "on"]
    /\ ready = Ads
    /\ changes = 0
    /\ req = [r \in Requests |-> Idle]
    /\ read = [w \in Workers |-> NoRead]
    /\ slots = IF MaxSize \div 2 >= 2 THEN 2 ELSE 1
    /\ recent = <<>>
    /\ lists = [suggestions |-> <<>>, filter_data |-> <<>>]
    /\ queue = <<>>
    /\ diag = [pc |-> "off", job |-> None, attempt |-> 0, blocking |-> {}]
    /\ closing = IF load.closes = "pool" THEN "engine" ELSE "open"
    /\ storeOpen = TRUE
    /\ events = [r \in Requests |-> 0]
    /\ refused = [r \in Requests |-> 0]
    /\ seen = [r \in Requests |-> {}]
    /\ steady = [r \in Requests |-> TRUE]

Active(r) == req[r].pc \notin {"idle", "answered", "failed"}
Step(r, state) == req' = [req EXCEPT ![r] = state]

-----------------------------------------------------------------------------
(* The catalog changes under the requests. *)

Observed(live) ==
    /\ seen' = [r \in Requests |-> IF Active(r) THEN seen[r] \cup live ELSE seen[r]]
    /\ steady' = [r \in Requests |-> steady[r] /\ req[r].pc = "idle"]

MayChange == changes < load.changes

SwitchAd(a, status) ==
    /\ MayChange
    /\ ad[a] # status
    /\ ad' = [ad EXCEPT ![a] = status]
    /\ changes' = changes + 1
    /\ Observed({b \in ready : ad'[b] = "on"})
    /\ UNCHANGED <<poolVars, load, ready, req, read, slots, recent, lists, queue, diag,
                   closeVars, events, refused>>

\* The ETL job rebuilds the projection from the result table.
Etl ==
    /\ MayChange
    /\ ready # {a \in Ads : ad[a] = "on"}
    /\ ready' = {a \in Ads : ad[a] = "on"}
    /\ changes' = changes + 1
    /\ Observed(ready')
    /\ UNCHANGED <<poolVars, load, ad, req, read, slots, recent, lists, queue, diag,
                   closeVars, events, refused>>

-----------------------------------------------------------------------------
(* filter_results up to the first read. *)

\* The two lists are read from the active search-ready rows alone.
SuggestionValues(term) == {Column[a]["subcategory_name"] : a \in ready} \cap Completions[term]
FilterData(city) == {Column[a]["locality_id"] : a \in {b \in ready : Column[b]["city_id"] = city}}

ListKey(r) == IF q(r).term = NoTerm THEN "filter_data" ELSE "suggestions"

Begins(r) ==
    /\ req[r].pc = "idle"
    /\ seen' = [seen EXCEPT ![r] = OnSale]
    /\ steady' = [steady EXCEPT ![r] = TRUE]

\* search_suggestions and filter_data: answered from the cache, or read.
StartList(r) ==
    /\ r \in load.lists
    /\ Begins(r)
    /\ Step(r, IF lists[ListKey(r)] # <<>>
               THEN [Idle EXCEPT !.pc = "answered", !.mode = "list"]
               ELSE [Idle EXCEPT !.pc = "read", !.mode = "list"])
    /\ UNCHANGED <<poolVars, catalogVars, read, slots, recent, lists, queue, diag,
                   closeVars, events, refused>>

\* The cached answer's TTL ends.
ListExpires(key) ==
    /\ lists[key] # <<>>
    /\ lists' = [lists EXCEPT ![key] = <<>>]
    /\ UNCHANGED <<poolVars, catalogVars, req, read, slots, recent, queue, diag,
                   closeVars, events, refused, seen, steady>>

\* The plan chooses between the catalog and the engine.
StartSearch(r) ==
    /\ r \in load.searches
    /\ Begins(r)
    /\ Step(r, IF PlanFor(q(r)).path = "deterministic_filter"
               THEN [Idle EXCEPT !.pc = "read", !.mode = "catalog"]
               ELSE [Idle EXCEPT !.pc = "engine"])
    /\ UNCHANGED <<poolVars, catalogVars, read, slots, recent, lists, queue, diag,
                   closeVars, events, refused>>

\* Complete rows are asked of the engine only for a price order; they show
\* whether an ad is deleted and its type, not whether it is switched off.
EngineRows(r, ranking) ==
    IF Order(q(r)) \in {"price_asc", "price_desc"} THEN ranking ELSE <<>>

InEngineRows(r, ranking) ==
    Among(EngineRows(r, ranking),
          {a \in Ads : ad[a] # "deleted" /\ Column[a]["type"] \in Types(q(r))})

\* run_engine_search, then the choice between hydrate_ranked_page over all
\* ranked ids and hydrate_filtered over one slice of them.  Neither opens a
\* connection for an empty list.
EngineReturns(r, ranking) ==
    LET rows == InEngineRows(r, ranking)
        slice == PageOf(rows, q(r).page)
        byPage == NeedsDatabase(q(r)) \/ EngineRows(r, ranking) = <<>>
        after(ids) == IF ids = <<>> THEN "remember" ELSE "read"
    IN  /\ req[r].pc = "engine"
        /\ Step(r, IF byPage
                   THEN [Idle EXCEPT !.pc = after(ranking), !.mode = "ranked",
                                     !.ranked = ranking]
                   ELSE [Idle EXCEPT !.pc = after(slice), !.mode = "rows",
                                     !.ranked = slice, !.total = Len(rows)])
        /\ UNCHANGED <<poolVars, catalogVars, read, slots, recent, lists, queue, diag,
                       closeVars, events, refused, seen, steady>>

\* engine.plan or the engine search raises.
EngineRaises(r) ==
    /\ req[r].pc = "engine"
    /\ Step(r, [req[r] EXCEPT !.pc = "failing"])
    /\ UNCHANGED <<poolVars, catalogVars, read, slots, recent, lists, queue, diag,
                   closeVars, events, refused, seen, steady>>

-----------------------------------------------------------------------------
(* The reads of GainrDatabaseRepository. *)

Statements(mode) ==
    CASE mode = "catalog" -> <<"total", "rows">>
      [] mode = "ranked"  -> <<"page">>
      [] mode = "rows"    -> <<"ids">>
      [] mode = "list"    -> <<"list">>

Wanting(todo) == [NoRead EXCEPT !.st = "wanted", !.todo = todo]
Thread(r, i) == ThreadsOf[r][i]

\* A catalog read takes two connections while a slot is free, else one.
BeginRead(r) ==
    LET parallel == req[r].mode = "catalog" /\ slots > 0
        todo == Statements(req[r].mode)
    IN  /\ req[r].pc = "read"
        /\ slots' = IF parallel THEN slots - 1 ELSE slots
        /\ read' = IF parallel
                   THEN [read EXCEPT ![Thread(r, 1)] = Wanting(<<"total">>),
                                     ![Thread(r, 2)] = Wanting(<<"rows">>)]
                   ELSE [read EXCEPT ![Thread(r, 1)] = Wanting(todo)]
        /\ Step(r, [req[r] EXCEPT !.pc = "reading", !.attempt = @ + 1, !.parallel = parallel])
        /\ UNCHANGED <<poolVars, catalogVars, recent, lists, queue, diag, closeVars,
                       events, refused, seen, steady>>

\* search_catalog's rows, and the ranked ids that pass _where_clause.
Found(r) ==
    LET f == Indexed(Effective(q(r)))
    IN  {a \in OnSale : /\ Matches(f, q(r).direct, Types(q(r)), a)
                        /\ TextPasses(f, q(r).term, a)}

\* Fault: cards of ranked ids are fetched without the conditions.
FoundRanked_Unchecked(r) == req[r].ranked

FoundRanked(r) ==
    Among(req[r].ranked,
          {a \in OnSale : Matches(Effective(q(r)), q(r).direct, Types(q(r)), a)})

ListRows(r) == SetToSeq(IF ListKey(r) = "filter_data" THEN FilterData(q(r).city)
                        ELSE SuggestionValues(q(r).term))

\* One statement.  The window total comes with the rows of a ranked page; a
\* page beyond the last result is counted by a statement of its own.
Executed(r, s, rd) ==
    LET rest == [rd EXCEPT !.todo = Tail(@)]
    IN  CASE s = "total" -> [rest EXCEPT !.total = Cardinality(Found(r))]
          [] s = "rows" -> [rest EXCEPT !.rows = PageOf(Ordered(Order(q(r)), Found(r)), q(r).page)]
          [] s = "page" -> LET rows == PageOf(FoundRanked(r), q(r).page)
                           IN  IF rows = <<>> /\ q(r).page > 1
                               THEN [rest EXCEPT !.todo = <<"count">>]
                               ELSE [rest EXCEPT !.rows = rows,
                                       !.total = IF rows = <<>> THEN 0 ELSE Len(FoundRanked(r))]
          [] s = "count" -> [rest EXCEPT !.total = Len(FoundRanked(r))]
          [] s = "ids" -> [rest EXCEPT !.rows = FoundRanked(r)]
          [] s = "list" -> [rest EXCEPT !.rows = ListRows(r)]

Query(r, i) ==
    LET w == Thread(r, i)
    IN  /\ worker[w].pc = "use"
        /\ read[w].st = "open"
        /\ read[w].todo # <<>>
        /\ read' = [read EXCEPT ![w] = Executed(r, Head(@.todo), @)]
        /\ UNCHANGED <<poolVars, catalogVars, req, slots, recent, lists, queue, diag,
                       closeVars, events, refused, seen, steady>>

Mark(w, st) == read' = [read EXCEPT ![w].st = st]

\* The pool's steps under a read, and the error its caller sees: 2006 and
\* 2013 ("lost") are retried, a pool timeout or any other error is not.
ReadStep(w) ==
    /\ \/ read[w].st = "wanted" /\ Checkout(w) /\ Mark(w, "open")
       \/ /\ read[w].st = "open"
          /\ \/ /\ Get(w) \/ Miss(w) \/ Reserve(w) \/ Connect(w) \/ CheckPasses(w) \/ CheckFails(w)
                /\ UNCHANGED read
             \/ (ConnectFails(w) \/ WaitTimesOut(w)) /\ Mark(w, "error")
             \/ /\ read[w].todo # <<>>
                /\ BodyRaises(w)
                /\ \E st \in {"lost", "error"} : Mark(w, st)
             \/ read[w].todo = <<>> /\ BodyReturns(w) /\ UNCHANGED read
             \/ read[w].todo = <<>> /\ (BodyRaises(w) \/ PutBack(w)) /\ Mark(w, "done")
    /\ UNCHANGED <<catalogVars, req, slots, recent, lists, queue, diag, closeVars,
                   events, refused, seen, steady>>

\* Both futures have ended; the count's error is raised before the rows'.
Used(r) == IF req[r].parallel THEN {1, 2} ELSE {1}

Outcome(r) ==
    IF read[Thread(r, 1)].st = "done" /\ req[r].parallel
    THEN read[Thread(r, 2)].st
    ELSE read[Thread(r, 1)].st

ReadOver(r) ==
    /\ req[r].pc = "reading"
    /\ \A i \in Used(r) : read[Thread(r, i)].st \in {"done", "lost", "error"}
    /\ read' = [w \in Workers |->
                  IF \E i \in Used(r) : w = Thread(r, i) THEN NoRead ELSE read[w]]
    /\ slots' = IF req[r].parallel THEN slots + 1 ELSE slots

\* retry_transient_mysql_read: the whole method once more.
ReadAgain(r) ==
    /\ Outcome(r) = "lost"
    /\ req[r].attempt = 1
    /\ ReadOver(r)
    /\ Step(r, [req[r] EXCEPT !.pc = "read", !.parallel = FALSE])
    /\ UNCHANGED <<poolVars, catalogVars, recent, lists, queue, diag, closeVars,
                   events, refused, seen, steady>>

ReadRaises(r) ==
    /\ Outcome(r) = "error" \/ (Outcome(r) = "lost" /\ req[r].attempt = 2)
    /\ ReadOver(r)
    /\ Step(r, [Idle EXCEPT !.pc = IF req[r].mode = "list" THEN "failed" ELSE "failing",
                            !.mode = req[r].mode])
    /\ UNCHANGED <<poolVars, catalogVars, recent, lists, queue, diag, closeVars,
                   events, refused, seen, steady>>

\* The result; a list goes to the cache and to the client.
ReadReturns(r) ==
    LET first == read[Thread(r, 1)]
        rows == IF req[r].parallel THEN read[Thread(r, 2)].rows ELSE first.rows
    IN  /\ Outcome(r) = "done"
        /\ ReadOver(r)
        /\ IF req[r].mode = "list"
           THEN /\ lists' = [lists EXCEPT ![ListKey(r)] = <<rows>>]
                /\ Step(r, [Idle EXCEPT !.pc = "answered", !.mode = "list"])
           ELSE /\ UNCHANGED lists
                /\ Step(r, [req[r] EXCEPT !.pc = "remember", !.rows = rows, !.attempt = 0,
                                          !.parallel = FALSE,
                                          !.total = IF req[r].mode = "rows" THEN @ ELSE first.total])
        /\ UNCHANGED <<poolVars, catalogVars, recent, queue, diag, closeVars, events, refused,
                       seen, steady>>
-----------------------------------------------------------------------------
(* remember_search: the newest searches of a user, without repetitions. *)

Remembers(r) == q(r).page = 1 /\ q(r).term # NoTerm

\* The other terms of a list, in their order.
Others(list, term) == Among(list, Range(list) \ {term})

Prepended(list, term) ==
    LET all == <<term>> \o Others(list, term)
    IN  SubSeq(all, 1, Min({RecentLimit, Len(all)}))

\* Without Redis the read and the write are one critical section; with it the
\* list is read under WATCH.  (The copy in memory is not read while Redis
\* answers; the limit of 16 attempts is out of reach of two requests.)
Remember(r) ==
    /\ req[r].pc = "remember"
    /\ IF Remembers(r) /\ load.redis
       THEN Step(r, [req[r] EXCEPT !.pc = "watch", !.copy = recent]) /\ UNCHANGED recent
       ELSE /\ recent' = IF Remembers(r) THEN Prepended(recent, q(r).term) ELSE recent
            /\ Step(r, [req[r] EXCEPT !.pc = "record"])
    /\ UNCHANGED <<poolVars, catalogVars, read, slots, lists, queue, diag, closeVars,
                   events, refused, seen, steady>>

\* Fault: the list is written back without the WATCH.
Exec_NoWatch(r) ==
    /\ req[r].pc = "watch"
    /\ recent' = Prepended(req[r].copy, q(r).term)
    /\ Step(r, [req[r] EXCEPT !.pc = "record", !.copy = <<>>])
    /\ UNCHANGED <<poolVars, catalogVars, read, slots, lists, queue, diag, closeVars,
                   events, refused, seen, steady>>

\* EXEC: fails when the list was written since it was read.
Exec(r) ==
    /\ req[r].pc = "watch"
    /\ IF recent = req[r].copy
       THEN /\ recent' = Prepended(req[r].copy, q(r).term)
            /\ Step(r, [req[r] EXCEPT !.pc = "record", !.copy = <<>>])
       ELSE /\ Step(r, [req[r] EXCEPT !.pc = "remember", !.copy = <<>>])
            /\ UNCHANGED recent
    /\ UNCHANGED <<poolVars, catalogVars, read, slots, lists, queue, diag, closeVars,
                   events, refused, seen, steady>>

-----------------------------------------------------------------------------
(* The analytics event, at once or after the diagnostics. *)

Submit(r) ==
    IF storeOpen
    THEN events' = [events EXCEPT ![r] = @ + 1] /\ UNCHANGED refused
    ELSE refused' = [refused EXCEPT ![r] = @ + 1] /\ UNCHANGED events

Defers(r) == req[r].total = 0 /\ q(r).page = 1

\* Fault: the closed flag is not looked at.
MayEnqueue_WhenClosed == Len(queue) < QueueLimit

MayEnqueue == closing = "open" /\ Len(queue) < QueueLimit

\* _defer_zero_result_analytics holds _diagnostics_lock throughout; it starts
\* the worker on the first job, and records at once when the queue is full.
Respond(r) ==
    /\ req[r].pc = "record"
    /\ IF Defers(r) /\ MayEnqueue
       THEN /\ queue' = Append(queue, r)
            /\ UNCHANGED <<events, refused>>
       ELSE Submit(r) /\ UNCHANGED queue
    /\ diag' = IF Defers(r) /\ closing = "open" /\ diag.pc = "off"
               THEN [diag EXCEPT !.pc = "get"] ELSE diag
    /\ Step(r, [req[r] EXCEPT !.pc = "answered"])
    /\ UNCHANGED <<poolVars, catalogVars, read, slots, recent, lists, closeVars, seen, steady>>

\* company_filter_result: one failure event, then 503 or 500.
Fail(r) ==
    /\ req[r].pc = "failing"
    /\ Submit(r)
    /\ Step(r, [req[r] EXCEPT !.pc = "failed"])
    /\ UNCHANGED <<poolVars, catalogVars, read, slots, recent, lists, queue, diag, closeVars,
                   seen, steady>>

-----------------------------------------------------------------------------
(* _run_zero_result_diagnostics. *)

Diag(state) == diag' = state

DiagTake ==
    /\ diag.pc = "get"
    /\ queue # <<>>
    /\ queue' = Tail(queue)
    /\ Diag(IF Head(queue) = Stop THEN [diag EXCEPT !.pc = "stopped"]
            ELSE [diag EXCEPT !.pc = "ask", !.job = Head(queue), !.attempt = 0])
    /\ UNCHANGED <<poolVars, catalogVars, req, read, slots, recent, lists, closeVars, events,
                   refused, seen, steady>>

\* count_filter_variants: one statement for each variant on one connection.
DiagAsk ==
    /\ diag.pc = "ask"
    /\ read' = [read EXCEPT ![DiagThread] = Wanting(Variants(q(diag.job)))]
    /\ Diag([diag EXCEPT !.pc = "count", !.attempt = @ + 1, !.blocking = {}])
    /\ UNCHANGED <<poolVars, catalogVars, req, slots, recent, lists, queue, closeVars, events,
                   refused, seen, steady>>

\* The ids of an engine search are kept in the job; a catalog search is
\* repeated over the whole catalog, with its text.
Recovers(r, label) ==
    LET v == Relaxed(q(r), label)
        among == IF req[r].mode = "catalog" THEN OnSale ELSE OnSale \cap Range(req[r].ranked)
    IN  \E a \in among : /\ Matches(v.f, v.direct, v.types, a)
                         /\ req[r].mode = "catalog" => TextPasses(v.f, q(r).term, a)

DiagQuery ==
    LET rd == read[DiagThread]
        label == Head(rd.todo)
    IN  /\ worker[DiagThread].pc = "use"
        /\ rd.st = "open"
        /\ rd.todo # <<>>
        /\ read' = [read EXCEPT ![DiagThread].todo = Tail(@)]
        /\ Diag(IF Recovers(diag.job, label) THEN [diag EXCEPT !.blocking = @ \cup {label}]
                ELSE diag)
        /\ UNCHANGED <<poolVars, catalogVars, req, slots, recent, lists, queue, closeVars,
                       events, refused, seen, steady>>

\* The counts, a second attempt, or an event without evidence.
DiagRead ==
    LET st == read[DiagThread].st
    IN  /\ diag.pc = "count"
        /\ st \in {"done", "lost", "error"}
        /\ read' = [read EXCEPT ![DiagThread] = NoRead]
        /\ Diag(CASE st = "done" -> [diag EXCEPT !.pc = "counted"]
                [] st = "lost" /\ diag.attempt = 1 -> [diag EXCEPT !.pc = "ask"]
                [] OTHER -> [diag EXCEPT !.pc = "unknown", !.blocking = {}])
        /\ UNCHANGED <<poolVars, catalogVars, req, slots, recent, lists, queue, closeVars,
                       events, refused, seen, steady>>

DiagRecord ==
    /\ diag.pc \in {"counted", "unknown"}
    /\ Submit(diag.job)
    /\ Diag([diag EXCEPT !.pc = "get", !.job = None, !.blocking = {}])
    /\ UNCHANGED <<poolVars, catalogVars, req, read, slots, recent, lists, queue, closeVars,
                   seen, steady>>

-----------------------------------------------------------------------------
(* ProductSearchService.close: the compatibility service, the store, the engine. *)

\* unfinished_tasks of the queue.
Unfinished == Len(queue) + (IF diag.job # None THEN 1 ELSE 0)

CloseStep(from, to) == closing = from /\ closing' = to

CompatClose ==
    /\ load.closes = "service"
    /\ CloseStep("open", IF diag.pc = "off" THEN "store" ELSE "drain")
    /\ UNCHANGED <<poolVars, catalogVars, req, read, slots, recent, lists, queue, diag,
                   storeOpen, events, refused, seen, steady>>

CompatStop ==
    /\ Unfinished = 0
    /\ CloseStep("drain", "join")
    /\ queue' = Append(queue, Stop)
    /\ UNCHANGED <<poolVars, catalogVars, req, read, slots, recent, lists, diag,
                   storeOpen, events, refused, seen, steady>>

\* The deadline passes before the queue is drained, or before the worker ends.
CompatGivesUp ==
    /\ CloseStep("drain", "store") \/ CloseStep("join", "store")
    /\ UNCHANGED <<poolVars, catalogVars, req, read, slots, recent, lists, queue, diag,
                   storeOpen, events, refused, seen, steady>>

StoreClose ==
    /\ CloseStep("store", "engine")
    /\ storeOpen' = FALSE
    /\ UNCHANGED <<poolVars, catalogVars, req, read, slots, recent, lists, queue, diag,
                   events, refused, seen, steady>>

EngineClose ==
    /\ CloseStep("engine", "done")
    /\ CloseBegin
    /\ UNCHANGED <<catalogVars, req, read, slots, recent, lists, queue, diag, storeOpen,
                   events, refused, seen, steady>>

-----------------------------------------------------------------------------
RequestStep(r) ==
    \/ StartList(r) \/ StartSearch(r) \/ EngineRaises(r)
    \/ \E ranking \in load.rankings : EngineReturns(r, ranking)
    \/ BeginRead(r) \/ ReadAgain(r) \/ ReadRaises(r) \/ ReadReturns(r)
    \/ \E i \in {1, 2} : Query(r, i)
    \/ Remember(r) \/ Exec(r) \/ Respond(r) \/ Fail(r)

DiagStep == DiagTake \/ DiagAsk \/ DiagQuery \/ DiagRead \/ DiagRecord

GainrNext ==
    \/ \E r \in Requests : RequestStep(r)
    \/ \E w \in Workers : ReadStep(w)
    \/ DiagStep
    \/ \E a \in Ads, status \in {"on", "off", "deleted"} : SwitchAd(a, status)
    \/ Etl \/ \E key \in DOMAIN lists : ListExpires(key)
    \/ CompatClose \/ CompatStop \/ CompatGivesUp \/ StoreClose \/ EngineClose
    \/ /\ \/ \E w \in load.free : WorkerStep(w)
          \/ \E k \in load.checks : CheckerStep(k)
          \/ CloseDrain \/ CloseEnds
       /\ UNCHANGED gainrVars

GainrSpec == GainrInit /\ [][GainrNext]_allVars

-----------------------------------------------------------------------------
(* Correctness. *)

Answered == {r \in load.searches : req[r].pc = "answered"}

\* Every card of an answer was on sale, in both tables, at some moment while
\* the request ran, and has what the client asked for: the client's filters
\* win over the text in their group, no location comes from the text, and
\* neither a stale ranking nor the ETL's delay lets another ad through, on
\* the catalog, the ranked and the engine-row path and after a retry
\* (_effective_plan, _indexed_catalog_filters, _where_clause, hydrate_*).
CardsAreEligible ==
    \A r \in Answered : \A a \in Range(req[r].rows) :
        a \in seen[r] /\ Answers(q(r), {}, a)

\* While the catalog rests, pages tile the answer: the page holds exactly the
\* matching ads at its positions, in order, and the total counts them all,
\* also on a page beyond the last one, whatever reads were lost and repeated.
\* (The engine-row path counts ads that are switched off: its total is only
\* an upper bound.)
PageIsExact ==
    \A r \in Answered : steady[r] =>
        LET hits == {a \in OnSale : AnswersCatalog(q(r), {}, a)}
            ranked == Among(req[r].ranked, {a \in OnSale : Answers(q(r), {}, a)})
        IN  CASE req[r].mode = "catalog" ->
                   /\ req[r].rows = PageOf(Ordered(Order(q(r)), hits), q(r).page)
                   /\ req[r].total = Cardinality(hits)
              [] req[r].mode = "ranked" ->
                   /\ req[r].rows = PageOf(ranked, q(r).page)
                   /\ req[r].total = Len(ranked)
              [] req[r].mode = "rows" ->
                   req[r].rows = ranked /\ req[r].total >= Len(ranked)

Pending(r) ==
    Cardinality({i \in 1 .. Len(queue) : queue[i] = r}) + (IF diag.job = r THEN 1 ELSE 0)

\* Every search that is over has left one event, or one that the closed store
\* refused, or one job for the diagnostics worker; and no job is ever behind
\* the stop mark or with a worker that has ended, so that close() loses only
\* what its deadline cuts off (_defer_zero_result_analytics, close).
ZeroResultsRecordedOnce ==
    /\ \A r \in load.searches :
        events[r] + refused[r] + Pending(r) =
            IF req[r].pc \in {"answered", "failed"} THEN 1 ELSE 0
    /\ diag.pc = "stopped" => queue = <<>>
    /\ \A r \in Requests : refused[r] > 0 => ~storeOpen

\* What the diagnostics report is true: a filter is named as blocking exactly
\* when the search without that one filter would find an ad
\* (_zero_result_filter_diagnostics, count_filter_variants).
DiagnosisIsTrue ==
    LET r == diag.job
    IN  diag.pc = "counted" /\ changes = 0 =>
          diag.blocking =
            {g \in Range(Variants(q(r))) : \E a \in OnSale :
               IF req[r].mode = "catalog" THEN AnswersCatalog(q(r), {g}, a)
               ELSE Answers(q(r), {g}, a) /\ a \in Range(req[r].ranked)}

\* Concurrent searches of one user do not push each other out: once a search
\* is past remember_search its term is among the recent ones, which hold no
\* term twice and no more than the limit.
RecentSearchesKept ==
    /\ \A r \in load.searches :
         req[r].pc \in {"record", "answered"} /\ Remembers(r) =>
             \/ q(r).term \in Range(recent)
             \/ Len(recent) = RecentLimit
    /\ Len(recent) <= RecentLimit
    /\ IsInjective(recent)
=============================================================================
