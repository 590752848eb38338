--------------------------- MODULE SearchPipeline ---------------------------
(***************************************************************************)
(* One search through ProductSearchEngine (search/engine.py,               *)
(* search/engine_support.py, search/ranking.py): the shared result cache,  *)
(* the plan caches (an LRU in the engine, then Redis), the routes of the   *)
(* planner, the speculative embedding that a timer launches on a           *)
(* one-worker executor, retrieval and ranking with their degraded paths,   *)
(* and the store of the result.  A promotion replaces the engine while     *)
(* searches run on the old one, the retired engine is closed, an operator  *)
(* may ingest into the index in place, and any call of Redis may fail.     *)
(*                                                                         *)
(* An engine is identified by its index generation; its catalogue, and so  *)
(* its planner fingerprint, is read from that index when it is built.  An  *)
(* entry may have outlived its time to live whenever it is looked up.      *)
(***************************************************************************)
EXTENDS Naturals, Sequences, SequencesExt, FiniteSets

CONSTANTS
  Searches,                \* requests, each made once
  QueryTexts,              \* normalised query texts
  Generations,             \* index generations, in promotion order: 1, 2, ...
  NoValue,                 \* a model value
  QUERY_PLAN_CACHE_SIZE,   \* plans an engine keeps in memory
  MaxRevision              \* bound: in-place changes of an index

ASSUME PipelineAssumption ==
  /\ Generations \subseteq Nat /\ 1 \in Generations
  /\ QUERY_PLAN_CACHE_SIZE \in Nat /\ MaxRevision \in Nat

VARIABLES
  search,       \* request -> where it is and what it carries
  prefetch,     \* request -> state of its speculative embedding's Future
  current,      \* generation of the engine the tenant is routed to
  closed,       \* generations whose engine was closed
  revision,     \* generation -> revision of its BM25 index
  memory,       \* generation -> the engine's plans, least recently used first
  sharedPlans,  \* Redis: plan entries, by fingerprint and query
  results       \* Redis: result entries, by generation, revision and query

pipelineVars == <<search, prefetch, current, closed, revision, memory, sharedPlans,
                  results>>

\* ---------------------------------------------------------------- the records
\* execution_path, and whether the plan is the default one after the models failed;
\* the direct semantic path and an unrewritten plan of the models behave alike
Routes == {"deterministic_filter", "semantic", "fallback"}

\* A plan has the catalogue it was made from, its route, and whether its
\* semantic_query differs from the query.  A result has the index it was read from
\* and the first thing that went wrong, if any: the models (fallback_reason), one
\* of the two searches (retrieval_degraded) or the reranker (reranker_degraded).
NewSearch == [pc |-> "new", gen |-> 1, q |-> NoValue, plan |-> NoValue, result |-> NoValue,
              hit |-> FALSE]

Ended == {"served", "failed"}

Set(s, changes) == search' = [search EXCEPT ![s] = [f \in DOMAIN @ |->
                                IF f \in DOMAIN changes THEN changes[f] ELSE @[f]]]
\* the request is answered; what it carried is dropped
End(pc) == [pc |-> pc, plan |-> NoValue, result |-> NoValue]
Gen(s) == search[s].gen
Query(s) == search[s].q

\* ------------------------------------------------------------- cache identity
\* fault: the generation is left out of the identity
KeyOfRevision(g, q) == [rev |-> revision[g], q |-> q]

\* _result_cache_key: read from the engine's index every time it is asked for
ResultKey(g, q) == [gen |-> g, rev |-> revision[g], q |-> q]

\* _query_cache_key: the fingerprint made when the engine was built
PlanKey(g, q) == [catalog |-> g, q |-> q]

PipelineInit ==
  /\ search = [s \in Searches |-> NewSearch]
  /\ prefetch = [s \in Searches |-> "none"]
  /\ current = 1
  /\ closed = {}
  /\ revision = [g \in Generations |-> 0]
  /\ memory = [g \in Generations |-> <<>>]
  /\ sharedPlans = {} /\ results = {}

Found(entries, key) == {e \in entries : e.key = key}

\* RedisCache.set_json: what the store holds afterwards; nothing changes while
\* Redis is down, or backing off after a failure
StoredIn(entries, key, value) ==
  {entries, (entries \ Found(entries, key)) \cup {[key |-> key, value |-> value]}}

\* --------------------------------------------------------- the result cache
\* search begins on the engine the request was routed to
Start(s) ==
  /\ search[s].pc = "new"
  /\ \E q \in QueryTexts : Set(s, [pc |-> "lookup", gen |-> current, q |-> q])
  /\ UNCHANGED <<prefetch, current, closed, revision, memory, sharedPlans, results>>

\* _cached_search_result: the products of a hit are fetched from the tenant's
\* database, through the pool that closing the engine closes
ResultHit(s) ==
  /\ search[s].pc = "lookup"
  /\ \E e \in Found(results, ResultKey(Gen(s), Query(s))) :
       Set(s, [pc |-> "served", result |-> e.value, hit |-> TRUE])
  /\ UNCHANGED <<prefetch, current, closed, revision, memory, sharedPlans, results>>

\* a miss (no entry, an expired one, or Redis down) starts the embedding of the
\* query as it was typed
ResultMiss(s) ==
  /\ search[s].pc = "lookup"
  /\ Set(s, [pc |-> "plan"])
  /\ prefetch' = [prefetch EXCEPT ![s] = "timer"]
  /\ UNCHANGED <<current, closed, revision, memory, sharedPlans, results>>

\* ------------------------------------------------- the speculative embedding
\* fault: an executor that refuses the task leaves the Future pending
LaunchSilently(s) ==
  /\ prefetch[s] = "timer"
  /\ Gen(s) \notin closed
  /\ prefetch' = [prefetch EXCEPT ![s] = "queued"]
  /\ UNCHANGED <<search, current, closed, revision, memory, sharedPlans, results>>

\* the 25 ms timer fires: submit, unless the executor was shut down
Launch(s) ==
  /\ prefetch[s] = "timer"
  /\ prefetch' = [prefetch EXCEPT ![s] = IF Gen(s) \in closed THEN "ended" ELSE "queued"]
  /\ UNCHANGED <<search, current, closed, revision, memory, sharedPlans, results>>

\* the one worker of the engine's executor takes a task
Embed(s) ==
  /\ prefetch[s] = "queued"
  /\ \A t \in Searches : prefetch[t] = "embedding" => Gen(t) # Gen(s)
  /\ prefetch' = [prefetch EXCEPT ![s] = "embedding"]
  /\ UNCHANGED <<search, current, closed, revision, memory, sharedPlans, results>>

\* transfer_result: the answer, an error or a time-out of the embedding provider
Embedded(s) ==
  /\ prefetch[s] = "embedding"
  /\ prefetch' = [prefetch EXCEPT ![s] = "ended"]
  /\ UNCHANGED <<search, current, closed, revision, memory, sharedPlans, results>>

\* Future.cancel: only before the timer has fired
Cancelled(s) == IF prefetch[s] = "timer" THEN [prefetch EXCEPT ![s] = "ended"] ELSE prefetch

\* --------------------------------------------------------------------- plans
MemoryOf(g, key) == {i \in DOMAIN memory[g] : memory[g][i].key = key}

\* the plans without that of a key, which has one entry at most
Without(kept, key) ==
  LET at == {i \in DOMAIN kept : kept[i].key = key} IN
  IF at = {} THEN kept ELSE RemoveAt(kept, CHOOSE i \in at : TRUE)

\* _cache_memory_plan: newest last, the oldest beyond the size dropped
Remember(kept, key, plan) ==
  LET all == Append(Without(kept, key), [key |-> key, value |-> plan]) IN
  SubSeq(all, Len(all) - (IF Len(all) > QUERY_PLAN_CACHE_SIZE THEN QUERY_PLAN_CACHE_SIZE
                          ELSE Len(all)) + 1, Len(all))

\* _cached_plan, from the engine's memory: the entry becomes the newest
PlanHit(s) ==
  /\ search[s].pc = "plan"
  /\ \E i \in MemoryOf(Gen(s), PlanKey(Gen(s), Query(s))) :
       LET e == memory[Gen(s)][i] IN
       /\ Set(s, [pc |-> "planned", plan |-> e.value])
       /\ memory' = [memory EXCEPT ![Gen(s)] = Append(RemoveAt(@, i), e)]
  /\ UNCHANGED <<prefetch, current, closed, revision, sharedPlans, results>>

\* _cached_plan, from Redis: copied into memory
SharedPlanHit(s) ==
  LET key == PlanKey(Gen(s), Query(s)) IN
  /\ search[s].pc = "plan"
  /\ MemoryOf(Gen(s), key) = {}
  /\ \E e \in Found(sharedPlans, key) :
       /\ Set(s, [pc |-> "planned", plan |-> e.value])
       /\ memory' = [memory EXCEPT ![Gen(s)] = Remember(@, key, e.value)]
  /\ UNCHANGED <<prefetch, current, closed, revision, sharedPlans, results>>

\* no plan in memory, or one whose time is up, which is dropped, and none in Redis
PlanMiss(s) ==
  LET key == PlanKey(Gen(s), Query(s)) IN
  /\ search[s].pc = "plan"
  /\ Set(s, [pc |-> "planning"])
  /\ memory' = [memory EXCEPT ![Gen(s)] = Without(@, key)]
  /\ UNCHANGED <<prefetch, current, closed, revision, sharedPlans, results>>

\* plan's last lines: a plan made without the models is not kept
CachePlan(s, plan) ==
  LET key == PlanKey(Gen(s), Query(s)) IN
  IF plan.route = "fallback" THEN UNCHANGED <<memory, sharedPlans>>
  ELSE /\ memory' = [memory EXCEPT ![Gen(s)] = Remember(@, key, plan)]
       /\ sharedPlans' \in StoredIn(sharedPlans, key, plan)

\* plan: the deterministic route, the direct semantic one or the language model, or
\* the default plan when the models failed; only the models rewrite the query
MakePlan(s) ==
  /\ search[s].pc = "planning"
  /\ \E route \in Routes, rewritten \in BOOLEAN :
       LET plan == [catalog |-> Gen(s), route |-> route, rewritten |-> rewritten] IN
       /\ rewritten => route = "semantic"
       /\ Set(s, [pc |-> "planned", plan |-> plan])
       /\ CachePlan(s, plan)
  /\ UNCHANGED <<prefetch, current, closed, revision, results>>

\* ------------------------------------------------------ the rest of search
\* the deterministic path gives up the embedding and browses the BM25 index;
\* another path whose text was rewritten gives it up too
Route(s) ==
  /\ search[s].pc = "planned"
  /\ LET plan == search[s].plan IN
     /\ Set(s, [pc |-> CASE plan.route = "deterministic_filter" -> "browse"
                         [] plan.rewritten -> "retrieve"
                         [] OTHER -> "await"])
     /\ prefetch' = IF plan.route = "deterministic_filter" \/ plan.rewritten
                    THEN Cancelled(s) ELSE prefetch
  /\ UNCHANGED <<current, closed, revision, memory, sharedPlans, results>>

\* result() of the Future returns or raises: without an answer retrieve embeds
\* the text itself
Await(s) ==
  /\ search[s].pc = "await"
  /\ prefetch[s] = "ended"
  /\ Set(s, [pc |-> "retrieve"])
  /\ UNCHANGED <<prefetch, current, closed, revision, memory, sharedPlans, results>>

Faulty(result, fault) == IF result.fault = "none" THEN [result EXCEPT !.fault = fault] ELSE result

ReadResult(s) ==
  [gen |-> Gen(s), rev |-> revision[Gen(s)],
   fault |-> IF search[s].plan.route = "fallback" THEN "plan" ELSE "none"]

\* what a search read; nothing after this depends on the plan
Read(pc, result) == [pc |-> pc, plan |-> NoValue, result |-> result]

\* _filtered_search
Browse(s) ==
  /\ search[s].pc = "browse"
  /\ Set(s, Read("store", ReadResult(s)))
  /\ UNCHANGED <<prefetch, current, closed, revision, memory, sharedPlans, results>>

\* retrieve: either of the two searches may fail, both failing fails the search
Retrieve(s) ==
  /\ search[s].pc = "retrieve"
  /\ \E vector, lexical \in BOOLEAN :
       Set(s, IF vector \/ lexical
              THEN Read("rank", IF vector /\ lexical THEN ReadResult(s)
                                ELSE Faulty(ReadResult(s), "retrieval"))
              ELSE End("failed"))
  /\ UNCHANGED <<prefetch, current, closed, revision, memory, sharedPlans, results>>

\* rank: when the reranker fails the fused order is returned, marked degraded
Rank(s) ==
  /\ search[s].pc = "rank"
  /\ \E result \in {search[s].result, Faulty(search[s].result, "ranking")} :
       Set(s, [pc |-> "store", result |-> result])
  /\ UNCHANGED <<prefetch, current, closed, revision, memory, sharedPlans, results>>

\* fetching the products fails: the database, or the pool of a closed engine
FetchFails(s) ==
  /\ search[s].pc \in {"lookup", "browse", "store"}
  /\ Set(s, End("failed"))
  /\ UNCHANGED <<prefetch, current, closed, revision, memory, sharedPlans, results>>

\* _cache_search_result's early return
Cacheable(r) == r.fault = "none"

\* _cache_search_result: under the key the index has by then
Store(s) ==
  /\ search[s].pc = "store"
  /\ Gen(s) \notin closed
  /\ Set(s, End("served"))
  /\ results' \in IF Cacheable(search[s].result)
                   THEN StoredIn(results, ResultKey(Gen(s), Query(s)), search[s].result)
                   ELSE {results}
  /\ UNCHANGED <<prefetch, current, closed, revision, memory, sharedPlans>>

\* ---------------------------------------------------------------- around it
\* the tenant is routed to the engine of the next generation
Promote ==
  /\ current + 1 \in Generations
  /\ current' = current + 1
  /\ UNCHANGED <<search, prefetch, closed, revision, memory, sharedPlans, results>>

\* close: shutdown(wait=False, cancel_futures=True); queued embeddings are
\* cancelled, and their Futures end with an exception
Close(g) ==
  /\ g \notin closed /\ g < current
  /\ closed' = closed \cup {g}
  /\ prefetch' = [s \in Searches |-> IF prefetch[s] = "queued" /\ Gen(s) = g
                                     THEN "ended" ELSE prefetch[s]]
  /\ UNCHANGED <<search, current, revision, memory, sharedPlans, results>>

\* an ingestion into the served index changed its BM25 rows
InPlaceIngestion(g) ==
  /\ g = current /\ \A h \in Generations : revision[h] < MaxRevision
  /\ revision' = [revision EXCEPT ![g] = @ + 1]
  /\ UNCHANGED <<search, prefetch, current, closed, memory, sharedPlans, results>>

\* the API's process is killed and started again: the searches under way and the
\* plans in memory are lost, Redis keeps its entries, and only the routed
\* generation gets an engine
Restart ==
  /\ \E s \in Searches : search[s].pc # "new"
  /\ search' = [s \in Searches |->
                  IF search[s].pc \in Ended \cup {"new"} THEN search[s]
                  ELSE [search[s] EXCEPT !.pc = "failed", !.plan = NoValue, !.result = NoValue]]
  /\ prefetch' = [s \in Searches |-> IF search[s].pc = "new" THEN "none" ELSE "ended"]
  /\ closed' = {g \in Generations : g < current}
  /\ memory' = [g \in Generations |-> <<>>]
  /\ UNCHANGED <<current, revision, sharedPlans, results>>

Step(s) ==
  \/ ResultHit(s) \/ ResultMiss(s)
  \/ PlanHit(s) \/ SharedPlanHit(s) \/ PlanMiss(s) \/ MakePlan(s)
  \/ Route(s) \/ Await(s) \/ Browse(s) \/ Retrieve(s) \/ Rank(s) \/ Store(s)
  \/ FetchFails(s)

Prefetch(s) == Launch(s) \/ Embed(s) \/ Embedded(s)

PipelineNext ==
  \/ \E s \in Searches : Start(s) \/ Step(s) \/ Prefetch(s)
  \/ Promote \/ Restart
  \/ \E g \in Generations : Close(g) \/ InPlaceIngestion(g)

\* every thread of a search, the timer and the worker get on; a provider call
\* ends by its time-out
PipelineSpec == PipelineInit /\ [][PipelineNext]_pipelineVars
                /\ \A s \in Searches : WF_pipelineVars(Step(s)) /\ WF_pipelineVars(Prefetch(s))

\* ----------------------------------------------------------------- properties
\* What one search could not do properly never becomes another's answer: no plan
\* made without the models and no result read from one index only or left
\* unranked is served from a cache.
NothingDegradedIsReused ==
  /\ \A s \in Searches : search[s].hit => search[s].result.fault = "none"
  /\ \A e \in sharedPlans : e.value.route # "fallback"
  /\ \A g \in Generations : \A i \in DOMAIN memory[g] : memory[g][i].value.route # "fallback"

\* A search only uses plans made from its own engine's catalogue and results
\* read from its own engine's index, no older than the TTL keeps them, although
\* Redis is shared with the engines before and after a promotion.  It says nothing of
\* the revision within one index: Store asks for the key anew, so that what was read
\* before an in-place ingestion may be filed under the revision after it.
ReusedFitsEngine ==
  \A s \in Searches :
    /\ search[s].plan # NoValue => search[s].plan.catalog = Gen(s)
    /\ search[s].result # NoValue => search[s].result.gen = Gen(s)

\* What one search takes over from another, through either cache, in either
\* process, is as good as its own work would have been.
ReuseIsSound == NothingDegradedIsReused /\ ReusedFitsEngine

\* Every search that began ends, also when its embedding waits behind another
\* one, or its engine is closed under it before the timer fires.
EverySearchEnds ==
  \A s \in Searches : (search[s].pc = "lookup") ~> (search[s].pc \in Ended)
=============================================================================
