---------------------------- MODULE ApiRequests ----------------------------
(***************************************************************************)
(* The tenants' search requests through the HTTP API (api/__init__.py,     *)
(* api/service.py): authentication, the rate limit of TokenBucket, the     *)
(* search or the page of an earlier one, the usage ledger (storage/        *)
(* usage.py), the session store behind the cursors (api/contracts.py) and  *)
(* the analytics event of the request.  Ledger and session store belong to *)
(* the application and serve all tenants; services come and go.  A         *)
(* readiness request probes the ledger meanwhile.  The rate limit is that  *)
(* of one tenant (Company); the others have buckets of their own.          *)
(*                                                                         *)
(* Each caller of TokenBucket serves one request after another.  What the  *)
(* engine does is the subject of SearchPipeline; here a search returns a   *)
(* number of products and of model calls to book, or raises.               *)
(***************************************************************************)
EXTENDS TokenBucket, Sequences, FiniteSets

CONSTANTS
    Company,        \* the tenant whose bucket TokenBucket is
    KeyOwner,       \* _key_owners: the companies, by API key
    EndpointOwner,  \* _endpoint_profiles: the companies, by endpoint
    Compatible,     \* the companies whose adapter blocks the generic search
    Keys, Endpoints, None,  \* what a request may carry; None: nothing
    MaxSessions,    \* max_sessions of the store
    SessionTtl,     \* ttl_seconds
    PageSize,       \* page_size of the requests
    ItemCounts,     \* how many products a search may return
    ModelCalls,     \* how many model attempts a search may report
    MaxRequests     \* bound on the requests that are explored

ASSUME SessionsAssumption ==
    MaxSessions \in Nat \ {0} /\ SessionTtl \in Nat \ {0} /\ PageSize \in Nat \ {0}
ASSUME CountsAssumption == ItemCounts \subseteq Nat /\ ModelCalls \subseteq Nat
ASSUME MaxRequestsAssumption == MaxRequests \in Nat

VARIABLES
    request,    \* what each caller is serving
    received,   \* requests received so far, an administrator's included
    searches,   \* searches begun so far; a search's number is its search_id
    session,    \* the sessions, by search
    store,      \* _sessions of the application's store, least recently used first
    cursors,    \* the cursors handed out: search and offset
    ledger,     \* the usage database and the connection's open transaction: rows by search
    events,     \* the analytics events submitted for each search
    answer,     \* how each search was answered: "none" yet, "page" (200), "error" (5xx)
    used,       \* history: the sessions in the order of their last use
    shown       \* history: the companies and the searches of which they got a page

apiVars == <<request, received, searches, session, store, cursors, ledger,
             events, answer, used, shown>>
allVars == <<vars, apiVars>>

Searches == 1 .. MaxRequests
NoRequest == [pc |-> "none", company |-> None, search |-> 0, offset |-> 0, rows |-> 0]
NoSession == [items |-> 0, rows |-> 0, expires |-> 0, company |-> None]
NoRows == [s \in Searches |-> 0]

\* A sequence without the elements of S.
Without(seq, S) ==
    LET kept[i \in 0 .. Len(seq)] ==
          IF i = 0 THEN <<>>
          ELSE IF seq[i] \in S THEN kept[i - 1] ELSE Append(kept[i - 1], seq[i])
    IN  kept[Len(seq)]

InStore == {store[i] : i \in DOMAIN store}

ApiInit ==
    /\ Init
    /\ request = [c \in Callers |-> NoRequest]
    /\ received = 0
    /\ searches = 0
    /\ session = [s \in Searches |-> NoSession]
    /\ store = <<>>
    /\ cursors = {}
    /\ ledger = [open |-> FALSE, pending |-> NoRows, rows |-> NoRows]
    /\ events = [s \in Searches |-> <<>>]
    /\ answer = [s \in Searches |-> "none"]
    /\ used = <<>>
    /\ shown = {}

-----------------------------------------------------------------------------
(* Authentication and rate limit. *)

Step(c, r) == request' = [request EXCEPT ![c] = r]

\* company_search_request and SearchRequest for a request to a company's own
\* endpoint, then resolve_company_profile: the status of the refusal, or 200.
Status(apiKey, endpoint, wellFormed) ==
    IF endpoint # None /\ endpoint \notin DOMAIN EndpointOwner THEN 404
    ELSE IF endpoint # None /\ EndpointOwner[endpoint] \in Compatible THEN 404
    ELSE IF ~wellFormed THEN 422
    ELSE IF apiKey \notin DOMAIN KeyOwner THEN 401
    ELSE IF endpoint # None /\ EndpointOwner[endpoint] # KeyOwner[apiKey] THEN 403
    ELSE 200

Inputs == Keys \X Endpoints \X BOOLEAN
Refused == {i \in Inputs : Status(i[1], i[2], i[3]) # 200}
Accepted == {KeyOwner[i[1]] : i \in Inputs \ Refused}

\* A refused request leaves no trace.
Refuse(c) ==
    /\ request[c].pc = "none"
    /\ Refused # {}
    /\ received < MaxRequests
    /\ received' = received + 1
    /\ UNCHANGED <<vars, request, searches, session, store, cursors, ledger, events,
                   answer, used, shown>>

\* What a request carries: a query (<<0, 0>>), or a cursor: one that was handed
\* out, to whomever, or any other.
Carried == cursors \cup {<<0, 0>>, <<0, 1>>}

\* One of Company that passes asks the limiter.
Receive(c) ==
    /\ request[c].pc = "none"
    /\ Company \in Accepted
    /\ received < MaxRequests
    /\ received' = received + 1
    /\ \E cursor \in Carried :
         Step(c, [NoRequest EXCEPT !.pc = "limit", !.company = Company,
                                   !.search = cursor[1], !.offset = cursor[2]])
    /\ Ask(c)
    /\ UNCHANGED <<searches, session, store, cursors, ledger, events, answer, used, shown>>

IsQuery(r) == r.search = 0 /\ r.offset = 0

\* ProductSearchService.search of the company's service, whichever that is now.
Begin(c, r) ==
    \/ /\ IsQuery(r)
       /\ searches' = searches + 1
       /\ Step(c, [r EXCEPT !.pc = "search", !.search = searches + 1])
    \/ /\ ~IsQuery(r)
       /\ Step(c, [r EXCEPT !.pc = "page"])
       /\ UNCHANGED searches

\* resolve_service, once the bucket has decided: 429; 503 when the pool has no
\* service for the tenant (HTTPExceptions, which record no event); otherwise the
\* request goes on.
Decided(c, allowed) ==
    /\ \/ Step(c, NoRequest) /\ UNCHANGED searches
       \/ allowed /\ Begin(c, request[c])
    /\ UNCHANGED <<received, session, store, cursors, ledger, events, answer, used, shown>>

\* A request of another tenant, which its own bucket (the scope of a bucket
\* names the company) has let pass.
ReceiveOther(c) ==
    /\ request[c].pc = "none"
    /\ received < MaxRequests
    /\ received' = received + 1
    /\ \E company \in Accepted \ {Company}, cursor \in Carried :
         Begin(c, [NoRequest EXCEPT !.company = company,
                                    !.search = cursor[1], !.offset = cursor[2]])
    /\ UNCHANGED <<vars, session, store, cursors, ledger, events, answer, used, shown>>

LimitByRedis(c) == RedisAnswers(c) /\ Decided(c, charged' > charged)
LimitByMemory(c) == MemoryDecides(c) /\ Decided(c, granted' > granted)

-----------------------------------------------------------------------------
(* A query: execute_search, _start_search. *)

\* record_processing_failure and the 5xx answer.
Fail(c) ==
    LET s == request[c].search
    IN /\ events' = [events EXCEPT ![s] = Append(@, "failure")]
       /\ answer' = [answer EXCEPT ![s] = "error"]
       /\ Step(c, NoRequest)

\* run_engine_search; the rows _record_usage will write: the search's own and
\* one for each model attempt.
EngineSearch(c) ==
    /\ request[c].pc = "search"
    /\ \E n \in ItemCounts, k \in ModelCalls :
         /\ Step(c, [request[c] EXCEPT !.pc = "usage", !.rows = 1 + k])
         /\ session' = [session EXCEPT ![request[c].search] =
                          [items |-> n, rows |-> 1 + k, expires |-> 0,
                           company |-> request[c].company]]
    /\ UNCHANGED <<vars, received, searches, store, cursors, ledger, events, answer, used,
                   shown>>

\* SearchCapacityError and RuntimeError (503), or any other exception (500).
EngineRaises(c) ==
    /\ request[c].pc = "search"
    /\ Fail(c)
    /\ UNCHANGED <<vars, received, searches, session, store, cursors, ledger, used, shown>>

\* Adding the rows of a transaction to the table.
Commit(pending) ==
    [open    |-> FALSE,
     pending |-> NoRows,
     rows    |-> [s \in Searches |-> ledger.rows[s] + pending[s]]]

\* The open transaction with one more row of search s.
Upsert(s) == [ledger.pending EXCEPT ![s] = @ + 1]

\* Fault: only the last row of a search is committed, with all the others.
RecordRow_CommitOnce(c) ==
    LET s == request[c].search
        last == request[c].rows = 1
    IN /\ request[c].pc = "usage"
       /\ request[c].rows > 0
       /\ ledger' = IF last THEN Commit(Upsert(s))
                    ELSE [ledger EXCEPT !.open = TRUE, !.pending = Upsert(s)]
       /\ Step(c, [request[c] EXCEPT !.rows = @ - 1])
       /\ UNCHANGED <<vars, received, searches, session, store, cursors, events, answer,
                      used, shown>>

\* MonthlyUsageStore.record: under the lock the upsert and its commit, which
\* takes along what an earlier failed commit has left in the transaction.
RecordRow(c) ==
    /\ request[c].pc = "usage"
    /\ request[c].rows > 0
    /\ ledger' = Commit(Upsert(request[c].search))
    /\ Step(c, [request[c] EXCEPT !.rows = @ - 1])
    /\ UNCHANGED <<vars, received, searches, session, store, cursors, events, answer,
                   used, shown>>

\* The upsert raises, after the implicit BEGIN, or the commit does and leaves
\* the row in the open transaction: sqlite3.OperationalError, 500.
RecordRowRaises(c) ==
    /\ request[c].pc = "usage"
    /\ request[c].rows > 0
    /\ \/ ledger' = [ledger EXCEPT !.open = TRUE]
       \/ ledger' = [ledger EXCEPT !.open = TRUE, !.pending = Upsert(request[c].search)]
    /\ Fail(c)
    /\ UNCHANGED <<vars, received, searches, session, store, cursors, used, shown>>

Use(s) == used' = Append(Without(used, {s}), s)

\* popitem(last=False) while there are more than max_sessions.
Evicted(seq) ==
    IF Len(seq) > MaxSessions THEN SubSeq(seq, Len(seq) - MaxSessions + 1, Len(seq)) ELSE seq

\* _remove_expired.
Unexpired == Without(store, {s \in Searches : session[s].expires <= clock})

\* SearchSessionStore.create, in the store that every service was given.
CreateSession(c) ==
    LET s == request[c].search
    IN /\ request[c].pc = "usage"
       /\ request[c].rows = 0
       /\ session' = [session EXCEPT ![s].expires = clock + SessionTtl]
       /\ store' = Evicted(Append(Unexpired, s))
       /\ Use(s)
       /\ Step(c, [request[c] EXCEPT !.pc = "record"])
       /\ UNCHANGED <<vars, received, searches, cursors, ledger, events, answer, shown>>

\* encode_cursor(search_id, end) while there is more.
NextCursor(s, offset) ==
    IF offset + PageSize < session[s].items THEN {<<s, offset + PageSize>>} ELSE {}

\* A page, with the cursor of the next one.
Show(c, s, offset) ==
    /\ cursors' = cursors \cup NextCursor(s, offset)
    /\ shown' = shown \cup {<<request[c].company, s>>}

\* record_search_analytics (submit raises nothing) and the first page.
Respond(c) ==
    LET s == request[c].search
    IN /\ request[c].pc = "record"
       /\ events' = [events EXCEPT ![s] = Append(@, "success")]
       /\ answer' = [answer EXCEPT ![s] = "page"]
       /\ Show(c, s, 0)
       /\ Step(c, NoRequest)
       /\ UNCHANGED <<vars, received, searches, session, store, ledger, used>>

-----------------------------------------------------------------------------
(* A cursor: decode_cursor, SearchSessionStore.get, the company, _page. *)

\* 400: a cursor that cannot be decoded, or a session that is not in the store.
PageUnknown(c) ==
    /\ request[c].pc = "page"
    /\ request[c].search \notin InStore
    /\ Step(c, NoRequest)
    /\ UNCHANGED <<vars, received, searches, session, store, cursors, ledger, events, answer,
                   used, shown>>

\* 410, and the session is deleted, whoever asks.
PageExpired(c) ==
    LET s == request[c].search
    IN /\ request[c].pc = "page"
       /\ s \in InStore
       /\ session[s].expires <= clock
       /\ store' = Without(store, {s})
       /\ Step(c, NoRequest)
       /\ UNCHANGED <<vars, received, searches, session, cursors, ledger, events, answer, used,
                      shown>>

\* get finds the session and moves it to the end.
Found(c) ==
    LET s == request[c].search
    IN /\ request[c].pc = "page"
       /\ s \in InStore
       /\ session[s].expires > clock
       /\ store' = Append(Without(store, {s}), s)
       /\ Use(s)
       /\ Step(c, NoRequest)

\* Another company's session: 400, but only after get.
PageForeign(c) ==
    /\ Found(c)
    /\ session[request[c].search].company # request[c].company
    /\ UNCHANGED <<vars, received, searches, session, cursors, ledger, events, answer, shown>>

\* An offset beyond the items is a 400 all the same.
PageServed(c) ==
    /\ Found(c)
    /\ session[request[c].search].company = request[c].company
    /\ Show(c, request[c].search, request[c].offset)
    /\ UNCHANGED <<vars, received, searches, session, ledger, events, answer>>

-----------------------------------------------------------------------------
(* Around the requests. *)

\* MonthlyUsageStore.readiness: BEGIN IMMEDIATE fails inside a transaction;
\* either way it ends with a rollback.
Readiness ==
    /\ ledger.open
    /\ ledger' = [ledger EXCEPT !.open = FALSE, !.pending = NoRows]
    /\ UNCHANGED <<vars, request, received, searches, session, store, cursors, events,
                   answer, used, shown>>

\* Fault: a service that is built anew comes with a store of its own.
ReplaceService_OwnStore ==
    /\ received < MaxRequests
    /\ received' = received + 1
    /\ store' = <<>>
    /\ UNCHANGED <<vars, request, searches, session, cursors, ledger, events, answer, used, shown>>

\* An administrator's reload or rollback, or an eviction: the next get returns a
\* new service, built with the store of the application (_build_service).
ReplaceService ==
    /\ received < MaxRequests
    /\ received' = received + 1
    /\ UNCHANGED <<vars, request, searches, session, store, cursors, ledger, events, answer, used,
                   shown>>

\* The limiter's other steps.
LimiterStep ==
    /\ \/ \E c \in Callers : RedisFails(c) \/ RedisAnswerLost(c)
       \/ Expire \/ Tick
    /\ UNCHANGED apiVars

CallerStep(c) ==
    \/ Refuse(c) \/ Receive(c) \/ ReceiveOther(c) \/ LimitByRedis(c) \/ LimitByMemory(c)
    \/ EngineSearch(c) \/ EngineRaises(c) \/ RecordRow(c) \/ RecordRowRaises(c)
    \/ CreateSession(c) \/ Respond(c)
    \/ PageUnknown(c) \/ PageExpired(c) \/ PageForeign(c) \/ PageServed(c)

ApiNext ==
    \/ \E c \in Callers : CallerStep(c)
    \/ Readiness \/ ReplaceService \/ LimiterStep

ApiSpec == ApiInit /\ [][ApiNext]_allVars

-----------------------------------------------------------------------------
\* A session is given up before its time only when max_sessions others have
\* been created or read since its last use, by whatever tenant: neither the
\* replacement of a service nor expired sessions take the room of live ones
\* (SearchSessionStore).
RecentCursorsSurvive ==
    \A i \in DOMAIN used :
        session[used[i]].expires > clock =>
            used[i] \in InStore \/ Len(used) - i >= MaxSessions

\* Pages of a search go to the company that searched, also when another one
\* presents the cursor.
CursorsAreTenantBound == \A p \in shown : session[p[2]].company = p[1]

\* "Cursor sessions are shared at the application level and remain tenant-bound
\* when an engine is evicted" (docs/production_search_operations.md).
CursorsAreKept == RecentCursorsSurvive /\ CursorsAreTenantBound

\* Every row of a search that was answered with 200 is in the ledger, exactly
\* once, whatever other requests' failed commits and the rollbacks of the
\* readiness probe do on the shared connection; a failed one has no row twice.
ServedIsBooked ==
    \A s \in Searches :
        /\ answer[s] = "page" => ledger.rows[s] = session[s].rows
        /\ ledger.rows[s] <= session[s].rows

\* Every search that was answered has left exactly one analytics event, of
\* success exactly when the client got its page (execute_search).
RecordedOnce ==
    \A s \in Searches :
        /\ answer[s] # "none" => events[s] = <<IF answer[s] = "page" THEN "success" ELSE "failure">>
        /\ Len(events[s]) <= 1

\* An answer, its ledger rows and its analytics event belong together, although
\* the three are written by different components that fail separately.
AnsweredIsAccountedFor == ServedIsBooked /\ RecordedOnce
=============================================================================
