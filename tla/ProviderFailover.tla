-------------------------- MODULE ProviderFailover --------------------------
(***************************************************************************)
(* The calls to the model providers that one search makes: the query plan  *)
(* (structured_chat, providers/gemini.py) and the scores of the reranker   *)
(* (SharedReranker, FallbackReranker and HostedReranker,                   *)
(* search/reranker.py), both behind rolling request budgets                *)
(* (RequestWindowLimiter, core/request_limit.py).                          *)
(*                                                                         *)
(* Every worker thread runs one search after the other.  A thread gives up *)
(* the interpreter between reading the clock and taking a limiter's lock,  *)
(* and between testing a provider's cooldown and setting it.  The budget   *)
(* of a limiter is kept in Redis (SLIDING_WINDOW_SCRIPT) while Redis       *)
(* answers and in the process otherwise.  The weighted token budget is     *)
(* TokenBucket; here its answer is free.                                   *)
(***************************************************************************)
EXTENDS Integers, Sequences, FiniteSets, SequencesExt, FiniteSetsExt

CONSTANTS
    Threads,         \* worker threads of the API
    RERANK_PROVIDER_ORDER, QUERY_EXTRACT_MODELS,   \* sequences of providers
    Keyed,           \* the providers whose API key is set
    DayLimited,      \* rerankers that have a daily budget too
    Limit,           \* requests_per_window of a limiter
    Window,          \* window_seconds of a limiter
    RateCooldown,    \* RERANK_RATE_LIMIT_COOLDOWN_SECONDS
    FailCooldown,    \* RERANK_FAILURE_COOLDOWN_SECONDS
    RetryAfters,     \* values a Retry-After header may have
    TotalTimeout,    \* QUERY_EXTRACT_TOTAL_TIMEOUT_SECONDS
    Coordinated,     \* the limiters that Redis answers for
    MaxTime,         \* bound on the time that is explored
    Workloads        \* bounds on the plans and rankings of one behaviour

Rerankers == ToSet(RERANK_PROVIDER_ORDER)
QueryProviders == ToSet(QUERY_EXTRACT_MODELS)
Limiters == (Rerankers \X {"minute"}) \union (DayLimited \X {"day"})
              \union (QueryProviders \X {"query"})

ASSUME LimitsAssumption ==
    \A l \in Limiters : Limit[l] \in Nat \ {0} /\ Window[l] \in Nat \ {0}
ASSUME CooldownsAssumption ==
    RateCooldown \in Nat \ {0} /\ FailCooldown \in Nat \ {0} /\ RetryAfters \subseteq Nat
ASSUME TimesAssumption == TotalTimeout \in Nat /\ MaxTime \in Nat
ASSUME OrdersAssumption ==
    /\ RERANK_PROVIDER_ORDER \in Seq(Rerankers)
    /\ QUERY_EXTRACT_MODELS \in Seq(QueryProviders) /\ QUERY_EXTRACT_MODELS # <<>>

VARIABLES
    now,          \* time.monotonic()
    ranker,       \* SharedReranker.ranker: "none", or the providers it holds
    loads,        \* how many times a reranker was loaded
    requests,     \* RequestWindowLimiter._requests of each limiter
    shared,       \* the sorted set of each limiter in Redis
    until,        \* HostedReranker._unavailable_until
    usage,        \* the thread-local last_usage / last_chat_metrics, in tokens
    thread,       \* what every thread is doing
    started,      \* plans and rankings begun so far
    stamps,       \* every stamp a limiter of the process ever admitted
    latest,       \* the latest clock value such a limiter was asked with
    slipped,      \* calls begun at a provider while it was cooling down
    billed        \* tokens the providers have answered the thread's call with

vars == <<now, ranker, loads, requests, shared, until, usage, thread, started,
          stamps, latest, slipped, billed>>
rankerVars == <<ranker, loads>>
limiterVars == <<requests, shared, stamps, latest>>
metricVars == <<usage, billed>>

\* pos: the provider whose turn it is; read: the clock value it read for a
\* limiter; attempts: what is recorded of every provider tried.
Idle == [pc |-> "idle", op |-> "none", pos |-> 0, read |-> 0, lim |-> "none",
         deadline |-> 0, attempts |-> <<>>]

Steps == {"idle", "ensure", "load", "locked", "cooldown", "clock", "allow", "post",
          "waiting", "ended"}

Init ==
    /\ now = 0
    /\ ranker = "none"
    /\ loads = 0
    /\ requests = [l \in Limiters |-> <<>>]
    /\ shared = [l \in Limiters |-> <<>>]
    /\ until = [p \in Rerankers |-> 0]
    /\ usage = [t \in Threads |-> [p \in Rerankers \union QueryProviders |-> 0]]
    /\ thread = [t \in Threads |-> Idle]
    /\ started = [plan |-> 0, rank |-> 0]
    /\ stamps = [l \in Limiters |-> <<>>]
    /\ latest = [l \in Limiters |-> 0]
    /\ slipped = [p \in Rerankers |-> [t \in Threads |-> 0]]
    /\ billed = [t \in Threads |-> 0]

Start(op) ==
    /\ started' = [started EXCEPT ![op] = @ + 1]
    /\ \E load \in Workloads : \A o \in DOMAIN load : started'[o] <= load[o]

Go(t, changes) == thread' = [thread EXCEPT ![t] = [f \in DOMAIN @ |->
                                IF f \in DOMAIN changes THEN changes[f] ELSE @[f]]]

------------------------------------------------------------------------------
(* Which providers a call goes through.                                     *)

Providers(op) == IF op = "plan" THEN QUERY_EXTRACT_MODELS ELSE RERANK_PROVIDER_ORDER

\* The places of the providers a call may go through: load_reranker keeps those
\* that have an API key, in order; every model of a plan has its turn.
Places(op) ==
    IF op = "plan" THEN DOMAIN QUERY_EXTRACT_MODELS
    ELSE {i \in DOMAIN RERANK_PROVIDER_ORDER : RERANK_PROVIDER_ORDER[i] \in Keyed}

\* The places whose turn comes after that of the thread's provider.
Following(t) == {i \in Places(thread[t].op) : i > thread[t].pos}

Provider(t) == Providers(thread[t].op)[thread[t].pos]

\* The limiters of the provider whose turn it is, in the order they are asked.
LimitersOf(t) ==
    LET p == Provider(t) IN
    IF thread[t].op = "plan" THEN <<"query">>
    ELSE IF p \in DayLimited THEN <<"minute", "day">> ELSE <<"minute">>

NextLimiter(t) ==
    LET ls == LimitersOf(t)
        k == IF thread[t].lim = "none" THEN 0 ELSE CHOOSE i \in DOMAIN ls : ls[i] = thread[t].lim
    IN  IF k < Len(ls) THEN ls[k + 1] ELSE "none"

\* One provider is done with; the call ends when it succeeded, when the error
\* is not one to fall back from, or when no provider is left.
Attempt(t, status, tokens) ==
    LET attempts == Append(thread[t].attempts, [status |-> status, tokens |-> tokens])
        ends == status \in {"success", "failed"} \/ Following(t) = {}
    IN  Go(t, [attempts |-> attempts, lim |-> "none", read |-> 0,
               pos |-> IF ends THEN thread[t].pos ELSE Min(Following(t)),
               pc |-> IF ends THEN "ended"
                      ELSE IF thread[t].op = "plan" THEN "clock" ELSE "cooldown"])

------------------------------------------------------------------------------
(* The reranker of the process.                                             *)

\* A search whose plan was cached or is deterministic goes to the ranking.
BeginRank(t) ==
    /\ thread[t].pc = "idle"
    /\ Start("rank")
    /\ Go(t, [pc |-> "ensure", op |-> "rank"])
    /\ UNCHANGED <<now, rankerVars, limiterVars, until, metricVars, slipped>>

\* The loop over the providers begins.
FirstReranker == [pc |-> "cooldown", pos |-> Min(Places("rank"))]

\* SharedReranker.ensure without the lock.
Ensure(t) ==
    /\ thread[t].pc = "ensure"
    /\ Go(t, IF ranker = "none" THEN [pc |-> "load"] ELSE FirstReranker)
    /\ UNCHANGED <<now, started, rankerVars, limiterVars, until, metricVars, slipped>>

TakeLoadLock(t) ==
    /\ thread[t].pc = "load"
    /\ \A u \in Threads : thread[u].pc # "locked"
    /\ Go(t, [pc |-> "locked"])
    /\ UNCHANGED <<now, started, rankerVars, limiterVars, until, metricVars, slipped>>

\* The holder of the lock looks again.  A loader without any provider raises,
\* outside of the fallback of rank: the search fails.
Load(t) ==
    /\ thread[t].pc = "locked"
    /\ IF ranker # "none"
       THEN /\ Go(t, FirstReranker)
            /\ UNCHANGED rankerVars
       ELSE IF Places("rank") = {}
            THEN /\ Go(t, [pc |-> "ended"])
                 /\ UNCHANGED rankerVars
            ELSE /\ Go(t, FirstReranker)
                 /\ ranker' = "loaded"
                 /\ loads' = loads + 1
    /\ UNCHANGED <<started, now, limiterVars, until, metricVars, slipped>>

\* Fault: the usage of the thread's last call is kept.
TestKeepsUsage(t) ==
    /\ thread[t].pc = "cooldown"
    /\ usage' = usage
    /\ IF until[Provider(t)] > now
       THEN Attempt(t, "fallback", usage'[t][Provider(t)])
       ELSE Go(t, [pc |-> "clock"])
    /\ UNCHANGED <<now, started, rankerVars, limiterVars, until, slipped, billed>>

\* The head of HostedReranker.compute_score: the usage of an earlier call is
\* forgotten, and a provider that is cooling down is passed over.
TestCooldown(t) ==
    /\ thread[t].pc = "cooldown"
    /\ usage' = [usage EXCEPT ![t][Provider(t)] = 0]
    /\ IF until[Provider(t)] > now
       THEN Attempt(t, "fallback", usage'[t][Provider(t)])
       ELSE Go(t, [pc |-> "clock"])
    /\ UNCHANGED <<now, started, rankerVars, limiterVars, until, slipped, billed>>

------------------------------------------------------------------------------
(* The query plan.                                                          *)

BeginPlan(t) ==
    /\ thread[t].pc = "idle"
    /\ Start("plan")
    /\ Go(t, [pc |-> "clock", op |-> "plan", pos |-> Min(Places("plan")),
              deadline |-> now + TotalTimeout])
    /\ UNCHANGED <<now, rankerVars, limiterVars, until, metricVars, slipped>>

\* The total deadline ends the loop over the models.
PastDeadline(t) ==
    /\ thread[t].pc = "clock"
    /\ thread[t].op = "plan"
    /\ now >= thread[t].deadline
    /\ Go(t, [attempts |-> Append(thread[t].attempts, [status |-> "fallback", tokens |-> 0]),
              pc |-> "ended"])
    /\ UNCHANGED <<now, started, rankerVars, limiterVars, until, metricVars, slipped>>

------------------------------------------------------------------------------
(* RequestWindowLimiter.                                                    *)

\* ZREMRANGEBYSCORE drops the scores up to the cutoff, the first ones of the set.
Recent(s, cutoff) == SubSeq(s, Cardinality({i \in DOMAIN s : s[i] <= cutoff}) + 1, Len(s))

\* Variant: an entry leaves the window one unit early.
PoppedEarly(s, cutoff) == Recent(s, cutoff + 1)

\* popleft stops at the first entry inside the window.
Popped(s, cutoff) ==
    LET live == {i \in DOMAIN s : s[i] > cutoff}
    IN  IF live = {} THEN <<>> ELSE SubSeq(s, Min(live), Len(s))

AfterAllow(t, l, allowed) ==
    IF ~allowed
    THEN Attempt(t, "fallback", IF thread[t].op = "rank" THEN usage[t][Provider(t)] ELSE 0)
    ELSE LET ls == LimitersOf(t) IN
         Go(t, [lim |-> l[2], read |-> 0, pc |-> IF l[2] = Last(ls) THEN "post" ELSE "clock"])

\* allow_request_window: the script drops what left the window and counts, in
\* one step and at the time of the server.
RedisAllows(t) ==
    /\ thread[t].pc = "clock"
    /\ thread[t].op = "plan" => now < thread[t].deadline
    /\ <<Provider(t), NextLimiter(t)>> \in Coordinated
    /\ LET l == <<Provider(t), NextLimiter(t)>>
           kept == Recent(shared[l], now - Window[l])
           allowed == Len(kept) < Limit[l]
       IN  /\ shared' = [shared EXCEPT ![l] = IF allowed THEN Append(kept, now) ELSE kept]
           /\ AfterAllow(t, l, allowed)
    /\ UNCHANGED <<now, started, rankerVars, requests, until, metricVars, stamps, latest, slipped>>

\* Redis gives no answer: _allow_memory reads the clock before it takes the lock.
ReadClock(t) ==
    /\ thread[t].pc = "clock"
    /\ thread[t].op = "plan" => now < thread[t].deadline
    /\ <<Provider(t), NextLimiter(t)>> \notin Coordinated
    /\ Go(t, [pc |-> "allow", read |-> now])
    /\ UNCHANGED <<now, started, rankerVars, limiterVars, until, metricVars, slipped>>

AllowMemory(t) ==
    /\ thread[t].pc = "allow"
    /\ LET l == <<Provider(t), NextLimiter(t)>>
           read == thread[t].read
           kept == Popped(requests[l], read - Window[l])
           allowed == Len(kept) < Limit[l]
       IN  /\ requests' = [requests EXCEPT ![l] = IF allowed THEN Append(kept, read) ELSE kept]
           /\ stamps' = [stamps EXCEPT ![l] = IF allowed THEN Append(@, read) ELSE @]
           /\ latest' = [latest EXCEPT ![l] = Max({@, read})]
           /\ AfterAllow(t, l, allowed)
    /\ UNCHANGED <<now, started, rankerVars, shared, until, metricVars, slipped>>

------------------------------------------------------------------------------
(* The call itself.                                                         *)

\* The weighted token budget of the provider refuses (local_token_limit).
TokensRefused(t) ==
    /\ thread[t].pc = "post"
    /\ thread[t].op = "plan"
    /\ Provider(t) = "groq"
    /\ Attempt(t, "fallback", 0)
    /\ UNCHANGED <<now, started, rankerVars, limiterVars, until, metricVars, slipped>>

\* A provider without a key and one whose turn comes past the deadline
\* (_effective_timeout) are not called; their metrics hold no tokens.
NotCalled(t) ==
    /\ thread[t].pc = "post"
    /\ thread[t].op = "plan"
    /\ Provider(t) \notin Keyed \/ now >= thread[t].deadline
    /\ usage' = [usage EXCEPT ![t][Provider(t)] = 0]
    /\ Attempt(t, "fallback", 0)
    /\ UNCHANGED <<now, started, rankerVars, limiterVars, until, slipped, billed>>

Post(t) ==
    /\ thread[t].pc = "post"
    /\ thread[t].op = "plan" => Provider(t) \in Keyed /\ now < thread[t].deadline
    /\ Go(t, [pc |-> "waiting"])
    /\ slipped' = IF thread[t].op = "rank" /\ until[Provider(t)] > now
                  THEN [slipped EXCEPT ![Provider(t)][t] = @ + 1]
                  ELSE slipped
    /\ UNCHANGED <<now, started, rankerVars, limiterVars, until, metricVars>>

\* _set_cooldown: the later of the two times.  A cooldown that starts anew
\* forgets what slipped through the last one.
SetCooldown(p, seconds) ==
    /\ until' = [until EXCEPT ![p] = Max({@, now + seconds})]
    /\ slipped' = IF until[p] > now THEN slipped ELSE [slipped EXCEPT ![p] = [t \in Threads |-> 0]]

\* compute_score of a provider that answered with usage: it is recorded also
\* when the results do not score every document.
Scored(t, complete) ==
    /\ thread[t].pc = "waiting"
    /\ thread[t].op = "rank"
    /\ usage' = [usage EXCEPT ![t][Provider(t)] = 1]
    /\ billed' = [billed EXCEPT ![t] = @ + 1]
    /\ Attempt(t, IF complete THEN "success" ELSE "fallback", usage'[t][Provider(t)])
    /\ UNCHANGED <<now, started, rankerVars, limiterVars, until, slipped>>

\* Status 429: Retry-After, or the configured cooldown where the header is
\* absent or zero.
RateLimited(t) ==
    /\ thread[t].pc = "waiting"
    /\ thread[t].op = "rank"
    /\ \E after \in RetryAfters \union {0} :
          SetCooldown(Provider(t), IF after = 0 THEN RateCooldown ELSE after)
    /\ Attempt(t, "fallback", usage[t][Provider(t)])
    /\ UNCHANGED <<now, started, rankerVars, limiterVars, metricVars>>

\* Any other status, a timeout or a lost connection.
CallFails(t) ==
    /\ thread[t].pc = "waiting"
    /\ thread[t].op = "rank"
    /\ SetCooldown(Provider(t), FailCooldown)
    /\ Attempt(t, "fallback", usage[t][Provider(t)])
    /\ UNCHANGED <<now, started, rankerVars, limiterVars, metricVars>>

\* Another request error, and a body that is not JSON: no cooldown.
Unreadable(t) ==
    /\ thread[t].pc = "waiting"
    /\ thread[t].op = "rank"
    /\ Attempt(t, "fallback", usage[t][Provider(t)])
    /\ UNCHANGED <<now, started, rankerVars, limiterVars, until, metricVars, slipped>>

\* What may come of a chat call: a JSON object; an answer that is blocked,
\* not finished, empty or no JSON object; a body that cannot be read; a status;
\* no answer in time; no connection; another error of the HTTP library.
Replies == {"object", "blocked", "unfinished", "empty", "text", "unreadable",
            "http_400", "http_fallback", "http_other", "timeout", "connection", "other"}
Billable == {"object", "blocked", "unfinished", "empty", "text"}

\* _http_status_error: which statuses are worth another model.
http_status_error(provider, reply) ==
    IF reply = "http_fallback" \/ (provider = "groq" /\ reply = "http_400")
    THEN "fallback" ELSE "failed"

\* structured_chat of the two providers: one answer is of use, an unavailable
\* model is passed over and any other error ends the plan.
GeminiChat(reply) ==
    CASE reply = "object" -> "success"
      [] reply \in {"http_400", "http_fallback", "http_other"} -> http_status_error("google", reply)
      [] reply = "other" -> "failed"
      [] OTHER -> "fallback"

\* Groq has no reason a candidate is blocked for; its status says "incomplete".
GroqChat(reply) ==
    CASE reply = "object" -> "success"
      [] reply \in {"http_400", "http_fallback", "http_other"} -> http_status_error("groq", reply)
      [] reply = "other" -> "failed"
      [] OTHER -> "fallback"

\* The tokens are read before the answer is judged; every call leaves metrics
\* of its own (last_chat_metrics, set in finally).
ChatReplies(t, reply) ==
    /\ thread[t].pc = "waiting"
    /\ thread[t].op = "plan"
    /\ LET tokens == IF reply \in Billable THEN 1 ELSE 0 IN
       /\ usage' = [usage EXCEPT ![t][Provider(t)] = tokens]
       /\ billed' = [billed EXCEPT ![t] = @ + tokens]
    /\ Attempt(t, IF Provider(t) = "groq" THEN GroqChat(reply) ELSE GeminiChat(reply),
               usage'[t][Provider(t)])
    /\ UNCHANGED <<now, started, rankerVars, limiterVars, until, slipped>>

\* rank falls back to the fusion order, plan to the default plan: the search
\* goes on either way.
Return(t) ==
    /\ thread[t].pc = "ended"
    /\ thread' = [thread EXCEPT ![t] = Idle]
    /\ billed' = [billed EXCEPT ![t] = 0]
    /\ UNCHANGED <<now, started, rankerVars, limiterVars, until, usage, slipped>>

Tick ==
    /\ now < MaxTime
    /\ now' = now + 1
    /\ UNCHANGED <<started, rankerVars, limiterVars, until, metricVars, thread, slipped>>

Step(t) ==
    \/ Ensure(t) \/ TakeLoadLock(t) \/ Load(t) \/ TestCooldown(t) \/ PastDeadline(t)
    \/ RedisAllows(t) \/ ReadClock(t) \/ AllowMemory(t)
    \/ TokensRefused(t) \/ NotCalled(t) \/ Post(t)
    \/ \E complete \in BOOLEAN : Scored(t, complete)
    \/ RateLimited(t) \/ CallFails(t) \/ Unreadable(t)
    \/ \E reply \in Replies : ChatReplies(t, reply)
    \/ Return(t)

Next == Tick \/ \E t \in Threads : BeginRank(t) \/ BeginPlan(t) \/ Step(t)

Spec == Init /\ [][Next]_vars

------------------------------------------------------------------------------

TypeOK ==
    /\ now \in 0 .. MaxTime
    /\ ranker \in {"none", "loaded"}
    /\ loads \in Nat
    /\ \A l \in Limiters : Len(requests[l]) <= Limit[l] /\ Len(shared[l]) <= Limit[l]
    /\ until \in [Rerankers -> Nat]
    /\ \A t \in Threads : /\ thread[t].pc \in Steps
                          /\ thread[t].pc \notin {"idle", "ensure", "load", "locked", "ended"}
                                => thread[t].pos \in Places(thread[t].op)

\* The tenants of the process share one reranker: its cooldowns and budgets
\* exist once, however many threads find it missing (SharedReranker.ensure).
OneReranker == loads <= 1 /\ (loads = 1 <=> ranker = "loaded")

\* The rolling budget (RequestWindowLimiter._allow_memory): of the calls it
\* admitted, at most requests_per_window are stamped within one window of the
\* latest time it was asked at, although the threads read the clock before
\* they take the lock, entries are appended out of order and popleft only
\* looks at the head.
WindowBudget ==
    \A l \in Limiters :
        Cardinality({i \in DOMAIN stamps[l] : stamps[l][i] > latest[l] - Window[l]}) <= Limit[l]

\* The cooldown is tested before a call and set after it (HostedReranker.
\* compute_score): calls that were past the test still reach a provider that
\* is cooling down, but no thread does so twice in one cooldown, and not all do.
CooldownLeaksOnce ==
    \A p \in Rerankers : until[p] > now =>
        /\ \A t \in Threads : slipped[p][t] <= 1
        /\ \E t \in Threads : slipped[p][t] = 0

\* The state of the providers that every thread relies on.
ProviderInv == TypeOK /\ OneReranker /\ WindowBudget /\ CooldownLeaksOnce

\* What the attempts of a call report as usage is what the providers billed
\* for it: nothing of an earlier call of the same thread (last_usage is
\* thread-local and survives a call), and the answers that were of no use too.
UsageIsWhatWasBilled ==
    \A t \in Threads : thread[t].pc = "ended" =>
        billed[t] = Cardinality({i \in DOMAIN thread[t].attempts :
                                      thread[t].attempts[i].tokens = 1})

==============================================================================
