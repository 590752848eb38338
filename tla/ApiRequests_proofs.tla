------------------------- MODULE ApiRequests_proofs -------------------------
(***************************************************************************)
(* The bucket in Redis keeps its budget for any number of callers, any     *)
(* capacity and costs, and any order in which clock readings reach it, as  *)
(* long as a call is under way for at most Delay and the key outlives the  *)
(* time that fills the bucket by that much.                                *)
(*                                                                         *)
(* The API uses the bucket in no other way than TokenBucket allows, and    *)
(* books and records every answered search once, for any number of         *)
(* requests that fail in any order.                                        *)
(*                                                                         *)
(* The store of sessions evicts in the order of use: a session is given    *)
(* up before its time only when as many others as the store holds were     *)
(* used since.  Without is recursive; what it returns is proved by least   *)
(* counterexample.                                                         *)
(***************************************************************************)
EXTENDS ApiRequests, WellFoundedInduction, FiniteSetTheorems, TLAPS

USE CapacityAssumption, CostsAssumption, TtlAssumption, CooldownAssumption,
    MaxClockAssumption

\* What one run of the script does to the key and to the sum of the charges,
\* for a call whose clock reading is recent.
LEMMA ScriptKeepsBudget ==
    ASSUME NEW c \in Callers, BudgetInv, caller[c].pc = "redis", RunScript(c)
    PROVE  /\ key' \in [exists : BOOLEAN, tokens : Int, updated : Nat, expires : Nat]
           /\ key'.exists /\ key'.tokens <= Capacity
           /\ key'.expires = clock + Ttl
           /\ charged' \in Nat
           /\ charged' + key'.tokens <= Capacity + key'.updated
           /\ charged' <= Capacity + clock
  <1> DEFINE now == caller[c].now
             cost == caller[c].cost
             tokens == Refilled(now)
  <1>1. /\ now \in Nat /\ cost \in Nat /\ clock \in Nat /\ charged \in Nat
        /\ key.tokens \in Int /\ key.updated \in Nat /\ key.expires \in Nat
        /\ key.tokens <= Capacity
    BY DEF BudgetInv, TypeOK
  <1>2. now <= clock /\ clock <= now + Delay
    BY DEF BudgetInv, ReadingsAreRecent
  <1>3. tokens \in Int /\ tokens <= Capacity
    BY <1>1 DEF Refilled, AtMost
  <1>4. charged + tokens <= Capacity + now
    <2>1. CASE key.exists
      <3>1. charged + key.tokens <= Capacity + key.updated
        BY <2>1 DEF BudgetInv, KeyIsCovered
      <3>2. tokens <= key.tokens + (now - key.updated)
        BY <1>1, <2>1 DEF Refilled, AtMost
      <3> HIDE DEF tokens, now
      <3> QED BY <1>1, <1>3, <3>1, <3>2
    <2>2. CASE ~key.exists
      <3>1. charged = 0 \/ charged + Delay <= clock
        BY <2>2 DEF BudgetInv, ExpiryIsCovered
      <3>2. tokens = Capacity
        BY <2>2 DEF Refilled
      <3> HIDE DEF tokens, now
      <3> QED BY <1>1, <1>2, <3>1, <3>2
    <2> QED BY <2>1, <2>2
  <1>5. charged <= Capacity + clock
    BY DEF BudgetInv, RedisKeepsBudget
  <1>6. /\ key' = [exists |-> TRUE,
                   tokens |-> IF tokens >= cost THEN tokens - cost ELSE tokens,
                   updated |-> now, expires |-> clock + Ttl]
        /\ charged' = IF tokens >= cost THEN charged + cost ELSE charged
    BY DEF RunScript
  <1> HIDE DEF tokens, now, cost
  <1> QED BY <1>1, <1>2, <1>3, <1>4, <1>5, <1>6

\* A call that falls back to memory has a fresh reading of the clock.
LEMMA FallBackKeepsReadings ==
    ASSUME NEW c \in Callers, BudgetInv, FallBack(c), UNCHANGED clock
    PROVE  /\ ReadingsAreRecent'
           /\ caller' \in [Callers -> [pc : {"idle", "redis", "memory"}, now : Nat, cost : Nat]]
           /\ link' \in [connected : BOOLEAN, retryAfter : Nat]
  <1>1. /\ clock \in Nat /\ clock' = clock
        /\ caller \in [Callers -> [pc : {"idle", "redis", "memory"}, now : Nat, cost : Nat]]
    BY DEF BudgetInv, TypeOK
  <1>2. caller' = [caller EXCEPT ![c] = [pc |-> "memory", now |-> clock, cost |-> caller[c].cost]]
    BY DEF FallBack
  <1>3. caller' \in [Callers -> [pc : {"idle", "redis", "memory"}, now : Nat, cost : Nat]]
    BY <1>1, <1>2
  <1>4. ReadingsAreRecent'
    BY <1>1, <1>2 DEF BudgetInv, ReadingsAreRecent
  <1>5. link' \in [connected : BOOLEAN, retryAfter : Nat]
    BY <1>1 DEF FallBack
  <1> QED BY <1>3, <1>4, <1>5

\* The buckets start full and unused.
LEMMA InitBudget == Init => BudgetInv
  BY DEF Init, BudgetInv, TypeOK, ReadingsAreRecent, KeyIsCovered, ExpiryIsCovered,
         RedisKeepsBudget, Idle, NoKey

\* Every step of a caller, of time and of the key's expiry preserves BudgetInv.
LEMMA NextBudget == BudgetInv /\ [Next]_vars => BudgetInv'
  <1> SUFFICES ASSUME BudgetInv, [Next]_vars PROVE BudgetInv'
    OBVIOUS
  <1> USE DEF BudgetInv
  <1>1. ASSUME NEW c \in Callers, Ask(c) PROVE BudgetInv'
    BY <1>1 DEF Ask, TypeOK, ReadingsAreRecent, KeyIsCovered, ExpiryIsCovered, RedisKeepsBudget
  <1>2. ASSUME NEW c \in Callers, RedisAnswers(c) PROVE BudgetInv'
    <2>1. caller[c].pc = "redis" /\ RunScript(c)
      BY <1>2 DEF RedisAnswers
    <2> QED BY <1>2, <2>1, ScriptKeepsBudget
            DEF RedisAnswers, TypeOK, ReadingsAreRecent, KeyIsCovered, ExpiryIsCovered,
                RedisKeepsBudget, Idle
  <1>3. ASSUME NEW c \in Callers, RedisFails(c) PROVE BudgetInv'
    <2>1. FallBack(c) /\ UNCHANGED <<clock, key, bucket, charged, granted>>
      BY <1>3 DEF RedisFails
    <2> QED BY <2>1, FallBackKeepsReadings
            DEF TypeOK, KeyIsCovered, ExpiryIsCovered, RedisKeepsBudget
  <1>4. ASSUME NEW c \in Callers, RedisAnswerLost(c) PROVE BudgetInv'
    <2>1. /\ caller[c].pc = "redis" /\ RunScript(c) /\ FallBack(c)
          /\ UNCHANGED <<clock, bucket, granted>>
      BY <1>4 DEF RedisAnswerLost
    <2> QED BY <2>1, ScriptKeepsBudget, FallBackKeepsReadings
            DEF TypeOK, KeyIsCovered, ExpiryIsCovered, RedisKeepsBudget
  <1>5. ASSUME NEW c \in Callers, MemoryDecides(c) PROVE BudgetInv'
    <2>1. bucket' \in [tokens : 0 .. Capacity, updated : Nat] /\ granted' \in Nat
      BY <1>5 DEF MemoryDecides, TypeOK, AtMost
    <2> QED BY <1>5, <2>1 DEF MemoryDecides, TypeOK, ReadingsAreRecent, KeyIsCovered,
                              ExpiryIsCovered, RedisKeepsBudget, Idle
  <1>6. ASSUME Expire PROVE BudgetInv'
    BY <1>6 DEF Expire, NoKey, TypeOK, ReadingsAreRecent, KeyIsCovered, ExpiryIsCovered,
                RedisKeepsBudget
  <1>7. ASSUME Tick PROVE BudgetInv'
    BY <1>7 DEF Tick, TypeOK, ReadingsAreRecent, KeyIsCovered, ExpiryIsCovered,
                RedisKeepsBudget
  <1>8. ASSUME UNCHANGED vars PROVE BudgetInv'
    BY <1>8 DEF vars, TypeOK, ReadingsAreRecent, KeyIsCovered, ExpiryIsCovered,
                RedisKeepsBudget
  <1> QED BY <1>1, <1>2, <1>3, <1>4, <1>5, <1>6, <1>7, <1>8 DEF Next

\* BudgetInv is an invariant of the specification.
THEOREM BudgetInvariance == Spec => []BudgetInv
  BY InitBudget, NextBudget, PTL DEF Spec

\* The bucket in Redis never hands out more than a full bucket and the refill
\* of the time that has passed (TOKEN_BUCKET_SCRIPT).
THEOREM RedisBudgetKept == Spec => []RedisKeepsBudget
  <1>1. BudgetInv => RedisKeepsBudget
    BY DEF BudgetInv
  <1> QED BY <1>1, BudgetInvariance, PTL

-----------------------------------------------------------------------------
(* The API as a user of the bucket. *)

\* Of what TokenBucket keeps, a request changes nothing but by asking and by
\* taking the decision.
LEMMA ApiStepsBucket == [ApiNext]_allVars => [Next]_vars
  <1> SUFFICES ASSUME [ApiNext]_allVars PROVE Next \/ UNCHANGED vars
    OBVIOUS
  <1>1. CASE UNCHANGED allVars \/ Readiness \/ ReplaceService
    BY <1>1 DEF allVars, Readiness, ReplaceService
  <1>2. CASE LimiterStep
    BY <1>2 DEF LimiterStep, Next
  <1>3. ASSUME NEW c \in Callers, Receive(c) \/ LimitByRedis(c) \/ LimitByMemory(c)
        PROVE  Next
    BY <1>3 DEF Receive, LimitByRedis, LimitByMemory, Next
  <1>4. ASSUME NEW c \in Callers, CallerStep(c),
               ~(Receive(c) \/ LimitByRedis(c) \/ LimitByMemory(c))
        PROVE  UNCHANGED vars
    BY <1>4 DEF CallerStep, Refuse, EngineSearch, EngineRaises, RecordRow, RecordRowRaises,
                CreateSession, Respond, PageUnknown, PageExpired, PageForeign, PageServed,
                ReceiveOther
  <1> QED BY <1>1, <1>2, <1>3, <1>4 DEF ApiNext

\* resolve_service, allow and the requests around them: every behaviour of the
\* API is one of the bucket.
THEOREM ApiUsesBucket == ApiSpec => Spec
  <1>1. ApiInit => Init
    BY DEF ApiInit
  <1> QED BY <1>1, ApiStepsBucket, PTL DEF ApiSpec, Spec

\* The budget holds for the requests of the API as well.
THEOREM ApiBudgetKept == ApiSpec => []RedisKeepsBudget
  BY ApiUsesBucket, RedisBudgetKept, PTL

-----------------------------------------------------------------------------
(* Booked and recorded once. *)

\* A search is under way from its number to its answer.
UnderWay(c) == request[c].pc \in {"search", "usage", "record"}

\* The companies that requests come from.
Who == Accepted \cup {Company, None}

\* What the books are made of.
BookTypes ==
    /\ request \in [Callers -> [pc : {"none", "limit", "search", "usage", "record", "page"},
                                company : Who, search : Nat, offset : Nat, rows : Nat]]
    /\ searches \in Nat
    /\ cursors \in SUBSET (Nat \X Nat)
    /\ session \in [Searches -> [items : Nat, rows : Nat, expires : Nat, company : Who]]
    /\ ledger \in [open : BOOLEAN, pending : [Searches -> Nat], rows : [Searches -> Nat]]
    /\ events \in [Searches -> Seq({"success", "failure"})]
    /\ answer \in [Searches -> {"none", "page", "error"}]

\* A search has one caller, and a number that was given out.
OneServes ==
    /\ \A c \in Callers : UnderWay(c) => request[c].search <= searches
    /\ \A c, d \in Callers :
         UnderWay(c) /\ UnderWay(d) /\ request[c].search = request[d].search => c = d

\* Nothing is known of a search that has not begun.
NewIsUnknown ==
    \A s \in Searches : s > searches =>
        /\ answer[s] = "none"
        /\ ledger.rows[s] = 0 /\ ledger.pending[s] = 0 /\ session[s].rows = 0

\* A search under way has no answer and nothing in an open transaction; its rows
\* are in the table or still to be written.
RowsOnTheirWay ==
    \A c \in Callers, s \in Searches : UnderWay(c) /\ request[c].search = s =>
        /\ answer[s] = "none" /\ ledger.pending[s] = 0
        /\ request[c].pc = "search" => ledger.rows[s] = 0 /\ session[s].rows = 0
        /\ request[c].pc = "usage" => ledger.rows[s] + request[c].rows = session[s].rows
        /\ request[c].pc = "record" => ledger.rows[s] = session[s].rows

\* What the open transaction may still add is the search's own.
NothingTwice ==
    \A s \in Searches :
        /\ ledger.rows[s] + ledger.pending[s] <= session[s].rows
        /\ answer[s] = "page" => ledger.rows[s] = session[s].rows

\* The event goes with the answer.
EventsMatch ==
    \A s \in Searches :
        events[s] = IF answer[s] = "none" THEN <<>>
                    ELSE <<IF answer[s] = "page" THEN "success" ELSE "failure">>

\* The inductive invariant of the API's books.
BooksInv ==
    /\ BookTypes
    /\ OneServes
    /\ NewIsUnknown
    /\ RowsOnTheirWay
    /\ NothingTwice
    /\ EventsMatch

\* It contains what the run checks.
LEMMA BooksImply == BooksInv => AnsweredIsAccountedFor
  <1> SUFFICES ASSUME BooksInv, NEW s \in Searches
               PROVE  /\ answer[s] = "page" => ledger.rows[s] = session[s].rows
                      /\ ledger.rows[s] <= session[s].rows
                      /\ answer[s] # "none" =>
                           events[s] = <<IF answer[s] = "page" THEN "success" ELSE "failure">>
                      /\ Len(events[s]) <= 1
    BY DEF AnsweredIsAccountedFor, ServedIsBooked, RecordedOnce
  <1>1. ledger.rows[s] \in Nat /\ ledger.pending[s] \in Nat /\ session[s].rows \in Nat
    BY DEF BooksInv, BookTypes
  <1>2. ledger.rows[s] <= session[s].rows
    BY <1>1 DEF BooksInv, NothingTwice
  <1>3. Len(events[s]) <= 1
    <2>1. events[s] = <<>> \/ events[s] = <<"success">> \/ events[s] = <<"failure">>
      BY DEF BooksInv, EventsMatch
    <2>2. Len(<<>>) = 0
      OBVIOUS
    <2>3. Len(<<"success">>) = 1 /\ Len(<<"failure">>) = 1
      OBVIOUS
    <2>4. PICK n \in Nat : n = Len(events[s]) /\ (n = 0 \/ n = 1)
      BY <2>1, <2>2, <2>3
    <2>5. n <= 1
      BY <2>4
    <2> QED BY <2>4, <2>5, Zenon
  <1> QED BY <1>2, <1>3 DEF BooksInv, NothingTwice, EventsMatch

\* At first there is no search.
LEMMA InitBooks == ApiInit => BooksInv
  <1> SUFFICES ASSUME ApiInit PROVE BooksInv
    OBVIOUS
  <1> USE DEF ApiInit
  <1>1. BookTypes
    BY MaxRequestsAssumption DEF BookTypes, NoRequest, NoSession, NoRows, Searches, Who
  <1>2. \A c \in Callers : ~UnderWay(c)
    BY DEF UnderWay, NoRequest
  <1>3. NewIsUnknown /\ NothingTwice /\ EventsMatch
    BY DEF NewIsUnknown, NothingTwice, EventsMatch, NoRows, NoSession
  <1> QED BY <1>1, <1>2, <1>3 DEF BooksInv, OneServes, RowsOnTheirWay

\* A step that leaves the books alone and lets a caller go on with something
\* that is no search under way.
LEMMA OutsideKeeps ==
    ASSUME BooksInv, BookTypes', UNCHANGED <<searches, ledger, events, answer>>,
           \A s \in Searches : session'[s].rows = session[s].rows,
           \A c \in Callers : request'[c] = request[c] \/ ~UnderWay(c)'
    PROVE  BooksInv'
  <1>1. \A c \in Callers : UnderWay(c)' => UnderWay(c) /\ request'[c] = request[c]
    BY DEF UnderWay
  <1>2. OneServes'
    BY <1>1 DEF BooksInv, OneServes
  <1>3. RowsOnTheirWay'
    BY <1>1 DEF BooksInv, RowsOnTheirWay
  <1>4. NewIsUnknown' /\ NothingTwice' /\ EventsMatch'
    BY DEF BooksInv, NewIsUnknown, NothingTwice, EventsMatch
  <1> QED BY <1>2, <1>3, <1>4 DEF BooksInv

\* Requests that are refused, pages, the readiness probe, and the session of a
\* search keep the books.
LEMMA QuietKeeps ==
    ASSUME BooksInv, clock \in Nat, NEW c \in Callers,
           Refuse(c) \/ Receive(c) \/ PageUnknown(c) \/ PageExpired(c) \/ PageForeign(c)
             \/ PageServed(c)
    PROVE  BooksInv'
  <1>1. BookTypes
    BY DEF BooksInv
  <1>2. UNCHANGED <<searches, session, ledger, events, answer>>
    BY DEF Refuse, Receive, PageUnknown, PageExpired, PageForeign, PageServed
  <1>3. /\ request' \in [Callers -> [pc : {"none", "limit", "search", "usage", "record", "page"},
                                     company : Who, search : Nat, offset : Nat, rows : Nat]]
        /\ \A d \in Callers : request'[d] = request[d] \/ ~UnderWay(d)'
    <2>1. PICK r \in [pc : {"none", "limit"}, company : Who, search : Nat, offset : Nat, rows : Nat] :
            request' = request \/ request' = [request EXCEPT ![c] = r]
      <3>1. CASE Receive(c)
        <4>1. PICK x \in cursors \cup {<<0, 0>>, <<0, 1>>} :
                Step(c, [NoRequest EXCEPT !.pc = "limit", !.company = Company,
                                          !.search = x[1], !.offset = x[2]])
          BY <3>1 DEF Receive, Carried
        <4>2. x[1] \in Nat /\ x[2] \in Nat
          BY <1>1 DEF BookTypes
        <4>3. [NoRequest EXCEPT !.pc = "limit", !.company = Company, !.search = x[1],
                                !.offset = x[2]]
                \in [pc : {"none", "limit"}, company : Who, search : Nat, offset : Nat, rows : Nat]
          BY <4>2 DEF NoRequest, Who
        <4> QED BY <4>1, <4>3 DEF Step
      <3>2. CASE ~Receive(c)
        <4>1. NoRequest \in [pc : {"none", "limit"}, company : Who, search : Nat, offset : Nat,
                             rows : Nat]
          BY DEF NoRequest, Who
        <4>2. request' = request \/ request' = [request EXCEPT ![c] = NoRequest]
          BY <3>2 DEF Refuse, PageUnknown, PageExpired, PageForeign, PageServed, Found, Step
        <4> QED BY <4>1, <4>2
      <3> QED BY <3>1, <3>2
    <2>2. r \in [pc : {"none", "limit", "search", "usage", "record", "page"},
                company : Who, search : Nat, offset : Nat, rows : Nat]
      OBVIOUS
    <2>3. r.pc \notin {"search", "usage", "record"}
      OBVIOUS
    <2>4. CASE request' = request
      BY <1>1, <2>4 DEF BookTypes
    <2>5. CASE request' = [request EXCEPT ![c] = r]
      <3>1. request' \in [Callers -> [pc : {"none", "limit", "search", "usage", "record", "page"},
                                      company : Who, search : Nat, offset : Nat, rows : Nat]]
        BY <1>1, <2>2, <2>5 DEF BookTypes
      <3>2. \A d \in Callers : request'[d] = IF d = c THEN r ELSE request[d]
        BY <1>1, <2>5 DEF BookTypes
      <3> QED BY <2>3, <3>1, <3>2 DEF UnderWay
    <2> QED BY <2>1, <2>4, <2>5
  <1>4. cursors' \in SUBSET (Nat \X Nat)
    <2>1. CASE ~PageServed(c)
      BY <1>1, <2>1 DEF BookTypes, Refuse, Receive, PageUnknown, PageExpired, PageForeign
    <2>2. CASE PageServed(c)
      <3>1. cursors' = cursors \cup NextCursor(request[c].search, request[c].offset)
        BY <2>2 DEF PageServed, Show
      <3>2. request[c].search \in Nat /\ request[c].offset \in Nat
        BY <1>1 DEF BookTypes
      <3> QED BY <1>1, <3>1, <3>2, SessionsAssumption DEF BookTypes, NextCursor
    <2> QED BY <2>1, <2>2
  <1>5. BookTypes'
    BY <1>1, <1>2, <1>3, <1>4 DEF BookTypes
  <1> QED BY <1>2, <1>3, <1>5, OutsideKeeps

\* The steps of the bucket that decide nothing, and a new service.
LEMMA AroundKeeps ==
    ASSUME BooksInv, LimiterStep \/ ReplaceService \/ UNCHANGED allVars
    PROVE  BooksInv'
  <1>1. UNCHANGED <<request, searches, session, cursors, ledger, events, answer>>
    BY DEF LimiterStep, ReplaceService, allVars, apiVars
  <1>2. BookTypes'
    BY <1>1 DEF BooksInv, BookTypes
  <1> QED BY <1>1, <1>2, OutsideKeeps

\* The rollback of the probe takes rows only of searches that have failed.
LEMMA ReadinessKeeps ==
    ASSUME BooksInv, Readiness
    PROVE  BooksInv'
  <1>1. /\ UNCHANGED <<request, searches, session, cursors, events, answer>>
        /\ ledger' = [ledger EXCEPT !.open = FALSE, !.pending = NoRows]
    BY DEF Readiness
  <1>2. /\ ledger' \in [open : BOOLEAN, pending : [Searches -> Nat], rows : [Searches -> Nat]]
        /\ ledger'.rows = ledger.rows
        /\ \A s \in Searches : ledger'.pending[s] = 0
    BY <1>1 DEF BooksInv, BookTypes, NoRows
  <1>3. BookTypes'
    BY <1>1, <1>2 DEF BooksInv, BookTypes
  <1>4. NothingTwice'
    <2> SUFFICES ASSUME NEW s \in Searches
                 PROVE  /\ ledger.rows[s] + 0 <= session[s].rows
                        /\ answer[s] = "page" => ledger.rows[s] = session[s].rows
      BY <1>1, <1>2 DEF NothingTwice
    <2>1. ledger.rows[s] \in Nat /\ ledger.pending[s] \in Nat /\ session[s].rows \in Nat
      BY DEF BooksInv, BookTypes
    <2> QED BY <2>1 DEF BooksInv, NothingTwice
  <1>5. OneServes' /\ NewIsUnknown' /\ RowsOnTheirWay' /\ EventsMatch'
    BY <1>1, <1>2 DEF BooksInv, OneServes, NewIsUnknown, RowsOnTheirWay, EventsMatch, UnderWay
  <1> QED BY <1>3, <1>4, <1>5 DEF BooksInv

\* A request that goes on is a search or a page.
LEMMA BeginsWith ==
    ASSUME NEW c \in Callers,
           NEW q \in [pc : {"none", "limit", "search", "usage", "record", "page"},
                      company : Who, search : Nat, offset : Nat, rows : Nat],
           Begin(c, q)
    PROVE  \E r : /\ request' = [request EXCEPT ![c] = r]
                  /\ \/ r.pc = "page" /\ UNCHANGED searches
                     \/ r.pc = "search" /\ r.search = searches + 1 /\ searches' = searches + 1
  <1>1. [q EXCEPT !.pc = "page"].pc = "page"
    OBVIOUS
  <1>2. \A x : [q EXCEPT !.pc = "search", !.search = x].pc = "search"
               /\ [q EXCEPT !.pc = "search", !.search = x].search = x
    OBVIOUS
  <1> QED BY <1>1, <1>2 DEF Begin, Step

\* Another tenant's request can be begun with.
LEMMA OtherIsRequest ==
    ASSUME BooksInv, NEW company \in Accepted, NEW x \in Carried
    PROVE  [NoRequest EXCEPT !.company = company, !.search = x[1], !.offset = x[2]]
             \in [pc : {"none", "limit", "search", "usage", "record", "page"},
                  company : Who, search : Nat, offset : Nat, rows : Nat]
  <1>1. x[1] \in Nat /\ x[2] \in Nat
    BY DEF BooksInv, BookTypes, Carried
  <1> QED BY <1>1 DEF NoRequest, Who

\* A request that goes on begins a search, which gets the next number, or reads a page.
LEMMA BeginKeeps ==
    ASSUME BooksInv, NEW c \in Callers,
           NEW q \in [pc : {"none", "limit", "search", "usage", "record", "page"},
                      company : Who, search : Nat, offset : Nat, rows : Nat],
           (Step(c, NoRequest) /\ UNCHANGED searches) \/ Begin(c, q),
           UNCHANGED <<session, cursors, ledger, events, answer>>
    PROVE  BooksInv'
  <1>1. BookTypes
    BY DEF BooksInv
  <1>2. UNCHANGED <<session, cursors, ledger, events, answer>>
    OBVIOUS
  <1>3. CASE UNCHANGED searches
    <2>1. PICK r \in [pc : {"none", "page"}, company : Who, search : Nat, offset : Nat,
                      rows : Nat] :
            request' = [request EXCEPT ![c] = r]
      <3>1. /\ NoRequest \in [pc : {"none", "page"}, company : Who, search : Nat, offset : Nat,
                              rows : Nat]
            /\ [q EXCEPT !.pc = "page"]
                 \in [pc : {"none", "page"}, company : Who, search : Nat, offset : Nat, rows : Nat]
        BY DEF NoRequest, Who
      <3>2. searches \in Nat
        BY <1>1 DEF BookTypes
      <3>3. Step(c, NoRequest) \/ Step(c, [q EXCEPT !.pc = "page"])
        BY <1>3, <3>2 DEF Begin
      <3> QED BY <3>1, <3>3 DEF Step
    <2>2. r.pc \notin {"search", "usage", "record"}
      OBVIOUS
    <2>3. \A d \in Callers : request'[d] = IF d = c THEN r ELSE request[d]
      BY <1>1, <2>1 DEF BookTypes
    <2>4. BookTypes'
      BY <1>1, <1>2, <1>3, <2>1 DEF BookTypes
    <2>5. \A d \in Callers : request'[d] = request[d] \/ ~UnderWay(d)'
      BY <2>2, <2>3 DEF UnderWay
    <2> QED BY <1>2, <1>3, <2>4, <2>5, OutsideKeeps
  <1>4. CASE searches' = searches + 1 /\ Step(c, [q EXCEPT !.pc = "search", !.search = searches + 1])
    <2>1. PICK r \in [pc : {"search"}, company : Who, search : Nat, offset : Nat, rows : Nat] :
            r.search = searches + 1 /\ request' = [request EXCEPT ![c] = r]
      <3>0. PICK m \in Nat : m = searches + 1
        BY <1>1 DEF BookTypes
      <3>2. [q EXCEPT !.pc = "search", !.search = m]
              \in [pc : {"search"}, company : Who, search : Nat, offset : Nat, rows : Nat]
        OBVIOUS
      <3>3. [q EXCEPT !.pc = "search", !.search = m].search = m
        OBVIOUS
      <3> QED BY <1>4, <3>0, <3>2, <3>3 DEF Step
    <2>2. BookTypes'
      BY <1>1, <1>2, <1>4, <2>1 DEF BookTypes
    <2>3. /\ request'[c] = r /\ r.pc = "search"
          /\ \A d \in Callers : d # c => request'[d] = request[d]
      BY <1>1, <2>1 DEF BookTypes
    <2>4. \A d \in Callers : d # c /\ UnderWay(d)' =>
            UnderWay(d) /\ request'[d] = request[d] /\ request[d].search <= searches
      BY <2>3 DEF UnderWay, BooksInv, OneServes
    <2>5. \A d \in Callers : request[d].search \in Nat
      BY <1>1 DEF BookTypes
    <2>10. PICK n \in Nat : n = searches
      BY <1>1 DEF BookTypes
    <2>11. \A d \in Callers : d # c /\ UnderWay(d)' =>
             request'[d].search <= searches' /\ request'[d].search # r.search
      BY <1>4, <2>1, <2>4, <2>5, <2>10
    <2>6. OneServes'
      <3>1. \A d \in Callers : UnderWay(d)' => request'[d].search <= searches'
        BY <1>4, <2>1, <2>3, <2>10, <2>11
      <3>2. ASSUME NEW d \in Callers, NEW e \in Callers, UnderWay(d)', UnderWay(e)',
                   request'[d].search = request'[e].search
            PROVE  d = e
        <4>1. CASE d = c \/ e = c
          BY <2>3, <2>11, <3>2, <4>1
        <4>2. CASE d # c /\ e # c
          BY <2>4, <3>2, <4>2 DEF BooksInv, OneServes
        <4> QED BY <4>1, <4>2
      <3> QED BY <3>1, <3>2 DEF OneServes
    <2>7. NewIsUnknown'
      <3>1. \A s \in Searches : s > searches' => s > searches
        BY <1>4, <2>10, MaxRequestsAssumption DEF Searches
      <3> QED BY <1>2, <3>1 DEF NewIsUnknown, BooksInv
    <2>8. RowsOnTheirWay'
      <3> SUFFICES ASSUME NEW d \in Callers, NEW s \in Searches, UnderWay(d)',
                          request'[d].search = s
                   PROVE  /\ answer[s] = "none" /\ ledger.pending[s] = 0
                          /\ request'[d].pc = "search" => ledger.rows[s] = 0 /\ session[s].rows = 0
                          /\ request'[d].pc = "usage" =>
                               ledger.rows[s] + request'[d].rows = session[s].rows
                          /\ request'[d].pc = "record" => ledger.rows[s] = session[s].rows
        BY <1>2 DEF RowsOnTheirWay
      <3>1. CASE d = c
        <4>1. s > searches
          BY <2>1, <2>3, <2>10, <3>1
        <4> QED BY <2>1, <2>3, <3>1, <4>1 DEF BooksInv, NewIsUnknown
      <3>2. CASE d # c
        BY <2>4, <3>2 DEF BooksInv, RowsOnTheirWay
      <3> QED BY <3>1, <3>2
    <2>9. NothingTwice' /\ EventsMatch'
      BY <1>2 DEF BooksInv, NothingTwice, EventsMatch
    <2> QED BY <2>2, <2>6, <2>7, <2>8, <2>9 DEF BooksInv
  <1> QED BY <1>3, <1>4 DEF Begin

\* What the bucket decides for a request of the tenant, or its own bucket for one of
\* another tenant.
LEMMA DecidedKeeps ==
    ASSUME BooksInv, NEW c \in Callers, NEW allowed, Decided(c, allowed)
    PROVE  BooksInv'
  <1>1. request[c] \in [pc : {"none", "limit", "search", "usage", "record", "page"},
                        company : Who, search : Nat, offset : Nat, rows : Nat]
    BY DEF BooksInv, BookTypes
  <1> QED BY <1>1, BeginKeeps DEF Decided

\* A request of another tenant (ReceiveOther) leaves the books of all requests as they are.
LEMMA OtherKeeps ==
    ASSUME BooksInv, NEW c \in Callers, ReceiveOther(c)
    PROVE  BooksInv'
  <1>1. PICK company \in Accepted, x \in Carried :
          Begin(c, [NoRequest EXCEPT !.company = company, !.search = x[1], !.offset = x[2]])
    BY DEF ReceiveOther
  <1> QED BY <1>1, OtherIsRequest, BeginKeeps DEF ReceiveOther

\* A step of the caller that serves a search: it writes the books of that search
\* and, of any other, at most commits what the open transaction holds.
LEMMA ServingKeeps ==
    ASSUME BooksInv, BookTypes', NEW c \in Callers, UnderWay(c), UNCHANGED searches,
           \A d \in Callers : d # c => request'[d] = request[d],
           UnderWay(c)' => request'[c].search = request[c].search,
           \A t \in Searches : t # request[c].search =>
               /\ session'[t].rows = session[t].rows
               /\ answer'[t] = answer[t] /\ events'[t] = events[t]
               /\ \/ ledger'.pending[t] = ledger.pending[t] /\ ledger'.rows[t] = ledger.rows[t]
                  \/ /\ ledger'.pending[t] = 0
                     /\ ledger'.rows[t] = ledger.rows[t] + ledger.pending[t],
           \A t \in Searches : t = request[c].search =>
               /\ UnderWay(c)' =>
                    /\ answer'[t] = "none" /\ ledger'.pending[t] = 0
                    /\ request'[c].pc = "search" => ledger'.rows[t] = 0 /\ session'[t].rows = 0
                    /\ request'[c].pc = "usage" =>
                         ledger'.rows[t] + request'[c].rows = session'[t].rows
                    /\ request'[c].pc = "record" => ledger'.rows[t] = session'[t].rows
               /\ ledger'.rows[t] + ledger'.pending[t] <= session'[t].rows
               /\ answer'[t] = "page" => ledger'.rows[t] = session'[t].rows
               /\ events'[t] = IF answer'[t] = "none" THEN <<>>
                               ELSE <<IF answer'[t] = "page" THEN "success" ELSE "failure">>
    PROVE  BooksInv'
  <1>1. \A d \in Callers : UnderWay(d)' =>
          UnderWay(d) /\ request'[d].search = request[d].search
    BY DEF UnderWay
  <1>2. OneServes'
    BY <1>1 DEF BooksInv, OneServes
  <1>3. \A t \in Searches : /\ ledger.rows[t] \in Nat /\ ledger.pending[t] \in Nat
                            /\ session[t].rows \in Nat
    BY DEF BooksInv, BookTypes
  <1>4. request[c].search <= searches /\ request[c].search \in Nat /\ searches \in Nat
    BY DEF BooksInv, BookTypes, OneServes
  <1>5. NewIsUnknown'
    <2> SUFFICES ASSUME NEW t \in Searches, t > searches
                 PROVE  /\ answer'[t] = "none"
                        /\ ledger'.rows[t] = 0 /\ ledger'.pending[t] = 0 /\ session'[t].rows = 0
      BY DEF NewIsUnknown
    <2>1. t # request[c].search
      BY <1>4, MaxRequestsAssumption DEF Searches
    <2>2. /\ answer[t] = "none"
          /\ ledger.rows[t] = 0 /\ ledger.pending[t] = 0 /\ session[t].rows = 0
      BY DEF BooksInv, NewIsUnknown
    <2> QED BY <2>1, <2>2
  <1>6. RowsOnTheirWay'
    <2> SUFFICES ASSUME NEW d \in Callers, NEW t \in Searches, UnderWay(d)',
                        request'[d].search = t
                 PROVE  /\ answer'[t] = "none" /\ ledger'.pending[t] = 0
                        /\ request'[d].pc = "search" => ledger'.rows[t] = 0 /\ session'[t].rows = 0
                        /\ request'[d].pc = "usage" =>
                             ledger'.rows[t] + request'[d].rows = session'[t].rows
                        /\ request'[d].pc = "record" => ledger'.rows[t] = session'[t].rows
      BY DEF RowsOnTheirWay
    <2>1. CASE d = c
      BY <2>1
    <2>2. CASE d # c
      <3>1. UnderWay(d) /\ request[d].search = t /\ request'[d] = request[d]
        BY <1>1, <2>2
      <3>2. t # request[c].search
        BY <2>2, <3>1 DEF BooksInv, OneServes
      <3>3. ledger.pending[t] = 0
        BY <3>1 DEF BooksInv, RowsOnTheirWay
      <3>4. ledger'.pending[t] = 0 /\ ledger'.rows[t] = ledger.rows[t]
        BY <1>3, <3>2, <3>3
      <3> QED BY <3>1, <3>2, <3>4 DEF BooksInv, RowsOnTheirWay
    <2> QED BY <2>1, <2>2
  <1>7. NothingTwice' /\ EventsMatch'
    <2> SUFFICES ASSUME NEW t \in Searches
                 PROVE  /\ ledger'.rows[t] + ledger'.pending[t] <= session'[t].rows
                        /\ answer'[t] = "page" => ledger'.rows[t] = session'[t].rows
                        /\ events'[t] = IF answer'[t] = "none" THEN <<>>
                                        ELSE <<IF answer'[t] = "page" THEN "success"
                                               ELSE "failure">>
      BY DEF NothingTwice, EventsMatch
    <2>1. CASE t = request[c].search
      BY <2>1
    <2>2. CASE t # request[c].search
      <3>1. /\ ledger.rows[t] + ledger.pending[t] <= session[t].rows
            /\ answer[t] = "page" => ledger.rows[t] = session[t].rows
            /\ events[t] = IF answer[t] = "none" THEN <<>>
                           ELSE <<IF answer[t] = "page" THEN "success" ELSE "failure">>
        BY DEF BooksInv, NothingTwice, EventsMatch
      <3>2. PICK x \in Nat, y \in Nat, z \in Nat :
              x = ledger.rows[t] /\ y = ledger.pending[t] /\ z = session[t].rows
        BY <1>3
      <3>3. /\ ledger'.rows[t] + ledger'.pending[t] <= session'[t].rows
            /\ answer'[t] = "page" => ledger'.rows[t] = session'[t].rows
        BY <2>2, <3>1, <3>2
      <3> QED BY <2>2, <3>1, <3>3
    <2> QED BY <2>1, <2>2
  <1> QED BY <1>2, <1>5, <1>6, <1>7 DEF BooksInv

\* The engine's search fixes the rows that are to be written.
LEMMA EngineKeeps ==
    ASSUME BooksInv, NEW c \in Callers, EngineSearch(c)
    PROVE  BooksInv'
  <1>1. BookTypes /\ UnderWay(c) /\ request[c].pc = "search"
    BY DEF BooksInv, EngineSearch, UnderWay
  <1>2. PICK n \in ItemCounts, k \in ModelCalls :
          /\ Step(c, [request[c] EXCEPT !.pc = "usage", !.rows = 1 + k])
          /\ session' = [session EXCEPT ![request[c].search] =
                          [items |-> n, rows |-> 1 + k, expires |-> 0, company |-> request[c].company]]
    BY DEF EngineSearch
  <1>3. UNCHANGED <<searches, cursors, ledger, events, answer>>
    BY DEF EngineSearch
  <1>4. PICK m \in Nat : m = 1 + k
    BY CountsAssumption
  <1>5. PICK r \in [pc : {"usage"}, company : Who, search : Nat, offset : Nat, rows : Nat] :
          /\ request' = [request EXCEPT ![c] = r]
          /\ r.rows = m /\ r.search = request[c].search /\ r.pc = "usage"
    <2>0. request[c] \in [pc : {"none", "limit", "search", "usage", "record", "page"},
                          company : Who, search : Nat, offset : Nat, rows : Nat]
      BY <1>1 DEF BookTypes
    <2>1. [request[c] EXCEPT !.pc = "usage", !.rows = m]
            \in [pc : {"usage"}, company : Who, search : Nat, offset : Nat, rows : Nat]
      BY <2>0
    <2>2. /\ [request[c] EXCEPT !.pc = "usage", !.rows = m].rows = m
          /\ [request[c] EXCEPT !.pc = "usage", !.rows = m].search = request[c].search
          /\ [request[c] EXCEPT !.pc = "usage", !.rows = m].pc = "usage"
      BY <1>1 DEF BookTypes
    <2> QED BY <1>2, <1>4, <2>1, <2>2 DEF Step
  <1>6. PICK e \in [items : Nat, rows : Nat, expires : Nat, company : Who] :
          e.rows = m /\ session' = [session EXCEPT ![request[c].search] = e]
    <2>1. request[c].company \in Who /\ n \in Nat
      BY <1>1, CountsAssumption DEF BookTypes
    <2>2. [items |-> n, rows |-> m, expires |-> 0, company |-> request[c].company]
            \in [items : Nat, rows : Nat, expires : Nat, company : Who]
      BY <2>1
    <2> QED BY <1>2, <1>4, <2>2
  <1>7. BookTypes'
    BY <1>1, <1>3, <1>5, <1>6 DEF BookTypes
  <1>8. /\ request'[c] = r
        /\ \A d \in Callers : d # c => request'[d] = request[d]
    BY <1>1, <1>5 DEF BookTypes
  <1>9. \A t \in Searches :
          session'[t] = IF t = request[c].search THEN e ELSE session[t]
    BY <1>1, <1>6 DEF BookTypes
  <1>10. ASSUME NEW t \in Searches, t = request[c].search
         PROVE  /\ answer[t] = "none" /\ ledger.pending[t] = 0 /\ ledger.rows[t] = 0
                /\ events[t] = <<>>
    BY <1>1, <1>10 DEF BooksInv, RowsOnTheirWay, EventsMatch
  <1>11. ASSUME NEW t \in Searches, t = request[c].search
         PROVE  /\ UnderWay(c)' =>
                    /\ answer'[t] = "none" /\ ledger'.pending[t] = 0
                    /\ request'[c].pc = "search" => ledger'.rows[t] = 0 /\ session'[t].rows = 0
                    /\ request'[c].pc = "usage" =>
                         ledger'.rows[t] + request'[c].rows = session'[t].rows
                    /\ request'[c].pc = "record" => ledger'.rows[t] = session'[t].rows
                /\ ledger'.rows[t] + ledger'.pending[t] <= session'[t].rows
                /\ answer'[t] = "page" => ledger'.rows[t] = session'[t].rows
                /\ events'[t] = IF answer'[t] = "none" THEN <<>>
                                ELSE <<IF answer'[t] = "page" THEN "success" ELSE "failure">>
    BY <1>3, <1>5, <1>6, <1>8, <1>9, <1>10, <1>11
  <1>12. \A t \in Searches : t # request[c].search => session'[t].rows = session[t].rows
    BY <1>9
  <1>13. UnderWay(c)' => request'[c].search = request[c].search
    BY <1>5, <1>8
  <1> QED BY <1>1, <1>3, <1>7, <1>8, <1>11, <1>12, <1>13, ServingKeeps

\* The row that is added is the search's own.
LEMMA UpsertAdds ==
    ASSUME BookTypes, NEW s
    PROVE  /\ Upsert(s) \in [Searches -> Nat]
           /\ \A t \in Searches :
                Upsert(s)[t] = IF t = s THEN ledger.pending[t] + 1 ELSE ledger.pending[t]
  <1>1. PICK p \in [Searches -> Nat] : p = ledger.pending
    BY DEF BookTypes
  <1>2. \A t \in Searches : p[t] \in Nat /\ p[t] + 1 \in Nat
    OBVIOUS
  <1>3. [p EXCEPT ![s] = p[s] + 1] = [t \in Searches |-> IF t = s THEN p[t] + 1 ELSE p[t]]
    OBVIOUS
  <1>4. Upsert(s) = [t \in Searches |-> IF t = s THEN p[t] + 1 ELSE p[t]]
    BY <1>1, <1>3 DEF Upsert
  <1>5. [t \in Searches |-> IF t = s THEN p[t] + 1 ELSE p[t]] \in [Searches -> Nat]
    BY <1>2
  <1> QED BY <1>1, <1>4, <1>5

\* An event appended to those of a search.
LEMMA EventIsAdded ==
    ASSUME NEW e \in [Searches -> Seq({"success", "failure"})], NEW s,
           NEW x \in {"success", "failure"}
    PROVE  [e EXCEPT ![s] = Append(@, x)] \in [Searches -> Seq({"success", "failure"})]
  <1>1. \A q \in Seq({"success", "failure"}) : Append(q, x) \in Seq({"success", "failure"})
    OBVIOUS
  <1>2. \A t \in Searches : Append(e[t], x) \in Seq({"success", "failure"})
    BY <1>1
  <1>3. [e EXCEPT ![s] = Append(@, x)]
          = [t \in Searches |-> IF t = s THEN Append(e[t], x) ELSE e[t]]
    OBVIOUS
  <1> QED BY <1>2, <1>3

\* The first event of a search.
LEMMA FirstEvent ==
    Append(<<>>, "failure") = <<"failure">> /\ Append(<<>>, "success") = <<"success">>
  OBVIOUS

\* A search that fails leaves its event, and at most one more row in the open
\* transaction: one it had still to write.
LEMMA FailKeeps ==
    ASSUME BooksInv, NEW c \in Callers, EngineRaises(c) \/ RecordRowRaises(c)
    PROVE  BooksInv'
  <1> DEFINE s == request[c].search
  <1>1. BookTypes /\ UnderWay(c)
    BY DEF BooksInv, EngineRaises, RecordRowRaises, UnderWay
  <1>2. /\ UNCHANGED <<searches, session, cursors>>
        /\ events' = [events EXCEPT ![s] = Append(@, "failure")]
        /\ answer' = [answer EXCEPT ![s] = "error"]
        /\ request' = [request EXCEPT ![c] = NoRequest]
    BY DEF EngineRaises, RecordRowRaises, Fail, Step
  <1>3. /\ ledger' \in [open : BOOLEAN, pending : [Searches -> Nat], rows : [Searches -> Nat]]
        /\ ledger'.rows = ledger.rows
        /\ \A t \in Searches : t # s => ledger'.pending[t] = ledger.pending[t]
        /\ \A t \in Searches : t = s =>
             \/ ledger'.pending[t] = ledger.pending[t]
             \/ /\ request[c].pc = "usage" /\ request[c].rows > 0
                /\ ledger'.pending[t] = ledger.pending[t] + 1
    <2>1. ledger \in [open : BOOLEAN, pending : [Searches -> Nat], rows : [Searches -> Nat]]
      BY <1>1 DEF BookTypes
    <2>2. CASE ledger' = ledger
      BY <2>1, <2>2
    <2>3. CASE ledger' = [ledger EXCEPT !.open = TRUE]
      BY <2>1, <2>3
    <2>4. CASE /\ request[c].pc = "usage" /\ request[c].rows > 0
               /\ ledger' = [ledger EXCEPT !.open = TRUE, !.pending = Upsert(s)]
      <3>1. /\ Upsert(s) \in [Searches -> Nat]
            /\ \A t \in Searches :
                 Upsert(s)[t] = IF t = s THEN ledger.pending[t] + 1 ELSE ledger.pending[t]
        BY <1>1, UpsertAdds
      <3> HIDE DEF s
      <3>2. PICK p \in [Searches -> Nat] : p = Upsert(s)
        BY <3>1
      <3>3. /\ ledger' \in [open : BOOLEAN, pending : [Searches -> Nat], rows : [Searches -> Nat]]
            /\ ledger'.rows = ledger.rows /\ ledger'.pending = p
        BY <2>1, <2>4, <3>2
      <3> QED BY <2>4, <3>1, <3>2, <3>3
    <2> QED BY <2>2, <2>3, <2>4 DEF EngineRaises, RecordRowRaises
  <1>4. /\ \A d \in Callers : request'[d] = IF d = c THEN NoRequest ELSE request[d]
        /\ ~UnderWay(c)'
    BY <1>1, <1>2 DEF BookTypes, UnderWay, NoRequest
  <1>5. /\ \A t \in Searches : answer'[t] = IF t = s THEN "error" ELSE answer[t]
        /\ \A t \in Searches : events'[t] = IF t = s THEN Append(events[t], "failure")
                                            ELSE events[t]
    BY <1>1, <1>2 DEF BookTypes
  <1>6. BookTypes'
    <2>1. NoRequest \in [pc : {"none", "limit", "search", "usage", "record", "page"},
                         company : Who, search : Nat, offset : Nat, rows : Nat]
      BY DEF NoRequest, Who
    <2>2. /\ request' \in [Callers -> [pc : {"none", "limit", "search", "usage", "record", "page"},
                                       company : Who, search : Nat, offset : Nat, rows : Nat]]
          /\ answer' \in [Searches -> {"none", "page", "error"}]
      BY <1>1, <1>2, <2>1 DEF BookTypes
    <2>3. events' \in [Searches -> Seq({"success", "failure"})]
      BY <1>1, <1>2, EventIsAdded DEF BookTypes
    <2> QED BY <1>1, <1>2, <1>3, <2>2, <2>3 DEF BookTypes
  <1>7. ASSUME NEW t \in Searches, t = request[c].search
        PROVE  /\ ledger'.rows[t] + ledger'.pending[t] <= session'[t].rows
               /\ answer'[t] = "page" => ledger'.rows[t] = session'[t].rows
               /\ events'[t] = IF answer'[t] = "none" THEN <<>>
                               ELSE <<IF answer'[t] = "page" THEN "success" ELSE "failure">>
    <2>1. /\ answer[t] = "none" /\ ledger.pending[t] = 0 /\ events[t] = <<>>
          /\ request[c].pc = "usage" => ledger.rows[t] + request[c].rows = session[t].rows
          /\ ledger.rows[t] + ledger.pending[t] <= session[t].rows
      BY <1>1, <1>7 DEF BooksInv, RowsOnTheirWay, EventsMatch, NothingTwice
    <2>2. events'[t] = <<"failure">>
      <3>1. events'[t] = Append(<<>>, "failure")
        BY <1>5, <1>7, <2>1
      <3> QED BY <3>1, FirstEvent
    <2>3. PICK x \in Nat, y \in Nat, z \in Nat :
            x = ledger.rows[t] /\ y = request[c].rows /\ z = session[t].rows
      BY <1>1 DEF BookTypes
    <2>4. ledger'.rows[t] + ledger'.pending[t] <= session'[t].rows
      BY <1>2, <1>3, <1>7, <2>1, <2>3
    <2> QED BY <1>5, <1>7, <2>2, <2>4
  <1>8. \A t \in Searches : t # request[c].search =>
          /\ session'[t].rows = session[t].rows
          /\ answer'[t] = answer[t] /\ events'[t] = events[t]
          /\ ledger'.pending[t] = ledger.pending[t] /\ ledger'.rows[t] = ledger.rows[t]
    BY <1>2, <1>3, <1>5
  <1>9. UNCHANGED searches /\ \A d \in Callers : d # c => request'[d] = request[d]
    BY <1>2, <1>4
  <1> QED BY <1>1, <1>4, <1>6, <1>7, <1>8, <1>9, ServingKeeps

\* A row is committed with whatever the open transaction holds: the search's own
\* moves from the rows to write to the table.
LEMMA RecordKeeps ==
    ASSUME BooksInv, NEW c \in Callers, RecordRow(c)
    PROVE  BooksInv'
  <1> DEFINE s == request[c].search
  <1>1. BookTypes /\ UnderWay(c) /\ request[c].pc = "usage" /\ request[c].rows > 0
    BY DEF BooksInv, RecordRow, UnderWay
  <1>2. /\ UNCHANGED <<searches, session, cursors, events, answer>>
        /\ ledger' = Commit(Upsert(s))
        /\ request' = [request EXCEPT ![c] = [request[c] EXCEPT !.rows = @ - 1]]
    BY DEF RecordRow, Step
  <1>3. PICK r \in [pc : {"usage"}, company : Who, search : Nat, offset : Nat, rows : Nat] :
          /\ request' = [request EXCEPT ![c] = r]
          /\ r.rows = request[c].rows - 1 /\ r.search = s /\ r.pc = "usage"
    <2>1. request[c] \in [pc : {"none", "limit", "search", "usage", "record", "page"},
                          company : Who, search : Nat, offset : Nat, rows : Nat]
      BY <1>1 DEF BookTypes
    <2>2. PICK m \in Nat : m = request[c].rows - 1
      BY <1>1, <2>1
    <2>3. [request[c] EXCEPT !.rows = m]
            \in [pc : {"usage"}, company : Who, search : Nat, offset : Nat, rows : Nat]
      BY <1>1, <2>1
    <2>4. /\ [request[c] EXCEPT !.rows = m].rows = m
          /\ [request[c] EXCEPT !.rows = m].search = s
          /\ [request[c] EXCEPT !.rows = m].pc = "usage"
      BY <1>1, <2>1
    <2> QED BY <1>2, <2>2, <2>3, <2>4
  <1>4. /\ ledger' \in [open : BOOLEAN, pending : [Searches -> Nat], rows : [Searches -> Nat]]
        /\ \A t \in Searches : ledger'.pending[t] = 0
        /\ \A t \in Searches :
             ledger'.rows[t] = ledger.rows[t] + (IF t = s THEN ledger.pending[t] + 1
                                                 ELSE ledger.pending[t])
    <2>1. PICK p \in [Searches -> Nat] :
            /\ p = Upsert(s)
            /\ \A t \in Searches : p[t] = IF t = s THEN ledger.pending[t] + 1
                                           ELSE ledger.pending[t]
      BY <1>1, UpsertAdds
    <2>2. PICK q \in [Searches -> Nat] : q = ledger.rows
      BY <1>1 DEF BookTypes
    <2>3. /\ [t \in Searches |-> q[t] + p[t]] \in [Searches -> Nat]
          /\ NoRows \in [Searches -> Nat]
      BY DEF NoRows
    <2>4. ledger' = [open |-> FALSE, pending |-> NoRows, rows |-> [t \in Searches |-> q[t] + p[t]]]
      BY <1>2, <2>1, <2>2 DEF Commit
    <2>5. ledger' \in [open : BOOLEAN, pending : [Searches -> Nat], rows : [Searches -> Nat]]
      BY <2>3, <2>4
    <2>6. \A t \in Searches : ledger'.pending[t] = 0 /\ ledger'.rows[t] = q[t] + p[t]
      BY <2>4 DEF NoRows
    <2> QED BY <2>1, <2>2, <2>5, <2>6
  <1>5. /\ request'[c] = r
        /\ \A d \in Callers : d # c => request'[d] = request[d]
    BY <1>1, <1>3 DEF BookTypes
  <1>6. BookTypes'
    <2>1. r \in [pc : {"none", "limit", "search", "usage", "record", "page"},
                company : Who, search : Nat, offset : Nat, rows : Nat]
      OBVIOUS
    <2>2. request' \in [Callers -> [pc : {"none", "limit", "search", "usage", "record", "page"},
                                     company : Who, search : Nat, offset : Nat, rows : Nat]]
      BY <1>1, <1>3, <2>1 DEF BookTypes
    <2> QED BY <1>1, <1>2, <1>4, <2>2 DEF BookTypes
  <1>7. ASSUME NEW t \in Searches, t = request[c].search
        PROVE  /\ UnderWay(c)' =>
                    /\ answer'[t] = "none" /\ ledger'.pending[t] = 0
                    /\ request'[c].pc = "search" => ledger'.rows[t] = 0 /\ session'[t].rows = 0
                    /\ request'[c].pc = "usage" =>
                         ledger'.rows[t] + request'[c].rows = session'[t].rows
                    /\ request'[c].pc = "record" => ledger'.rows[t] = session'[t].rows
               /\ ledger'.rows[t] + ledger'.pending[t] <= session'[t].rows
               /\ answer'[t] = "page" => ledger'.rows[t] = session'[t].rows
               /\ events'[t] = IF answer'[t] = "none" THEN <<>>
                               ELSE <<IF answer'[t] = "page" THEN "success" ELSE "failure">>
    <2>1. /\ answer[t] = "none" /\ ledger.pending[t] = 0 /\ events[t] = <<>>
          /\ ledger.rows[t] + request[c].rows = session[t].rows
      BY <1>1, <1>7 DEF BooksInv, RowsOnTheirWay, EventsMatch
    <2>2. PICK x \in Nat, y \in Nat, z \in Nat :
            x = ledger.rows[t] /\ y = request[c].rows /\ z = session[t].rows
      BY <1>1 DEF BookTypes
    <2>3. ledger'.rows[t] = x + (0 + 1) /\ ledger'.pending[t] = 0
      BY <1>4, <1>7, <2>1, <2>2
    <2>4. request'[c].rows = y - 1 /\ request'[c].pc = "usage"
      BY <1>3, <1>5, <2>2
    <2>5. session'[t].rows = z /\ x + y = z /\ y > 0
      BY <1>1, <1>2, <2>1, <2>2
    <2>6. x + (0 + 1) = x + 1 /\ (x + 1) + (y - 1) = z /\ (x + 1) + 0 <= z
      BY <2>5
    <2>7. answer'[t] = "none" /\ events'[t] = <<>>
      BY <1>2, <2>1
    <2> QED BY <2>3, <2>4, <2>5, <2>6, <2>7
  <1>8. \A t \in Searches : t # request[c].search =>
          /\ session'[t].rows = session[t].rows
          /\ answer'[t] = answer[t] /\ events'[t] = events[t]
          /\ ledger'.pending[t] = 0 /\ ledger'.rows[t] = ledger.rows[t] + ledger.pending[t]
    BY <1>2, <1>4
  <1>9. UNCHANGED searches /\ (UnderWay(c)' => request'[c].search = request[c].search)
    BY <1>2, <1>3, <1>5
  <1> QED BY <1>1, <1>5, <1>6, <1>7, <1>8, <1>9, ServingKeeps

\* The session gets its expiry, and the page its event: all rows are booked.
LEMMA AnswerKeeps ==
    ASSUME BooksInv, clock \in Nat, NEW c \in Callers, CreateSession(c) \/ Respond(c)
    PROVE  BooksInv'
  <1> DEFINE s == request[c].search
  <1>1. BookTypes /\ UnderWay(c)
    BY DEF BooksInv, CreateSession, Respond, UnderWay
  <1>2. UNCHANGED <<searches, ledger>>
    BY DEF CreateSession, Respond
  <1>3. CASE CreateSession(c)
    <2>1. /\ UNCHANGED <<cursors, events, answer>>
          /\ session' = [session EXCEPT ![s].expires = clock + SessionTtl]
          /\ request' = [request EXCEPT ![c] = [request[c] EXCEPT !.pc = "record"]]
          /\ request[c].pc = "usage" /\ request[c].rows = 0
      BY <1>3 DEF CreateSession, Step
    <2>2. PICK r \in [pc : {"record"}, company : Who, search : Nat, offset : Nat, rows : Nat] :
            /\ request' = [request EXCEPT ![c] = r]
            /\ r.search = s /\ r.pc = "record"
      <3>1. request[c] \in [pc : {"none", "limit", "search", "usage", "record", "page"},
                            company : Who, search : Nat, offset : Nat, rows : Nat]
        BY <1>1 DEF BookTypes
      <3>2. /\ [request[c] EXCEPT !.pc = "record"]
                 \in [pc : {"record"}, company : Who, search : Nat, offset : Nat, rows : Nat]
            /\ [request[c] EXCEPT !.pc = "record"].search = s
            /\ [request[c] EXCEPT !.pc = "record"].pc = "record"
        BY <3>1
      <3> QED BY <2>1, <3>2
    <2>3. /\ session' \in [Searches -> [items : Nat, rows : Nat, expires : Nat, company : Who]]
          /\ \A t \in Searches : session'[t].rows = session[t].rows
      <3>1. PICK x \in Nat : x = clock + SessionTtl
        BY SessionsAssumption
      <3>2. session \in [Searches -> [items : Nat, rows : Nat, expires : Nat, company : Who]]
        BY <1>1 DEF BookTypes
      <3>3. \A e \in [items : Nat, rows : Nat, expires : Nat, company : Who] :
              /\ [e EXCEPT !.expires = x] \in [items : Nat, rows : Nat, expires : Nat, company : Who]
              /\ [e EXCEPT !.expires = x].rows = e.rows
        OBVIOUS
      <3>4. session' = [t \in Searches |-> IF t = s THEN [session[t] EXCEPT !.expires = x]
                                           ELSE session[t]]
        BY <2>1, <3>1, <3>2
      <3> QED BY <3>2, <3>3, <3>4
    <2>4. BookTypes'
      <3>1. r \in [pc : {"none", "limit", "search", "usage", "record", "page"},
                  company : Who, search : Nat, offset : Nat, rows : Nat]
        OBVIOUS
      <3>2. request' \in [Callers -> [pc : {"none", "limit", "search", "usage", "record", "page"},
                                       company : Who, search : Nat, offset : Nat, rows : Nat]]
        BY <1>1, <2>2, <3>1 DEF BookTypes
      <3> QED BY <1>1, <1>2, <2>1, <2>3, <3>2 DEF BookTypes
    <2>5. /\ request'[c] = r
          /\ \A d \in Callers : d # c => request'[d] = request[d]
      BY <1>1, <2>2 DEF BookTypes
    <2>6. ASSUME NEW t \in Searches, t = request[c].search
          PROVE  /\ answer[t] = "none" /\ ledger.pending[t] = 0 /\ events[t] = <<>>
                 /\ ledger.rows[t] = session[t].rows
                 /\ ledger.rows[t] + ledger.pending[t] <= session[t].rows
      <3>1. /\ answer[t] = "none" /\ ledger.pending[t] = 0 /\ events[t] = <<>>
            /\ ledger.rows[t] + 0 = session[t].rows
        BY <1>1, <2>1, <2>6 DEF BooksInv, RowsOnTheirWay, EventsMatch
      <3>2. ledger.rows[t] \in Nat
        BY <1>1 DEF BookTypes
      <3>3. ledger.rows[t] = session[t].rows
        BY <3>1, <3>2
      <3>4. ledger.rows[t] + ledger.pending[t] <= session[t].rows
        BY DEF BooksInv, NothingTwice
      <3> QED BY <3>1, <3>3, <3>4
    <2>7. ASSUME NEW t \in Searches, t = request[c].search
          PROVE  /\ UnderWay(c)' =>
                      /\ answer'[t] = "none" /\ ledger'.pending[t] = 0
                      /\ request'[c].pc = "search" => ledger'.rows[t] = 0 /\ session'[t].rows = 0
                      /\ request'[c].pc = "usage" =>
                           ledger'.rows[t] + request'[c].rows = session'[t].rows
                      /\ request'[c].pc = "record" => ledger'.rows[t] = session'[t].rows
                 /\ ledger'.rows[t] + ledger'.pending[t] <= session'[t].rows
                 /\ answer'[t] = "page" => ledger'.rows[t] = session'[t].rows
                 /\ events'[t] = IF answer'[t] = "none" THEN <<>>
                                 ELSE <<IF answer'[t] = "page" THEN "success" ELSE "failure">>
      BY <1>2, <2>1, <2>2, <2>3, <2>5, <2>6, <2>7
    <2>8. \A t \in Searches :
            /\ session'[t].rows = session[t].rows
            /\ answer'[t] = answer[t] /\ events'[t] = events[t]
            /\ ledger'.pending[t] = ledger.pending[t] /\ ledger'.rows[t] = ledger.rows[t]
      BY <1>2, <2>1, <2>3
    <2>9. UNCHANGED searches /\ (UnderWay(c)' => request'[c].search = request[c].search)
      BY <1>2, <2>2, <2>5
    <2> QED BY <1>1, <2>4, <2>5, <2>7, <2>8, <2>9, ServingKeeps
  <1>4. CASE Respond(c)
    <2>1. /\ UNCHANGED session
          /\ events' = [events EXCEPT ![s] = Append(@, "success")]
          /\ answer' = [answer EXCEPT ![s] = "page"]
          /\ cursors' = cursors \cup NextCursor(s, 0)
          /\ request' = [request EXCEPT ![c] = NoRequest]
          /\ request[c].pc = "record"
      BY <1>4 DEF Respond, Show, Step
    <2>2. /\ \A d \in Callers : request'[d] = IF d = c THEN NoRequest ELSE request[d]
          /\ ~UnderWay(c)'
      BY <1>1, <2>1 DEF BookTypes, UnderWay, NoRequest
    <2>3. /\ \A t \in Searches : answer'[t] = IF t = s THEN "page" ELSE answer[t]
          /\ \A t \in Searches : events'[t] = IF t = s THEN Append(events[t], "success")
                                              ELSE events[t]
      BY <1>1, <2>1 DEF BookTypes
    <2>4. BookTypes'
      <3>1. NoRequest \in [pc : {"none", "limit", "search", "usage", "record", "page"},
                           company : Who, search : Nat, offset : Nat, rows : Nat]
        BY DEF NoRequest, Who
      <3>2. /\ request' \in [Callers -> [pc : {"none", "limit", "search", "usage", "record", "page"},
                                         company : Who, search : Nat, offset : Nat, rows : Nat]]
            /\ answer' \in [Searches -> {"none", "page", "error"}]
        BY <1>1, <2>1, <3>1 DEF BookTypes
      <3>3. events' \in [Searches -> Seq({"success", "failure"})]
        BY <1>1, <2>1, EventIsAdded DEF BookTypes
      <3>4. cursors' \in SUBSET (Nat \X Nat)
        <4>1. request[c].search \in Nat /\ cursors \in SUBSET (Nat \X Nat)
          BY <1>1 DEF BookTypes
        <4> QED BY <2>1, <4>1, SessionsAssumption DEF NextCursor
      <3> QED BY <1>1, <1>2, <2>1, <3>2, <3>3, <3>4 DEF BookTypes
    <2>5. ASSUME NEW t \in Searches, t = request[c].search
          PROVE  /\ ledger'.rows[t] + ledger'.pending[t] <= session'[t].rows
                 /\ answer'[t] = "page" => ledger'.rows[t] = session'[t].rows
                 /\ events'[t] = IF answer'[t] = "none" THEN <<>>
                                 ELSE <<IF answer'[t] = "page" THEN "success" ELSE "failure">>
      <3>1. /\ answer[t] = "none" /\ events[t] = <<>> /\ ledger.rows[t] = session[t].rows
            /\ ledger.rows[t] + ledger.pending[t] <= session[t].rows
        BY <1>1, <2>1, <2>5 DEF BooksInv, RowsOnTheirWay, EventsMatch, NothingTwice
      <3>2. events'[t] = Append(<<>>, "success") /\ answer'[t] = "page"
        BY <2>3, <2>5, <3>1
      <3>3. events'[t] = <<"success">>
        BY <3>2, FirstEvent
      <3> QED BY <1>2, <2>1, <3>1, <3>2, <3>3
    <2>6. \A t \in Searches : t # request[c].search =>
            /\ session'[t].rows = session[t].rows
            /\ answer'[t] = answer[t] /\ events'[t] = events[t]
            /\ ledger'.pending[t] = ledger.pending[t] /\ ledger'.rows[t] = ledger.rows[t]
      BY <1>2, <2>1, <2>3
    <2>7. UNCHANGED searches /\ \A d \in Callers : d # c => request'[d] = request[d]
      BY <1>2, <2>2
    <2> QED BY <1>1, <2>2, <2>4, <2>5, <2>6, <2>7, ServingKeeps
  <1> QED BY <1>3, <1>4

\* Every step keeps the books.
LEMMA NextBooks ==
    ASSUME BooksInv, clock \in Nat, [ApiNext]_allVars
    PROVE  BooksInv'
  <1>1. ASSUME NEW c \in Callers, CallerStep(c)
        PROVE  BooksInv'
    <2>1. CASE Refuse(c) \/ Receive(c) \/ PageUnknown(c) \/ PageExpired(c) \/ PageForeign(c)
               \/ PageServed(c)
      BY <2>1, QuietKeeps
    <2>7. CASE ReceiveOther(c)
      BY <2>7, OtherKeeps
    <2>2. CASE LimitByRedis(c) \/ LimitByMemory(c)
      <3>1. \E allowed \in BOOLEAN : Decided(c, allowed)
        <4>1. (charged' > charged) \in BOOLEAN /\ (granted' > granted) \in BOOLEAN
          OBVIOUS
        <4> QED BY <2>2, <4>1 DEF LimitByRedis, LimitByMemory
      <3> QED BY <3>1, DecidedKeeps
    <2>3. CASE EngineSearch(c)
      BY <2>3, EngineKeeps
    <2>4. CASE EngineRaises(c) \/ RecordRowRaises(c)
      BY <2>4, FailKeeps
    <2>5. CASE RecordRow(c)
      BY <2>5, RecordKeeps
    <2>6. CASE CreateSession(c) \/ Respond(c)
      BY <2>6, AnswerKeeps
    <2> QED BY <1>1, <2>1, <2>2, <2>3, <2>4, <2>5, <2>6, <2>7 DEF CallerStep
  <1>2. CASE Readiness
    BY <1>2, ReadinessKeeps
  <1>3. CASE LimiterStep \/ ReplaceService \/ UNCHANGED allVars
    BY <1>3, AroundKeeps
  <1> QED BY <1>1, <1>2, <1>3 DEF ApiNext

\* The API's books hold in every reachable state.
THEOREM BooksInvariance == ApiSpec => []BooksInv
  <1>1. ApiSpec => []BudgetInv
    BY ApiUsesBucket, BudgetInvariance, PTL
  <1>2. BudgetInv => clock \in Nat
    BY DEF BudgetInv, TypeOK
  <1>3. BooksInv /\ BudgetInv /\ [ApiNext]_allVars => BooksInv'
    BY <1>2, NextBooks
  <1> QED BY <1>1, <1>3, InitBooks, PTL DEF ApiSpec

\* Whatever fails on the shared connection and whenever the readiness probe rolls
\* back, a search that was answered with its page has every ledger row exactly
\* once, no search has a row twice, and each answer has left exactly one analytics
\* event of its kind (execute_search, MonthlyUsageStore).
THEOREM AnswersHold == ApiSpec => []AnsweredIsAccountedFor
  BY BooksInvariance, BooksImply, PTL

-----------------------------------------------------------------------------
(* Sequences without some of their elements. *)

\* What is kept of the first n elements of a sequence, for each n up to a bound.
KeptOf(seq, S, k, n) ==
    k = [i \in 0 .. n |-> IF i = 0 THEN <<>>
                          ELSE IF seq[i] \in S THEN k[i - 1] ELSE Append(k[i - 1], seq[i])]

\* A part of a sequence in its order: f says where each element comes from.
PartOf(r, seq, S, n, f) ==
    /\ f \in [1 .. Len(r) -> 1 .. n]
    /\ \A i \in 1 .. Len(r) : r[i] = seq[f[i]] /\ seq[f[i]] \notin S
    /\ \A i, j \in 1 .. Len(r) : i <= j => f[j] - f[i] >= j - i
    /\ \A m \in 1 .. n : seq[m] \notin S => \E i \in 1 .. Len(r) : f[i] = m

\* A nonempty set of numbers has a least one.
LEMMA LeastOf ==
    ASSUME NEW P, P \subseteq Nat, P # {}
    PROVE  \E n \in P : \A m \in P : n <= m
  <1> DEFINE less == OpToRel(<, Nat)
  <1>1. IsWellFoundedOn(less, Nat)
    BY NatLessThanWellFounded
  <1>2. \A x, y \in Nat : <<y, x>> \in less <=> y < x
    BY DEF OpToRel
  <1> HIDE DEF less
  <1>3. PICK x \in P : \A y \in P : <<y, x>> \notin less
    BY <1>1, WFMin
  <1>4. x \in Nat /\ \A y \in P : y \in Nat /\ ~(y < x)
    BY <1>2, <1>3
  <1> QED BY <1>4

\* The recursion of Without has a solution.
LEMMA KeptExists ==
    ASSUME NEW T, NEW seq \in Seq(T), NEW S
    PROVE  \E k : KeptOf(seq, S, k, Len(seq))
  <1> DEFINE Bad == {n \in 0 .. Len(seq) : ~\E k : KeptOf(seq, S, k, n)}
  <1>1. Len(seq) \in Nat
    OBVIOUS
  <1>2. SUFFICES ASSUME Bad # {} PROVE FALSE
    BY <1>1
  <1>7. Bad \subseteq Nat
    BY <1>1
  <1> HIDE DEF Bad
  <1>3. PICK n \in Bad : \A m \in Bad : n <= m
    BY <1>2, <1>7, LeastOf
  <1>4. n \in 0 .. Len(seq) /\ ~\E k : KeptOf(seq, S, k, n)
    BY <1>3 DEF Bad
  <1>5. CASE n = 0
    <2>1. KeptOf(seq, S, [i \in 0 .. 0 |-> <<>>], 0)
      BY DEF KeptOf
    <2> QED BY <1>4, <1>5, <2>1
  <1>6. CASE n # 0
    <2>1. n - 1 \in 0 .. Len(seq) /\ ~(n <= n - 1)
      BY <1>1, <1>4, <1>6
    <2>2. PICK h : KeptOf(seq, S, h, n - 1)
      BY <1>3, <2>1 DEF Bad
    <2> DEFINE last == IF seq[n] \in S THEN h[n - 1] ELSE Append(h[n - 1], seq[n])
               g == [i \in 0 .. n |-> IF i = n THEN last ELSE h[i]]
    <2>3. \A i \in 0 .. (n - 1) : h[i] = IF i = 0 THEN <<>>
                            ELSE IF seq[i] \in S THEN h[i - 1] ELSE Append(h[i - 1], seq[i])
      BY <2>2 DEF KeptOf
    <2>4. \A i \in 0 .. n : i # 0 => i - 1 \in 0 .. n /\ i - 1 # n /\ g[i - 1] = h[i - 1]
      BY <1>1, <1>4
    <2>5. \A i \in 0 .. n : i # n => i \in 0 .. (n - 1)
      BY <1>1, <1>4
    <2>6. ASSUME NEW i \in 0 .. n
          PROVE  g[i] = IF i = 0 THEN <<>>
                        ELSE IF seq[i] \in S THEN g[i - 1] ELSE Append(g[i - 1], seq[i])
      <3>1. CASE i = n
        BY <1>6, <2>4, <3>1
      <3>2. CASE i # n
        BY <2>3, <2>4, <2>5, <3>2
      <3> QED BY <3>1, <3>2
    <2> HIDE DEF last
    <2>7. KeptOf(seq, S, g, n)
      BY <2>6 DEF KeptOf
    <2> QED BY <1>4, <2>7
  <1> QED BY <1>5, <1>6

\* The steps of the recursion.
KeptSteps(seq, S, k) ==
    \A i \in 0 .. Len(seq) : k[i] =
        IF i = 0 THEN <<>>
        ELSE IF seq[i] \in S THEN k[i - 1] ELSE Append(k[i - 1], seq[i])

\* What Without returns is what the recursion ends with.
LEMMA WithoutIsKept ==
    ASSUME NEW T, NEW seq \in Seq(T), NEW S
    PROVE  \E k : Without(seq, S) = k[Len(seq)] /\ KeptSteps(seq, S, k)
  <1>1. Without(seq, S) = (CHOOSE k : KeptOf(seq, S, k, Len(seq)))[Len(seq)]
    BY DEF Without, KeptOf
  <1>2. PICK k : KeptOf(seq, S, k, Len(seq)) /\ Without(seq, S) = k[Len(seq)]
    BY <1>1, KeptExists
  <1>3. KeptSteps(seq, S, k)
    BY <1>2 DEF KeptOf, KeptSteps
  <1> QED BY <1>2, <1>3

\* What Without returns is a part of the sequence, in its order.
LEMMA WithoutIsPart ==
    ASSUME NEW T, NEW seq \in Seq(T), NEW S
    PROVE  /\ Without(seq, S) \in Seq(T)
           /\ \E f : PartOf(Without(seq, S), seq, S, Len(seq), f)
  <1>1. PICK k : Without(seq, S) = k[Len(seq)] /\ KeptSteps(seq, S, k)
    BY WithoutIsKept
  <1>2. \A i \in 0 .. Len(seq) : k[i] =
          IF i = 0 THEN <<>>
          ELSE IF seq[i] \in S THEN k[i - 1] ELSE Append(k[i - 1], seq[i])
    BY <1>1 DEF KeptSteps
  <1>3. Len(seq) \in Nat /\ \A i \in 1 .. Len(seq) : seq[i] \in T
    OBVIOUS
  <1> DEFINE Good(n) == k[n] \in Seq(T) /\ \E f : PartOf(k[n], seq, S, n, f)
             Bad == {n \in 0 .. Len(seq) : ~Good(n)}
  <1>4. SUFFICES ASSUME Bad # {} PROVE FALSE
    BY <1>1, <1>3
  <1>9. Bad \subseteq Nat
    BY <1>3
  <1> HIDE DEF Bad
  <1>5. PICK n \in Bad : \A m \in Bad : n <= m
    BY <1>4, <1>9, LeastOf
  <1>6. n \in 0 .. Len(seq) /\ ~Good(n) /\ (n # 0 => Good(n - 1))
    <2> HIDE DEF Good
    <2>1. n \in 0 .. Len(seq) /\ ~Good(n)
      BY <1>5 DEF Bad
    <2>2. n # 0 => n - 1 \in 0 .. Len(seq) /\ ~(n <= n - 1)
      BY <1>3, <2>1
    <2> QED BY <1>5, <2>1, <2>2 DEF Bad
  <1>7. CASE n = 0
    <2>1. k[n] = <<>>
      BY <1>2, <1>6, <1>7
    <2>2. PartOf(<<>>, seq, S, 0, [i \in 1 .. 0 |-> 0])
      BY DEF PartOf
    <2> QED BY <1>6, <1>7, <2>1, <2>2
  <1>8. CASE n # 0
    <2>1. n - 1 \in Nat /\ n \in 1 .. Len(seq)
      BY <1>3, <1>6, <1>8
    <2>2. PICK f : PartOf(k[n - 1], seq, S, n - 1, f)
      BY <1>6, <1>8
    <2>3. k[n - 1] \in Seq(T)
      BY <1>6, <1>8
    <2> DEFINE r == k[n - 1]
    <2>4. r \in Seq(T) /\ Len(r) \in Nat
      BY <2>3
    <2>5. CASE seq[n] \in S
      <3>1. k[n] = r
        BY <1>2, <1>8, <2>1, <2>5
      <3>2. \A i \in 1 .. Len(r) : f[i] \in 1 .. n
        <4>1. \A i \in 1 .. Len(r) : f[i] \in 1 .. (n - 1)
          BY <2>2 DEF PartOf
        <4>2. \A x \in 1 .. (n - 1) : x \in 1 .. n
          BY <2>1
        <4> QED BY <4>1, <4>2
      <3>3. f \in [1 .. Len(r) -> 1 .. n]
        BY <2>2, <3>2 DEF PartOf
      <3>4. ASSUME NEW m \in 1 .. n, seq[m] \notin S
            PROVE  \E i \in 1 .. Len(r) : f[i] = m
        <4>1. m \in 1 .. (n - 1)
          BY <2>1, <2>5, <3>4
        <4> QED BY <2>2, <3>4, <4>1 DEF PartOf
      <3>6. /\ \A i \in 1 .. Len(r) : r[i] = seq[f[i]] /\ seq[f[i]] \notin S
            /\ \A i, j \in 1 .. Len(r) : i <= j => f[j] - f[i] >= j - i
        BY <2>2 DEF PartOf
      <3> HIDE DEF r
      <3>5. PartOf(r, seq, S, n, f)
        BY <3>3, <3>4, <3>6 DEF PartOf
      <3> QED BY <1>6, <2>4, <3>1, <3>5
    <2>6. CASE seq[n] \notin S
      <3> DEFINE a == Append(r, seq[n])
                 g == [i \in 1 .. Len(a) |-> IF i <= Len(r) THEN f[i] ELSE n]
      <3>1. k[n] = a
        BY <1>2, <1>6, <1>8, <2>6
      <3> HIDE DEF r
      <3>2. /\ a \in Seq(T) /\ Len(a) = Len(r) + 1 /\ a[Len(r) + 1] = seq[n]
            /\ \A i \in 1 .. Len(r) : a[i] = r[i]
        BY <1>3, <2>1, <2>4
      <3> HIDE DEF a
      <3>3. \A i \in 1 .. Len(r) : /\ i \in 1 .. Len(a) /\ g[i] = f[i] /\ f[i] \in 1 .. (n - 1)
                                   /\ f[i] \in 1 .. n /\ a[i] = seq[f[i]] /\ seq[f[i]] \notin S
        <4>1. \A i \in 1 .. Len(r) : /\ f[i] \in 1 .. (n - 1)
                                     /\ r[i] = seq[f[i]] /\ seq[f[i]] \notin S
          BY <2>2 DEF PartOf, r
        <4>2. \A i \in 1 .. Len(r) : i \in 1 .. Len(a) /\ i <= Len(r)
          BY <2>4, <3>2
        <4>3. \A i \in 1 .. Len(r) : g[i] = f[i]
          BY <4>2
        <4>4. \A x \in 1 .. (n - 1) : x \in 1 .. n
          BY <2>1
        <4> HIDE DEF g
        <4> QED BY <3>2, <4>1, <4>2, <4>3, <4>4
      <3>4. \A i \in 1 .. Len(a) : i \in 1 .. Len(r) \/ i = Len(r) + 1
        BY <2>4, <3>2
      <3>5. Len(r) + 1 \in 1 .. Len(a) /\ g[Len(r) + 1] = n
        BY <2>4, <3>2
      <3>6. g \in [1 .. Len(a) -> 1 .. n]
        <4> DEFINE at(i) == IF i <= Len(r) THEN f[i] ELSE n
        <4>1. ASSUME NEW i \in 1 .. Len(a) PROVE at(i) \in 1 .. n
          <5>1. CASE i \in 1 .. Len(r)
            BY <2>4, <3>3, <5>1
          <5>2. CASE i = Len(r) + 1
            BY <2>1, <2>4, <5>2
          <5> QED BY <3>4, <5>1, <5>2
        <4> HIDE DEF at
        <4>2. [i \in 1 .. Len(a) |-> at(i)] \in [1 .. Len(a) -> 1 .. n]
          BY <4>1
        <4> QED BY <4>2 DEF at
      <3> HIDE DEF g
      <3>7. \A i \in 1 .. Len(a) : a[i] = seq[g[i]] /\ seq[g[i]] \notin S
        BY <2>6, <3>2, <3>3, <3>4, <3>5
      <3>8. ASSUME NEW i \in 1 .. Len(a), NEW j \in 1 .. Len(a), i <= j
            PROVE  g[j] - g[i] >= j - i
        <4>1. CASE j \in 1 .. Len(r)
          <5>1. i \in 1 .. Len(r)
            BY <2>4, <3>8, <4>1
          <5>2. f[j] - f[i] >= j - i
            BY <2>2, <3>8, <4>1, <5>1 DEF PartOf, r
          <5> QED BY <3>3, <4>1, <5>1, <5>2
        <4>2. CASE j = Len(r) + 1 /\ i \in 1 .. Len(r)
          <5>1. Len(r) \in 1 .. Len(r) /\ i <= Len(r)
            BY <2>4, <4>2
          <5>2. f[Len(r)] - f[i] >= Len(r) - i
            BY <2>2, <4>2, <5>1 DEF PartOf, r
          <5>3. f[Len(r)] \in 1 .. (n - 1) /\ f[i] \in 1 .. (n - 1) /\ g[i] = f[i] /\ g[j] = n
            BY <3>3, <3>5, <4>2, <5>1
          <5> QED BY <2>1, <2>4, <4>2, <5>1, <5>2, <5>3
        <4>3. CASE j = Len(r) + 1 /\ i = Len(r) + 1
          BY <2>1, <2>4, <3>5, <4>3
        <4> QED BY <3>4, <4>1, <4>2, <4>3
      <3>9. ASSUME NEW m \in 1 .. n, seq[m] \notin S
            PROVE  \E i \in 1 .. Len(a) : g[i] = m
        <4>1. CASE m = n
          BY <3>5, <4>1
        <4>2. CASE m # n
          <5>1. m \in 1 .. (n - 1)
            BY <2>1, <4>2
          <5>2. PICK i \in 1 .. Len(r) : f[i] = m
            BY <2>2, <3>9, <5>1 DEF PartOf, r
          <5> QED BY <3>3, <5>2
        <4> QED BY <4>1, <4>2
      <3>10. PartOf(a, seq, S, n, g)
        BY <3>6, <3>7, <3>8, <3>9 DEF PartOf
      <3> QED BY <1>6, <3>1, <3>2, <3>10
    <2> QED BY <2>5, <2>6
  <1> QED BY <1>7, <1>8

\* Without the element at one place, the elements behind it move up; p beyond the
\* end stands for an element that is not there.
MovedUp(r, seq, p) ==
    /\ Len(r) = IF p <= Len(seq) THEN Len(seq) - 1 ELSE Len(seq)
    /\ \A i \in 1 .. Len(r) : r[i] = IF i < p THEN seq[i] ELSE seq[i + 1]
OnlyAt(p, seq, S) == \A i \in 1 .. Len(seq) : seq[i] \in S <=> i = p

\* Without leaves out an element that is at one place.
LEMMA WithoutOne ==
    ASSUME NEW T, NEW seq \in Seq(T), NEW S, NEW p \in Nat \ {0}, OnlyAt(p, seq, S)
    PROVE  Without(seq, S) \in Seq(T) /\ MovedUp(Without(seq, S), seq, p)
  <1>0. PICK k : Without(seq, S) = k[Len(seq)] /\ KeptSteps(seq, S, k)
    BY WithoutIsKept
  <1>1. /\ Without(seq, S) = k[Len(seq)]
        /\ \A i \in 0 .. Len(seq) : k[i] =
             IF i = 0 THEN <<>>
             ELSE IF seq[i] \in S THEN k[i - 1] ELSE Append(k[i - 1], seq[i])
    BY <1>0 DEF KeptSteps
  <1>2. Len(seq) \in Nat /\ \A i \in 1 .. Len(seq) : seq[i] \in T
    OBVIOUS
  <1> DEFINE Good(n) == /\ k[n] \in Seq(T)
                        /\ Len(k[n]) = IF p <= n THEN n - 1 ELSE n
                        /\ \A i \in 1 .. Len(k[n]) :
                             k[n][i] = IF i < p THEN seq[i] ELSE seq[i + 1]
             Bad == {n \in 0 .. Len(seq) : ~Good(n)}
  <1>3. SUFFICES ASSUME Bad # {} PROVE FALSE
    <2>1. Len(seq) \in 0 .. Len(seq)
      BY <1>2
    <2>2. Good(Len(seq)) => Without(seq, S) \in Seq(T) /\ MovedUp(Without(seq, S), seq, p)
      BY <1>1 DEF MovedUp
    <2> HIDE DEF Good
    <2> QED BY <2>1, <2>2
  <1>4. Bad \subseteq Nat
    BY <1>2
  <1> HIDE DEF Bad
  <1>5. PICK n \in Bad : \A m \in Bad : n <= m
    BY <1>3, <1>4, LeastOf
  <1>6. n \in 0 .. Len(seq) /\ ~Good(n) /\ (n # 0 => Good(n - 1))
    <2> HIDE DEF Good
    <2>1. n \in 0 .. Len(seq) /\ ~Good(n)
      BY <1>5 DEF Bad
    <2>2. n # 0 => n - 1 \in 0 .. Len(seq) /\ ~(n <= n - 1)
      BY <1>2, <2>1
    <2> QED BY <1>5, <2>1, <2>2 DEF Bad
  <1>7. CASE n = 0
    <2>1. k[n] = <<>>
      BY <1>1, <1>6, <1>7
    <2> QED BY <1>6, <1>7, <2>1
  <1>8. CASE n # 0
    <2>1. n \in Nat /\ n - 1 \in Nat /\ n \in 1 .. Len(seq) /\ n \in 0 .. Len(seq)
      BY <1>2, <1>6, <1>8
    <2> DEFINE r == k[n - 1]
    <2>2. /\ r \in Seq(T) /\ Len(r) \in Nat
          /\ Len(r) = IF p <= n - 1 THEN n - 2 ELSE n - 1
          /\ \A i \in 1 .. Len(r) : r[i] = IF i < p THEN seq[i] ELSE seq[i + 1]
      <3>1. Good(n - 1)
        BY <1>6, <1>8
      <3>2. (n - 1) - 1 = n - 2
        BY <2>1
      <3> QED BY <3>1, <3>2
    <2>3. CASE n = p
      <3>1. k[n] = r
        BY <1>1, <1>8, <2>1, <2>3 DEF OnlyAt
      <3> HIDE DEF r
      <3>2. Len(r) = IF p <= n THEN n - 1 ELSE n
        BY <2>1, <2>2, <2>3
      <3> QED BY <1>6, <2>2, <3>1, <3>2
    <2>4. CASE n # p
      <3>1. k[n] = Append(r, seq[n])
        BY <1>1, <1>8, <2>1, <2>4 DEF OnlyAt
      <3> HIDE DEF r
      <3>6. Append(r, seq[n]) \in Seq(T)
        BY <1>2, <2>1, <2>2
      <3>2. PICK a \in Seq(T) : a = Append(r, seq[n])
        BY <3>6
      <3>3. /\ Len(a) = Len(r) + 1 /\ a[Len(r) + 1] = seq[n]
            /\ \A i \in 1 .. Len(r) : a[i] = r[i]
        BY <2>2, <3>2
      <3>4. Len(a) = IF p <= n THEN n - 1 ELSE n
        BY <2>1, <2>2, <2>4, <3>3
      <3>5. ASSUME NEW i \in 1 .. Len(a)
            PROVE  a[i] = IF i < p THEN seq[i] ELSE seq[i + 1]
        <4>1. CASE i \in 1 .. Len(r)
          BY <2>2, <3>3, <4>1
        <4>2. CASE i = Len(r) + 1
          <5>1. n = IF i < p THEN i ELSE i + 1
            BY <2>1, <2>2, <2>4, <4>2
          <5> QED BY <3>3, <4>2, <5>1
        <4> QED BY <2>2, <3>3, <4>1, <4>2
      <3> QED BY <1>6, <3>1, <3>2, <3>4, <3>5
    <2> QED BY <2>3, <2>4
  <1> QED BY <1>7, <1>8

-----------------------------------------------------------------------------
(* Recent cursors survive. *)

\* Something occurs in a sequence; nothing occurs twice.
Occurs(x, q) == \E i \in 1 .. Len(q) : q[i] = x
Once(q) == \A i, j \in 1 .. Len(q) : q[i] = q[j] => i = j

\* The sessions of a store are in the order of their use, and between two of them
\* at least as many others were used as are between them in the store.
Follows(q, u) ==
    /\ \A i \in 1 .. Len(q) : Occurs(q[i], u)
    /\ \A i, j \in 1 .. Len(q), k, l \in 1 .. Len(u) :
         i <= j /\ q[i] = u[k] /\ q[j] = u[l] => l - k >= j - i

\* A part of a store follows what the store follows.
LEMMA PartFollows ==
    ASSUME NEW T, NEW q \in Seq(T), NEW u \in Seq(T), NEW r \in Seq(T), NEW S, NEW f,
           PartOf(r, q, S, Len(q), f), Once(q), Follows(q, u)
    PROVE  Once(r) /\ Follows(r, u)
  <1>1. /\ Len(q) \in Nat /\ Len(r) \in Nat /\ Len(u) \in Nat
        /\ \A i \in 1 .. Len(r) : f[i] \in 1 .. Len(q) /\ r[i] = q[f[i]]
        /\ \A i, j \in 1 .. Len(r) : i <= j => f[j] - f[i] >= j - i
    <2>1. Len(q) \in Nat /\ Len(r) \in Nat /\ Len(u) \in Nat
      OBVIOUS
    <2>2. f \in [1 .. Len(r) -> 1 .. Len(q)]
      BY DEF PartOf
    <2>3. /\ \A i \in 1 .. Len(r) : r[i] = q[f[i]]
          /\ \A i, j \in 1 .. Len(r) : i <= j => f[j] - f[i] >= j - i
      BY DEF PartOf
    <2> QED BY <2>1, <2>2, <2>3
  <1>2. ASSUME NEW i \in 1 .. Len(r), NEW j \in 1 .. Len(r), r[i] = r[j]
        PROVE  i = j
    <2>1. f[i] = f[j]
      <3>1. f[i] \in 1 .. Len(q) /\ f[j] \in 1 .. Len(q) /\ q[f[i]] = q[f[j]]
        BY <1>1, <1>2
      <3> QED BY <3>1 DEF Once
    <2>2. i <= j => 0 >= j - i
      BY <1>1, <2>1
    <2>3. j <= i => 0 >= i - j
      BY <1>1, <2>1
    <2> QED BY <1>1, <2>2, <2>3
  <1>3. \A i \in 1 .. Len(r) : Occurs(r[i], u)
    BY <1>1 DEF Follows
  <1>4. ASSUME NEW i \in 1 .. Len(r), NEW j \in 1 .. Len(r), NEW k \in 1 .. Len(u),
               NEW l \in 1 .. Len(u), i <= j, r[i] = u[k], r[j] = u[l]
        PROVE  l - k >= j - i
    <2>1. f[j] - f[i] >= j - i /\ f[i] \in 1 .. Len(q) /\ f[j] \in 1 .. Len(q)
      BY <1>1, <1>4
    <2>2. f[i] <= f[j]
      BY <1>1, <1>4, <2>1
    <2>3. l - k >= f[j] - f[i]
      BY <1>1, <1>4, <2>1, <2>2 DEF Follows
    <2> QED BY <1>1, <2>1, <2>3
  <1> QED BY <1>2, <1>3, <1>4 DEF Once, Follows

\* A session that is used for the first time is put at the end of both.
LEMMA AppendFollows ==
    ASSUME NEW T, NEW q \in Seq(T), NEW u \in Seq(T), NEW s \in T,
           Once(q), Once(u), Follows(q, u), ~Occurs(s, u)
    PROVE  /\ Once(Append(q, s)) /\ Once(Append(u, s))
           /\ Follows(Append(q, s), Append(u, s))
  <1>13. Append(q, s) \in Seq(T) /\ Append(u, s) \in Seq(T)
    OBVIOUS
  <1>1. PICK qq \in Seq(T) : qq = Append(q, s)
    BY <1>13
  <1>2. PICK uu \in Seq(T) : uu = Append(u, s)
    BY <1>13
  <1>3. /\ Len(q) \in Nat /\ Len(qq) = Len(q) + 1 /\ qq[Len(q) + 1] = s
        /\ \A i \in 1 .. Len(q) : qq[i] = q[i]
    BY <1>1
  <1>4. /\ Len(u) \in Nat /\ Len(uu) = Len(u) + 1 /\ uu[Len(u) + 1] = s
        /\ \A i \in 1 .. Len(u) : uu[i] = u[i]
    BY <1>2
  <1>5. \A i \in 1 .. Len(qq) : i \in 1 .. Len(q) \/ i = Len(q) + 1
    BY <1>3
  <1>6. \A i \in 1 .. Len(uu) : i \in 1 .. Len(u) \/ i = Len(u) + 1
    BY <1>4
  <1>7. (\A i \in 1 .. Len(u) : u[i] # s) /\ (\A i \in 1 .. Len(q) : q[i] # s)
    BY DEF Occurs, Follows
  <1>8. Once(qq)
    BY <1>3, <1>5, <1>7 DEF Once
  <1>9. Once(uu)
    BY <1>4, <1>6, <1>7 DEF Once
  <1>10. ASSUME NEW i \in 1 .. Len(qq) PROVE Occurs(qq[i], uu)
    <2>1. CASE i = Len(q) + 1
      <3>1. Len(u) + 1 \in 1 .. Len(uu)
        BY <1>4
      <3> QED BY <1>3, <1>4, <2>1, <3>1 DEF Occurs
    <2>2. CASE i \in 1 .. Len(q)
      <3>1. PICK k \in 1 .. Len(u) : u[k] = q[i]
        BY <2>2 DEF Follows, Occurs
      <3>2. k \in 1 .. Len(uu)
        BY <1>4
      <3> QED BY <1>3, <1>4, <2>2, <3>1, <3>2 DEF Occurs
    <2> QED BY <1>5, <2>1, <2>2
  <1>11. ASSUME NEW i \in 1 .. Len(qq), NEW j \in 1 .. Len(qq), NEW k \in 1 .. Len(uu),
                NEW l \in 1 .. Len(uu), i <= j, qq[i] = uu[k], qq[j] = uu[l]
         PROVE  l - k >= j - i
    <2>1. CASE j \in 1 .. Len(q)
      <3>1. i \in 1 .. Len(q)
        BY <1>3, <1>11, <2>1
      <3>2. k \in 1 .. Len(u) /\ l \in 1 .. Len(u)
        BY <1>3, <1>4, <1>6, <1>7, <1>11, <2>1, <3>1
      <3> QED BY <1>3, <1>4, <1>11, <2>1, <3>1, <3>2 DEF Follows
    <2>2. CASE j = Len(q) + 1 /\ i = Len(q) + 1
      <3>1. k = l
        BY <1>9, <1>11, <2>2 DEF Once
      <3> QED BY <1>3, <1>4, <2>2, <3>1
    <2>3. CASE j = Len(q) + 1 /\ i \in 1 .. Len(q)
      <3>1. l = Len(u) + 1 /\ k \in 1 .. Len(u)
        BY <1>3, <1>4, <1>6, <1>7, <1>11, <2>3
      <3>2. Len(q) \in 1 .. Len(q) /\ i <= Len(q)
        BY <1>3, <2>3
      <3>3. PICK m \in 1 .. Len(u) : u[m] = q[Len(q)]
        BY <3>2 DEF Follows, Occurs
      <3>4. m - k >= Len(q) - i
        BY <1>3, <1>4, <1>11, <2>3, <3>1, <3>2, <3>3 DEF Follows
      <3> QED BY <1>3, <1>4, <2>3, <3>1, <3>3, <3>4
    <2> QED BY <1>5, <2>1, <2>2, <2>3
  <1>12. Follows(qq, uu)
    BY <1>10, <1>11 DEF Follows
  <1> QED BY <1>1, <1>2, <1>8, <1>9, <1>12

\* r is q without the element s, which is at place a.
LessOne(r, q, s, a) ==
    /\ Len(r) = Len(q) - 1 /\ Once(r) /\ ~Occurs(s, r)
    /\ \A i \in 1 .. Len(r) : \E m \in 1 .. Len(q) :
         r[i] = q[m] /\ (m < a => i = m) /\ (m >= a => m > a /\ i = m - 1)
    /\ \A m \in 1 .. Len(q) : \/ m < a /\ m \in 1 .. Len(r) /\ r[m] = q[m]
                              \/ m = a
                              \/ m > a /\ m - 1 \in 1 .. Len(r) /\ r[m - 1] = q[m]

\* Without a session that is in it once, a sequence has the others in their order.
LEMMA LeavesItsPlace ==
    ASSUME NEW T, NEW q \in Seq(T), NEW s, NEW a \in 1 .. Len(q), q[a] = s, Once(q)
    PROVE  Without(q, {s}) \in Seq(T) /\ LessOne(Without(q, {s}), q, s, a)
  <1> DEFINE r == Without(q, {s})
  <1>1. Len(q) \in Nat /\ a \in Nat \ {0} /\ a <= Len(q)
    OBVIOUS
  <1>2. \A i \in 1 .. Len(q) : q[i] \in {s} <=> i = a
    BY DEF Once
  <1>3. /\ r \in Seq(T) /\ Len(r) = IF a <= Len(q) THEN Len(q) - 1 ELSE Len(q)
        /\ \A i \in 1 .. Len(r) : r[i] = IF i < a THEN q[i] ELSE q[i + 1]
    <2>1. OnlyAt(a, q, {s})
      BY <1>2 DEF OnlyAt
    <2>2. r \in Seq(T) /\ MovedUp(r, q, a)
      BY <1>1, <2>1, WithoutOne
    <2> HIDE DEF r
    <2> QED BY <2>2 DEF MovedUp
  <1> HIDE DEF r
  <1>4. Len(r) = Len(q) - 1
    BY <1>1, <1>3
  <1>5. ASSUME NEW i \in 1 .. Len(r)
        PROVE  \E m \in 1 .. Len(q) :
                 r[i] = q[m] /\ (m < a => i = m) /\ (m >= a => m > a /\ i = m - 1)
    <2>1. CASE i < a
      <3>1. i \in 1 .. Len(q) /\ ~(i >= a)
        BY <1>1, <1>4, <2>1
      <3>2. r[i] = q[i]
        BY <1>3, <2>1
      <3> QED BY <3>1, <3>2
    <2>2. CASE ~(i < a)
      <3>1. i + 1 \in 1 .. Len(q) /\ i + 1 > a /\ ~(i + 1 < a) /\ i = (i + 1) - 1
        BY <1>1, <1>4, <2>2
      <3>2. r[i] = q[i + 1]
        BY <1>3, <2>2
      <3> QED BY <3>1, <3>2
    <2> QED BY <2>1, <2>2
  <1>6. ASSUME NEW m \in 1 .. Len(q)
        PROVE  \/ m < a /\ m \in 1 .. Len(r) /\ r[m] = q[m]
               \/ m = a
               \/ m > a /\ m - 1 \in 1 .. Len(r) /\ r[m - 1] = q[m]
    <2>1. CASE m < a
      <3>1. m \in 1 .. Len(r)
        BY <1>1, <1>4, <2>1
      <3> QED BY <1>3, <2>1, <3>1
    <2>2. CASE m > a
      <3>1. m - 1 \in 1 .. Len(r) /\ ~(m - 1 < a) /\ (m - 1) + 1 = m
        BY <1>1, <1>4, <2>2
      <3>2. r[m - 1] = q[(m - 1) + 1]
        BY <1>3, <3>1
      <3> QED BY <2>2, <3>1, <3>2
    <2> QED BY <1>1, <2>1, <2>2
  <1>7. Once(r)
    <2> SUFFICES ASSUME NEW i \in 1 .. Len(r), NEW j \in 1 .. Len(r), r[i] = r[j] PROVE i = j
      BY DEF Once
    <2>1. PICK m \in 1 .. Len(q) :
            r[i] = q[m] /\ (m < a => i = m) /\ (m >= a => m > a /\ i = m - 1)
      BY <1>5
    <2>2. PICK n \in 1 .. Len(q) :
            r[j] = q[n] /\ (n < a => j = n) /\ (n >= a => n > a /\ j = n - 1)
      BY <1>5
    <2>3. m = n
      BY <2>1, <2>2 DEF Once
    <2> QED BY <1>1, <2>1, <2>2, <2>3
  <1>8. ~Occurs(s, r)
    <2> SUFFICES ASSUME NEW i \in 1 .. Len(r), r[i] = s PROVE FALSE
      BY DEF Occurs
    <2>1. PICK m \in 1 .. Len(q) : r[i] = q[m] /\ (m >= a => m > a)
      BY <1>5
    <2>2. m = a
      BY <1>2, <2>1
    <2> QED BY <1>1, <2>1, <2>2
  <1>9. LessOne(r, q, s, a)
    BY <1>4, <1>5, <1>6, <1>7, <1>8 DEF LessOne
  <1> QED BY <1>3, <1>9 DEF r

\* A session that is used again leaves its place in both.
LEMMA WithoutFollows ==
    ASSUME NEW T, NEW q \in Seq(T), NEW u \in Seq(T), NEW s,
           NEW a \in 1 .. Len(q), NEW b \in 1 .. Len(u), q[a] = s, u[b] = s,
           Once(q), Once(u), Follows(q, u),
           NEW r, r = Without(q, {s}), NEW v, v = Without(u, {s})
    PROVE  Follows(r, v)
  <1>1. Len(q) \in Nat /\ Len(u) \in Nat
    OBVIOUS
  <1>2. /\ Len(r) = Len(q) - 1 /\ ~Occurs(s, r)
        /\ \A i \in 1 .. Len(r) : \E m \in 1 .. Len(q) :
             r[i] = q[m] /\ (m < a => i = m) /\ (m >= a => m > a /\ i = m - 1)
    <2>1. LessOne(r, q, s, a)
      BY LeavesItsPlace
    <2> QED BY <2>1 DEF LessOne
  <1>3. /\ Len(v) = Len(u) - 1
        /\ \A i \in 1 .. Len(v) : \E m \in 1 .. Len(u) :
             v[i] = u[m] /\ (m < b => i = m) /\ (m >= b => m > b /\ i = m - 1)
        /\ \A m \in 1 .. Len(u) : \/ m < b /\ m \in 1 .. Len(v) /\ v[m] = u[m]
                                  \/ m = b
                                  \/ m > b /\ m - 1 \in 1 .. Len(v) /\ v[m - 1] = u[m]
    <2>1. LessOne(v, u, s, b)
      BY LeavesItsPlace
    <2> QED BY <2>1 DEF LessOne
  <1>4. ASSUME NEW i \in 1 .. Len(r) PROVE Occurs(r[i], v)
    <2>1. PICK m \in 1 .. Len(q) : r[i] = q[m]
      BY <1>2
    <2>2. PICK k \in 1 .. Len(u) : u[k] = r[i]
      BY <2>1 DEF Follows, Occurs
    <2>3. k # b
      BY <1>2, <2>2 DEF Occurs
    <2> QED BY <1>3, <2>2, <2>3 DEF Occurs
  <1>5. ASSUME NEW i \in 1 .. Len(r), NEW j \in 1 .. Len(r), NEW k \in 1 .. Len(v),
               NEW l \in 1 .. Len(v), i <= j, r[i] = v[k], r[j] = v[l]
        PROVE  l - k >= j - i
    <2>1. PICK x \in 1 .. Len(q) :
            r[i] = q[x] /\ (x < a => i = x) /\ (x >= a => x > a /\ i = x - 1)
      BY <1>2
    <2>2. PICK y \in 1 .. Len(q) :
            r[j] = q[y] /\ (y < a => j = y) /\ (y >= a => y > a /\ j = y - 1)
      BY <1>2
    <2>3. PICK w \in 1 .. Len(u) :
            v[k] = u[w] /\ (w < b => k = w) /\ (w >= b => w > b /\ k = w - 1)
      BY <1>3
    <2>4. PICK z \in 1 .. Len(u) :
            v[l] = u[z] /\ (z < b => l = z) /\ (z >= b => z > b /\ l = z - 1)
      BY <1>3
    <2>5. q[x] = u[w] /\ q[y] = u[z]
      BY <1>5, <2>1, <2>2, <2>3, <2>4
    <2>10. /\ x \in Int /\ y \in Int /\ i \in Int /\ j \in Int /\ a \in Int
           /\ (x < a => i = x) /\ (x >= a => x > a /\ i = x - 1)
           /\ (y < a => j = y) /\ (y >= a => y > a /\ j = y - 1)
      BY <1>1, <2>1, <2>2
    <2>6. x <= y
      <3>1. CASE x < a
        BY <1>5, <2>10, <3>1
      <3>2. CASE x > a
        BY <1>5, <2>10, <3>2
      <3> QED BY <2>10, <3>1, <3>2
    <2>7. z - w >= y - x
      BY <2>5, <2>6 DEF Follows
    <2>8. (x <= a => b - w >= a - x) /\ (a <= x => w - b >= x - a)
      BY <2>5 DEF Follows
    <2>9. (y <= a => b - z >= a - y) /\ (a <= y => z - b >= y - a)
      BY <2>5 DEF Follows
    <2> QED BY <1>1, <1>5, <2>1, <2>2, <2>3, <2>4, <2>6, <2>7, <2>8, <2>9
  <1> QED BY <1>4, <1>5 DEF Follows

\* What is behind the first d elements of a sequence.
Behind(q, d) == SubSeq(q, d + 1, Len(q))
CutOff(r, q, d) == Len(r) = Len(q) - d /\ \A i \in 1 .. Len(r) : r[i] = q[i + d]

\* What is left of a store when its oldest sessions are evicted.
LEMMA EvictedFollows ==
    ASSUME NEW T, NEW q \in Seq(T), NEW u \in Seq(T), Once(q), Follows(q, u),
           NEW d \in Nat, d <= Len(q)
    PROVE  /\ Behind(q, d) \in Seq(T) /\ CutOff(Behind(q, d), q, d)
           /\ Once(Behind(q, d)) /\ Follows(Behind(q, d), u)
  <1>7. PICK r : r = SubSeq(q, d + 1, Len(q))
    OBVIOUS
  <1>1. Len(q) \in Nat /\ Len(u) \in Nat /\ \A i \in 1 .. Len(q) : q[i] \in T
    OBVIOUS
  <1>2. /\ r \in Seq(T) /\ Len(r) = Len(q) - d
        /\ \A i \in 1 .. Len(r) : r[i] = q[i + d]
    <2>1. /\ d + 1 \in Int /\ Len(q) \in Int
          /\ \A i \in (d + 1) .. Len(q) : q[i] \in T
      BY <1>1
    <2>2. /\ SubSeq(q, d + 1, Len(q)) \in Seq(T)
          /\ Len(SubSeq(q, d + 1, Len(q))) =
               IF d + 1 <= Len(q) THEN Len(q) - (d + 1) + 1 ELSE 0
          /\ \A i \in 1 .. Len(q) - (d + 1) + 1 :
               SubSeq(q, d + 1, Len(q))[i] = q[(d + 1) + i - 1]
      BY <1>1, <2>1
    <2>3. Len(r) = Len(q) - d
      BY <1>1, <1>7, <2>2
    <2>4. \A i \in 1 .. Len(r) : i \in 1 .. Len(q) - (d + 1) + 1 /\ (d + 1) + i - 1 = i + d
      BY <1>1, <2>3
    <2> QED BY <1>7, <2>2, <2>3, <2>4
  <1>3. \A i \in 1 .. Len(r) : i + d \in 1 .. Len(q)
    BY <1>1, <1>2
  <1>4. Once(r)
    <2> SUFFICES ASSUME NEW i \in 1 .. Len(r), NEW j \in 1 .. Len(r), r[i] = r[j] PROVE i = j
      BY DEF Once
    <2>1. i + d = j + d
      BY <1>2, <1>3 DEF Once
    <2> QED BY <1>1, <1>2, <2>1
  <1>5. \A i \in 1 .. Len(r) : Occurs(r[i], u)
    BY <1>2, <1>3 DEF Follows
  <1>6. ASSUME NEW i \in 1 .. Len(r), NEW j \in 1 .. Len(r), NEW k \in 1 .. Len(u),
               NEW l \in 1 .. Len(u), i <= j, r[i] = u[k], r[j] = u[l]
        PROVE  l - k >= j - i
    <2>1. i + d <= j + d /\ (j + d) - (i + d) = j - i
      BY <1>1, <1>2, <1>6
    <2>2. l - k >= (j + d) - (i + d)
      BY <1>2, <1>3, <1>6, <2>1 DEF Follows
    <2> QED BY <2>1, <2>2
  <1>8. r \in Seq(T) /\ CutOff(r, q, d) /\ Once(r) /\ Follows(r, u)
    BY <1>2, <1>4, <1>5, <1>6 DEF Follows, CutOff
  <1> QED BY <1>7, <1>8 DEF Behind

-----------------------------------------------------------------------------
\* A request is at the limiter while its call of the bucket lasts.
LimitLasts == \A c \in Callers : caller[c].pc # "idle" => request[c].pc = "limit"

\* Every search number was paid for by a request, so none is beyond MaxRequests.
Limited == {c \in Callers : request[c].pc = "limit"}
NumbersSuffice ==
    /\ received \in Nat /\ received <= MaxRequests
    /\ IsFiniteSet(Limited)
    /\ searches + Cardinality(Limited) <= received

\* A search that is under way has a number of the instance.
NumbersFit == \A c \in Callers : UnderWay(c) => request[c].search \in Searches

\* A session is used once its search has created it.
NotUsedYet ==
    /\ \A i \in 1 .. Len(used) : used[i] <= searches
    /\ \A c \in Callers : request[c].pc \in {"search", "usage"} =>
         ~Occurs(request[c].search, used)

\* The store is a part of the history, in its order.
StoreIsOrdered ==
    /\ store \in Seq(Searches) /\ used \in Seq(Searches)
    /\ Once(store) /\ Once(used) /\ Follows(store, used)

\* A search and its session are of one company.
SessionIsOwn ==
    \A c \in Callers : request[c].pc \in {"usage", "record"} =>
        session[request[c].search].company = request[c].company

\* What CursorsAreTenantBound says, of searches that the engine has answered.
PagesAreOwn ==
    \A p \in shown :
        /\ p[2] \in Searches /\ p[2] <= searches /\ session[p[2]].company = p[1]
        /\ \A c \in Callers : request[c].pc = "search" => request[c].search # p[2]

\* What RecentCursorsSurvive says.
LiveStay ==
    \A i \in 1 .. Len(used) :
        session[used[i]].expires > clock =>
            Occurs(used[i], store) \/ Len(used) - i >= MaxSessions

\* The inductive invariant.
CursorsInv ==
    /\ LimitLasts /\ NumbersSuffice /\ NumbersFit /\ NotUsedYet
    /\ StoreIsOrdered /\ LiveStay /\ SessionIsOwn /\ PagesAreOwn

\* It contains what the run checks.
LEMMA CursorsImply == CursorsInv => CursorsAreKept
  <1>4. ASSUME CursorsInv PROVE CursorsAreTenantBound
    BY <1>4 DEF CursorsInv, PagesAreOwn, CursorsAreTenantBound
  <1> SUFFICES ASSUME CursorsInv, NEW i \in DOMAIN used, session[used[i]].expires > clock
               PROVE  used[i] \in InStore \/ Len(used) - i >= MaxSessions
    BY <1>4 DEF RecentCursorsSurvive, CursorsAreKept
  <1>1. store \in Seq(Searches) /\ used \in Seq(Searches)
    BY DEF CursorsInv, StoreIsOrdered
  <1>2. DOMAIN store = 1 .. Len(store) /\ DOMAIN used = 1 .. Len(used)
    BY <1>1
  <1>3. Occurs(used[i], store) \/ Len(used) - i >= MaxSessions
    BY <1>2 DEF CursorsInv, LiveStay
  <1> QED BY <1>2, <1>3 DEF Occurs, InStore

\* At first no session was created.
LEMMA InitCursors == ApiInit => CursorsInv
  <1> SUFFICES ASSUME ApiInit PROVE CursorsInv
    OBVIOUS
  <1>1. \A c \in Callers : request[c].pc = "none" /\ caller[c].pc = "idle"
    BY DEF ApiInit, Init, NoRequest, Idle
  <1>2. LimitLasts /\ NumbersFit
    BY <1>1 DEF LimitLasts, NumbersFit, UnderWay
  <1>3. NumbersSuffice
    <2>1. Limited = {}
      BY <1>1 DEF Limited
    <2> QED BY <2>1, FS_EmptySet, MaxRequestsAssumption DEF ApiInit, NumbersSuffice
  <1>4. Len(store) = 0 /\ Len(used) = 0 /\ store \in Seq(Searches) /\ used \in Seq(Searches)
    BY DEF ApiInit
  <1>5. NotUsedYet /\ StoreIsOrdered /\ LiveStay
    BY <1>1, <1>4 DEF NotUsedYet, StoreIsOrdered, LiveStay, Once, Follows
  <1>6. SessionIsOwn /\ PagesAreOwn
    BY <1>1 DEF ApiInit, SessionIsOwn, PagesAreOwn
  <1> QED BY <1>2, <1>3, <1>5, <1>6 DEF CursorsInv

\* The limiter and the numbers it gives out.
LEMMA LimitKeeps ==
    ASSUME CursorsInv, BooksInv, TypeOK, [ApiNext]_allVars
    PROVE  LimitLasts' /\ NumbersSuffice'
  <1>1. /\ request \in [Callers -> [pc : {"none", "limit", "search", "usage", "record", "page"},
                                    company : Who, search : Nat, offset : Nat, rows : Nat]]
        /\ searches \in Nat /\ received \in Nat /\ MaxRequests \in Nat
        /\ received <= MaxRequests /\ IsFiniteSet(Limited)
        /\ searches + Cardinality(Limited) <= received /\ Cardinality(Limited) \in Nat
    BY MaxRequestsAssumption, FS_CardinalityType
       DEF BooksInv, BookTypes, CursorsInv, NumbersSuffice
  <1>2. /\ DOMAIN caller = Callers /\ DOMAIN request = Callers
        /\ \A c \in Callers : caller[c].pc # "idle" => request[c].pc = "limit"
    BY DEF TypeOK, BooksInv, BookTypes, CursorsInv, LimitLasts
  <1>9. \A c \in Callers : \A r : request' = [request EXCEPT ![c] = r] =>
          request'[c] = r /\ \A d \in Callers : d # c => request'[d] = request[d]
    BY <1>2
  <1>10. UNCHANGED vars => UNCHANGED caller
    BY DEF vars
  <1>3. ASSUME UNCHANGED caller,
               \/ UNCHANGED <<received, searches>>
               \/ /\ received < MaxRequests /\ received' = received + 1
                  /\ searches' = searches \/ searches' = searches + 1,
               \A c \in Callers : request[c].pc = "limit" <=> request'[c].pc = "limit"
        PROVE  LimitLasts' /\ NumbersSuffice'
    <2>1. Limited' = Limited
      BY <1>3 DEF Limited
    <2>2. NumbersSuffice'
      BY <1>1, <1>3, <2>1 DEF NumbersSuffice
    <2> QED BY <1>2, <1>3, <2>2 DEF LimitLasts
  <1>4. ASSUME NEW c \in Callers, CallerStep(c), ~Receive(c), ~LimitByRedis(c), ~LimitByMemory(c)
        PROVE  LimitLasts' /\ NumbersSuffice'
    <2>1. /\ UNCHANGED caller /\ request[c].pc # "limit"
          /\ \/ UNCHANGED <<received, searches>>
             \/ /\ received < MaxRequests /\ received' = received + 1
                /\ searches' = searches \/ searches' = searches + 1
          /\ request'[c].pc # "limit" /\ \A d \in Callers : d # c => request'[d] = request[d]
      <3>1. CASE Refuse(c)
        BY <3>1 DEF Refuse, vars
      <3>2. CASE EngineSearch(c)
        <4>1. PICK k \in ModelCalls :
                request' = [request EXCEPT ![c] = [request[c] EXCEPT !.pc = "usage", !.rows = 1 + k]]
          BY <3>2 DEF EngineSearch, Step
        <4>2. [request[c] EXCEPT !.pc = "usage", !.rows = 1 + k].pc = "usage"
          BY <1>1
        <4>3. UNCHANGED <<vars, searches, received>> /\ request[c].pc = "search"
          BY <3>2 DEF EngineSearch
        <4> QED BY <1>9, <1>10, <4>1, <4>2, <4>3
      <3>3. CASE RecordRow(c)
        <4>1. [request[c] EXCEPT !.rows = @ - 1].pc = "usage"
          BY <1>1, <3>3 DEF RecordRow
        <4>2. /\ UNCHANGED <<vars, searches, received>> /\ request[c].pc = "usage"
              /\ request' = [request EXCEPT ![c] = [request[c] EXCEPT !.rows = @ - 1]]
          BY <3>3 DEF RecordRow, Step
        <4> QED BY <1>9, <1>10, <4>1, <4>2
      <3>4. CASE CreateSession(c)
        <4>1. [request[c] EXCEPT !.pc = "record"].pc = "record"
          BY <1>1
        <4>2. /\ UNCHANGED <<vars, searches, received>> /\ request[c].pc = "usage"
              /\ request' = [request EXCEPT ![c] = [request[c] EXCEPT !.pc = "record"]]
          BY <3>4 DEF CreateSession, Step
        <4> QED BY <1>9, <1>10, <4>1, <4>2
      <3>5. CASE \/ EngineRaises(c) \/ RecordRowRaises(c) \/ Respond(c)
                 \/ PageUnknown(c) \/ PageExpired(c) \/ PageForeign(c) \/ PageServed(c)
        <4>1. /\ request' = [request EXCEPT ![c] = NoRequest] /\ request[c].pc # "limit"
              /\ UNCHANGED <<vars, searches, received>>
          BY <3>5 DEF EngineRaises, RecordRowRaises, Respond, PageUnknown, PageExpired,
                      PageForeign, PageServed, Found, Fail, Step
        <4>2. NoRequest.pc # "limit"
          BY DEF NoRequest
        <4> QED BY <1>9, <1>10, <4>1, <4>2
      <3>6. CASE ReceiveOther(c)
        <4>1. PICK company \in Accepted, x \in Carried :
                Begin(c, [NoRequest EXCEPT !.company = company, !.search = x[1], !.offset = x[2]])
          BY <3>6 DEF ReceiveOther
        <4>2. /\ UNCHANGED vars /\ request[c].pc = "none"
              /\ received < MaxRequests /\ received' = received + 1
          BY <3>6 DEF ReceiveOther
        <4>3. searches' = searches \/ searches' = searches + 1
          BY <4>1 DEF Begin
        <4>4. PICK r : r.pc # "limit" /\ request' = [request EXCEPT ![c] = r]
          BY <4>1, OtherIsRequest, BeginsWith
        <4> QED BY <1>9, <1>10, <4>2, <4>3, <4>4
      <3> QED BY <1>4, <3>1, <3>2, <3>3, <3>4, <3>5, <3>6 DEF CallerStep
    <2>2. \A d \in Callers : request[d].pc = "limit" <=> request'[d].pc = "limit"
      BY <2>1
    <2> QED BY <1>3, <2>1, <2>2
  <1>5. ASSUME NEW c \in Callers, Receive(c)
        PROVE  LimitLasts' /\ NumbersSuffice'
    <2>1. PICK r : r.pc = "limit" /\ request' = [request EXCEPT ![c] = r]
      <3>1. \A x, y : [NoRequest EXCEPT !.pc = "limit", !.company = Company, !.search = x,
                                        !.offset = y].pc = "limit"
        BY DEF NoRequest
      <3> QED BY <1>5, <3>1 DEF Receive, Step
    <2>2. /\ request[c].pc = "none" /\ received < MaxRequests /\ received' = received + 1
          /\ UNCHANGED searches
          /\ \A d \in Callers : d # c => caller'[d] = caller[d]
      BY <1>2, <1>5 DEF Receive, Ask
    <2>3. \A d \in Callers : request'[d] = IF d = c THEN r ELSE request[d]
      BY <1>2, <2>1
    <2>4. LimitLasts'
      BY <1>2, <2>1, <2>2, <2>3 DEF LimitLasts
    <2>5. Limited' = Limited \cup {c} /\ c \notin Limited
      BY <2>1, <2>2, <2>3 DEF Limited
    <2>6. IsFiniteSet(Limited') /\ Cardinality(Limited') = Cardinality(Limited) + 1
      BY <1>1, <2>5, FS_AddElement
    <2> QED BY <1>1, <2>2, <2>4, <2>6 DEF NumbersSuffice
  <1>6. ASSUME NEW c \in Callers, LimitByRedis(c) \/ LimitByMemory(c)
        PROVE  LimitLasts' /\ NumbersSuffice'
    <2>1. /\ caller[c].pc # "idle" /\ caller' = [caller EXCEPT ![c] = Idle]
          /\ \E allowed : Decided(c, allowed)
      BY <1>6 DEF LimitByRedis, LimitByMemory, RedisAnswers, MemoryDecides
    <2>2. request[c].pc = "limit" /\ c \in Limited
      BY <1>2, <2>1 DEF Limited
    <2>3. UNCHANGED received /\ (searches' = searches \/ searches' = searches + 1)
      BY <2>1 DEF Decided, Begin
    <2>4. PICK r : r.pc # "limit" /\ request' = [request EXCEPT ![c] = r]
      <3>1. NoRequest.pc # "limit"
        BY DEF NoRequest
      <3>2. request[c] \in [pc : {"none", "limit", "search", "usage", "record", "page"},
                            company : Who, search : Nat, offset : Nat, rows : Nat]
        BY <1>1
      <3> QED BY <2>1, <3>1, <3>2, BeginsWith DEF Decided, Step
    <2>5. \A d \in Callers : request'[d] = IF d = c THEN r ELSE request[d]
      BY <1>2, <2>4
    <2>6. LimitLasts'
      BY <1>2, <2>1, <2>5 DEF LimitLasts, Idle
    <2>7. Limited' = Limited \ {c}
      BY <2>4, <2>5 DEF Limited
    <2>8. IsFiniteSet(Limited') /\ Cardinality(Limited') = Cardinality(Limited) - 1
      BY <1>1, <2>2, <2>7, FS_RemoveElement
    <2> QED BY <1>1, <2>3, <2>6, <2>8 DEF NumbersSuffice
  <1>7. CASE Readiness \/ ReplaceService \/ UNCHANGED allVars
    <2>1. /\ UNCHANGED <<caller, request>>
          /\ \/ UNCHANGED <<received, searches>>
             \/ /\ received < MaxRequests /\ received' = received + 1
                /\ searches' = searches
      <3>1. CASE Readiness
        BY <1>10, <3>1 DEF Readiness
      <3>2. CASE ReplaceService
        BY <1>10, <3>2 DEF ReplaceService
      <3>3. CASE UNCHANGED allVars
        BY <1>10, <3>3 DEF allVars, apiVars
      <3> QED BY <1>7, <3>1, <3>2, <3>3
    <2> QED BY <1>3, <2>1
  <1>8. CASE LimiterStep
    <2>1. UNCHANGED <<request, received, searches>>
      BY <1>8 DEF LimiterStep, apiVars
    <2>2. \A d \in Callers : caller'[d].pc # "idle" => caller[d].pc # "idle"
      BY <1>2, <1>8 DEF LimiterStep, RedisFails, RedisAnswerLost, FallBack, Expire, Tick
    <2> QED BY <1>1, <1>2, <2>1, <2>2 DEF LimitLasts, NumbersSuffice, Limited
  <1> QED BY <1>4, <1>5, <1>6, <1>7, <1>8 DEF ApiNext

\* A search that is under way was so before, with the same number and company, or
\* has just been let in.
LEMMA UnderWayFrom ==
    ASSUME BooksInv, [ApiNext]_allVars, NEW d \in Callers, UnderWay(d)'
    PROVE  \/ /\ UnderWay(d) /\ searches' = searches
              /\ request'[d].search = request[d].search
              /\ request'[d].company = request[d].company
              /\ request'[d].pc \in {"search", "usage"} => request[d].pc \in {"search", "usage"}
              /\ request'[d].pc = "search" => request[d].pc = "search"
              /\ request'[d].pc # "search" => request[d].pc # "search" \/ EngineSearch(d)
           \/ /\ UnderWay(d) /\ searches' = searches + 1 /\ request'[d] = request[d]
              /\ UNCHANGED used
           \/ /\ request'[d].search = searches + 1 /\ request'[d].pc = "search"
              /\ searches' = searches + 1 /\ UNCHANGED used
  <1> DEFINE GoesOn ==
               /\ UnderWay(d) /\ searches' = searches
               /\ request'[d].search = request[d].search
               /\ request'[d].company = request[d].company
               /\ request'[d].pc \in {"search", "usage"} => request[d].pc \in {"search", "usage"}
               /\ request'[d].pc = "search" => request[d].pc = "search"
               /\ request'[d].pc # "search" => request[d].pc # "search" \/ EngineSearch(d)
             Waits ==
               /\ UnderWay(d) /\ searches' = searches + 1 /\ request'[d] = request[d]
               /\ UNCHANGED used
             IsNew ==
               /\ request'[d].search = searches + 1 /\ request'[d].pc = "search"
               /\ searches' = searches + 1 /\ UNCHANGED used
  <1>1. /\ request \in [Callers -> [pc : {"none", "limit", "search", "usage", "record", "page"},
                                    company : Who, search : Nat, offset : Nat, rows : Nat]]
        /\ searches \in Nat
    BY DEF BooksInv, BookTypes
  <1>2. \A c \in Callers : \A r : request' = [request EXCEPT ![c] = r] =>
          request'[c] = r /\ \A e \in Callers : e # c => request'[e] = request[e]
    BY <1>1
  <1>4. ASSUME request'[d] = request[d], UNCHANGED searches
        PROVE  GoesOn
    BY <1>4 DEF UnderWay
  <1>5. ASSUME NEW c \in Callers, CallerStep(c), ~LimitByRedis(c), ~LimitByMemory(c),
               ~ReceiveOther(c)
        PROVE  GoesOn
    <2>1. UNCHANGED searches
      BY <1>5 DEF CallerStep, Refuse, Receive, EngineSearch, EngineRaises, RecordRow,
                  RecordRowRaises, CreateSession, Respond, PageUnknown, PageExpired,
                  PageForeign, PageServed
    <2>2. CASE Refuse(c)
      BY <1>4, <2>1, <2>2 DEF Refuse
    <2>3. CASE Receive(c)
      <3>1. PICK x, y : request' =
              [request EXCEPT ![c] = [NoRequest EXCEPT !.pc = "limit", !.company = Company,
                                                       !.search = x, !.offset = y]]
        BY <2>3 DEF Receive, Step
      <3>2. [NoRequest EXCEPT !.pc = "limit", !.company = Company, !.search = x,
                              !.offset = y].pc = "limit"
        BY DEF NoRequest
      <3>3. d # c
        BY <1>2, <3>1, <3>2 DEF UnderWay
      <3> QED BY <1>2, <1>4, <2>1, <3>1, <3>3
    <2>4. CASE EngineSearch(c)
      <3>1. PICK k \in ModelCalls :
              request' = [request EXCEPT ![c] = [request[c] EXCEPT !.pc = "usage", !.rows = 1 + k]]
        BY <2>4 DEF EngineSearch, Step
      <3>2. /\ [request[c] EXCEPT !.pc = "usage", !.rows = 1 + k].search = request[c].search
            /\ [request[c] EXCEPT !.pc = "usage", !.rows = 1 + k].company = request[c].company
            /\ [request[c] EXCEPT !.pc = "usage", !.rows = 1 + k].pc = "usage"
        BY <1>1
      <3>3. CASE d = c
        BY <1>2, <2>1, <2>4, <3>1, <3>2, <3>3 DEF EngineSearch, UnderWay
      <3> QED BY <1>2, <1>4, <2>1, <3>1, <3>3
    <2>5. CASE RecordRow(c)
      <3>1. request' = [request EXCEPT ![c] = [request[c] EXCEPT !.rows = @ - 1]]
        BY <2>5 DEF RecordRow, Step
      <3>2. /\ [request[c] EXCEPT !.rows = @ - 1].search = request[c].search
            /\ [request[c] EXCEPT !.rows = @ - 1].company = request[c].company
            /\ [request[c] EXCEPT !.rows = @ - 1].pc = request[c].pc
        BY <1>1
      <3>3. CASE d = c
        BY <1>2, <2>1, <2>5, <3>1, <3>2, <3>3 DEF RecordRow, UnderWay
      <3> QED BY <1>2, <1>4, <2>1, <3>1, <3>3
    <2>6. CASE CreateSession(c)
      <3>1. request' = [request EXCEPT ![c] = [request[c] EXCEPT !.pc = "record"]]
        BY <2>6 DEF CreateSession, Step
      <3>2. /\ [request[c] EXCEPT !.pc = "record"].search = request[c].search
            /\ [request[c] EXCEPT !.pc = "record"].company = request[c].company
            /\ [request[c] EXCEPT !.pc = "record"].pc = "record"
        BY <1>1
      <3>3. CASE d = c
        BY <1>2, <2>1, <2>6, <3>1, <3>2, <3>3 DEF CreateSession, UnderWay
      <3> QED BY <1>2, <1>4, <2>1, <3>1, <3>3
    <2>7. CASE \/ EngineRaises(c) \/ RecordRowRaises(c) \/ Respond(c)
               \/ PageUnknown(c) \/ PageExpired(c) \/ PageForeign(c) \/ PageServed(c)
      <3>1. request' = [request EXCEPT ![c] = NoRequest]
        BY <2>7 DEF EngineRaises, RecordRowRaises, Respond, PageUnknown, PageExpired,
                    PageForeign, PageServed, Found, Fail, Step
      <3>3. NoRequest.pc = "none"
        BY DEF NoRequest
      <3>2. d # c
        BY <1>2, <3>1, <3>3 DEF UnderWay
      <3> QED BY <1>2, <1>4, <2>1, <3>1, <3>2
    <2> QED BY <1>5, <2>2, <2>3, <2>4, <2>5, <2>6, <2>7 DEF CallerStep
  <1>3. ASSUME NEW c \in Callers,
               NEW q \in [pc : {"none", "limit", "search", "usage", "record", "page"},
                          company : Who, search : Nat, offset : Nat, rows : Nat],
               (Step(c, NoRequest) /\ UNCHANGED searches) \/ Begin(c, q), UNCHANGED used
        PROVE  GoesOn \/ Waits \/ IsNew
    <2>1. PICK r :
            /\ request' = [request EXCEPT ![c] = r]
            /\ \/ r.pc \in {"none", "page"} /\ UNCHANGED searches
               \/ r.pc = "search" /\ r.search = searches + 1 /\ searches' = searches + 1
      <3>1. NoRequest.pc = "none"
        BY DEF NoRequest
      <3> QED BY <1>3, <3>1, BeginsWith DEF Step
    <2>2. CASE d = c
      BY <1>2, <1>3, <2>1, <2>2 DEF UnderWay
    <2>3. CASE d # c
      <3>1. request'[d] = request[d] /\ UnderWay(d)
        BY <1>2, <2>1, <2>3 DEF UnderWay
      <3> QED BY <1>3, <1>4, <2>1, <3>1
    <2> QED BY <2>2, <2>3
  <1>6. ASSUME NEW c \in Callers, LimitByRedis(c) \/ LimitByMemory(c) \/ ReceiveOther(c)
        PROVE  GoesOn \/ Waits \/ IsNew
    <2>1. CASE ReceiveOther(c)
      <3>1. PICK company \in Accepted, x \in Carried :
              Begin(c, [NoRequest EXCEPT !.company = company, !.search = x[1], !.offset = x[2]])
        BY <2>1 DEF ReceiveOther
      <3>2. UNCHANGED used
        BY <2>1 DEF ReceiveOther
      <3> QED BY <1>3, <3>1, <3>2, OtherIsRequest
    <2>2. CASE LimitByRedis(c) \/ LimitByMemory(c)
      <3>1. PICK allowed \in BOOLEAN : Decided(c, allowed)
        <4>1. (charged' > charged) \in BOOLEAN /\ (granted' > granted) \in BOOLEAN
          OBVIOUS
        <4> QED BY <2>2, <4>1 DEF LimitByRedis, LimitByMemory
      <3>2. request[c] \in [pc : {"none", "limit", "search", "usage", "record", "page"},
                            company : Who, search : Nat, offset : Nat, rows : Nat]
        BY <1>1
      <3> QED BY <1>3, <3>1, <3>2 DEF Decided
    <2> QED BY <1>6, <2>1, <2>2
  <1>9. SUFFICES GoesOn \/ Waits \/ IsNew
    OBVIOUS
  <1> HIDE DEF GoesOn, Waits, IsNew
  <1>7. CASE Readiness \/ ReplaceService \/ LimiterStep \/ UNCHANGED allVars
    <2>1. UNCHANGED <<request, searches>>
      BY <1>7 DEF Readiness, ReplaceService, LimiterStep, allVars, apiVars
    <2> QED BY <1>4, <2>1
  <1>8. CASE \E c \in Callers : CallerStep(c)
    BY <1>5, <1>6, <1>8
  <1> QED BY <1>7, <1>8 DEF ApiNext

\* Numbers that are given out are the instance's own.
LEMMA NumbersKeep ==
    ASSUME CursorsInv, BooksInv, NumbersSuffice', [ApiNext]_allVars
    PROVE  NumbersFit'
  <1> SUFFICES ASSUME NEW d \in Callers, UnderWay(d)'
               PROVE  request'[d].search \in Searches
    BY DEF NumbersFit
  <1>1. \/ UnderWay(d) /\ request'[d].search = request[d].search
        \/ request'[d].search = searches + 1 /\ searches' = searches + 1
    BY UnderWayFrom
  <1>2. searches \in Nat
    BY DEF BooksInv, BookTypes
  <1>3. CASE UnderWay(d) /\ request'[d].search = request[d].search
    BY <1>3 DEF CursorsInv, NumbersFit
  <1>4. CASE request'[d].search = searches + 1 /\ searches' = searches + 1
    <2>1. /\ received' \in Nat /\ received' <= MaxRequests
          /\ searches' + Cardinality(Limited') <= received' /\ Cardinality(Limited') \in Nat
      BY FS_CardinalityType DEF NumbersSuffice
    <2>2. searches + 1 \in 1 .. MaxRequests
      BY <1>2, <1>4, <2>1, MaxRequestsAssumption
    <2> QED BY <1>4, <2>2 DEF Searches
  <1> QED BY <1>1, <1>3, <1>4

\* A session is used for the first time when its search creates it.
LEMMA UseKeeps ==
    ASSUME CursorsInv, BooksInv, [ApiNext]_allVars, used' \in Seq(Searches),
           \A x \in Searches : Occurs(x, used') =>
               \/ Occurs(x, used)
               \/ \E c \in Callers : /\ UnderWay(c) /\ x = request[c].search
                                     /\ request'[c].pc \notin {"search", "usage"}
    PROVE  NotUsedYet'
  <1>1. searches \in Nat /\ \A c \in Callers : request[c].search \in Nat
    BY DEF BooksInv, BookTypes
  <1>2. used \in Seq(Searches) /\ Len(used') \in Nat
    BY DEF CursorsInv, StoreIsOrdered
  <1>3. \A x \in Searches : Occurs(x, used) => x <= searches
    BY <1>2 DEF CursorsInv, NotUsedYet, Occurs
  <1>4. \A x \in Searches : Occurs(x, used') => x <= searches
    BY <1>3 DEF BooksInv, OneServes
  <1>5. searches' \in Nat /\ searches <= searches'
    <2>1. searches' = searches \/ searches' = searches + 1
      BY DEF ApiNext, allVars, apiVars, CallerStep, Refuse, Receive, LimitByRedis,
             LimitByMemory, Decided, ReceiveOther, Begin, EngineSearch, EngineRaises, RecordRow,
             RecordRowRaises, CreateSession, Respond, PageUnknown, PageExpired, PageForeign,
             PageServed, Readiness, ReplaceService, LimiterStep
    <2> QED BY <1>1, <2>1
  <1>6. ASSUME NEW i \in 1 .. Len(used') PROVE used'[i] <= searches'
    <2>1. used'[i] \in Searches /\ Occurs(used'[i], used')
      BY DEF Occurs
    <2>2. used'[i] \in Int
      BY <2>1 DEF Searches
    <2> QED BY <1>1, <1>4, <1>5, <2>1, <2>2
  <1>7. ASSUME NEW d \in Callers, request'[d].pc \in {"search", "usage"},
               Occurs(request'[d].search, used')
        PROVE  FALSE
    <2>1. request'[d].search \in Searches
      BY <1>7 DEF Occurs
    <2>2. UnderWay(d)'
      BY <1>7 DEF UnderWay
    <2>3. CASE request'[d].search = searches + 1
      BY <1>1, <1>4, <1>7, <2>1, <2>3
    <2>4. CASE /\ UnderWay(d) /\ request'[d].search = request[d].search
               /\ request[d].pc \in {"search", "usage"}
      <3>1. ~Occurs(request[d].search, used)
        BY <2>4 DEF CursorsInv, NotUsedYet
      <3>2. PICK c \in Callers : /\ UnderWay(c) /\ request[d].search = request[c].search
                                 /\ request'[c].pc \notin {"search", "usage"}
        BY <1>7, <2>1, <2>4, <3>1
      <3>3. c = d
        BY <2>4, <3>2 DEF BooksInv, OneServes
      <3> QED BY <1>7, <3>2, <3>3
    <2> QED BY <1>7, <2>2, <2>3, <2>4, UnderWayFrom
  <1> QED BY <1>6, <1>7 DEF NotUsedYet

\* Time passes, and a search that has not created its session yet is answered by
\* the engine: neither touches a session that was used.
LEMMA StoreQuiet ==
    ASSUME CursorsInv, BooksInv, clock \in Nat, clock' \in Nat, clock <= clock',
           UNCHANGED <<store, used>>,
           \A s \in Searches : Occurs(s, used) => session'[s] = session[s]
    PROVE  StoreIsOrdered' /\ LiveStay'
  <1>1. StoreIsOrdered'
    BY DEF CursorsInv, StoreIsOrdered
  <1>2. LiveStay'
    <2> SUFFICES ASSUME NEW i \in 1 .. Len(used),
                        session'[used[i]].expires > clock'
                 PROVE  Occurs(used[i], store) \/ Len(used) - i >= MaxSessions
      BY DEF LiveStay
    <2>1. used[i] \in Searches /\ Occurs(used[i], used)
      BY DEF CursorsInv, StoreIsOrdered, Occurs
    <2>2. session[used[i]].expires \in Nat /\ session'[used[i]] = session[used[i]]
      BY <2>1 DEF BooksInv, BookTypes
    <2>3. session[used[i]].expires > clock
      BY <2>2
    <2> QED BY <2>2, <2>3 DEF CursorsInv, LiveStay
  <1> QED BY <1>1, <1>2

\* An expired session that is asked for is deleted.
LEMMA GoneKeeps ==
    ASSUME CursorsInv, BooksInv, clock \in Nat, NEW c \in Callers, PageExpired(c)
    PROVE  StoreIsOrdered' /\ LiveStay' /\ UNCHANGED used
  <1> DEFINE s == request[c].search
  <1>1. /\ store' = Without(store, {s}) /\ session[s].expires <= clock
        /\ UNCHANGED <<vars, session, used>>
    BY DEF PageExpired
  <1>2. clock' = clock
    BY <1>1 DEF vars
  <1>3. /\ store \in Seq(Searches) /\ used \in Seq(Searches)
        /\ Once(store) /\ Once(used) /\ Follows(store, used)
    BY DEF CursorsInv, StoreIsOrdered
  <1> HIDE DEF s
  <1>4. PICK f : PartOf(store', store, {s}, Len(store), f) /\ store' \in Seq(Searches)
    BY <1>1, <1>3, WithoutIsPart
  <1>5. Once(store') /\ Follows(store', used)
    BY <1>3, <1>4, PartFollows
  <1>6. StoreIsOrdered'
    BY <1>1, <1>3, <1>4, <1>5 DEF StoreIsOrdered, CursorsInv
  <1>7. ASSUME NEW i \in 1 .. Len(used),
               session[used[i]].expires > clock
        PROVE  Occurs(used[i], store') \/ Len(used) - i >= MaxSessions
    <2>4. used[i] \in Searches
      BY <1>3
    <2>1. session[used[i]].expires \in Nat
      BY <2>4 DEF BooksInv, BookTypes
    <2>2. used[i] # s
      BY <1>1, <1>7, <2>1
    <2>3. CASE Occurs(used[i], store)
      <3>1. PICK m \in 1 .. Len(store) : store[m] = used[i]
        BY <2>3 DEF Occurs
      <3>2. PICK j \in 1 .. Len(store') : f[j] = m
        BY <1>4, <2>2, <3>1 DEF PartOf
      <3>3. store'[j] = used[i]
        BY <1>4, <3>1, <3>2 DEF PartOf
      <3> QED BY <3>3 DEF Occurs
    <2> QED BY <1>7, <2>3 DEF CursorsInv, LiveStay
  <1>8. LiveStay'
    BY <1>1, <1>2, <1>7 DEF LiveStay
  <1> QED BY <1>1, <1>6, <1>8

\* A session that is read moves to the end.
LEMMA ReadKeeps ==
    ASSUME CursorsInv, BooksInv, clock \in Nat, NEW c \in Callers,
           PageForeign(c) \/ PageServed(c)
    PROVE  /\ StoreIsOrdered' /\ LiveStay'
           /\ \A x \in Searches : Occurs(x, used') => Occurs(x, used)
  <1> DEFINE s == request[c].search
             r == Without(store, {s})
             v == Without(used, {s})
  <1>1. /\ s \in InStore /\ store' = Append(r, s) /\ used' = Append(v, s)
        /\ UNCHANGED <<vars, session>>
    BY DEF PageForeign, PageServed, Found, Use
  <1>2. clock' = clock
    BY <1>1 DEF vars
  <1>3. /\ store \in Seq(Searches) /\ used \in Seq(Searches)
        /\ Once(store) /\ Once(used) /\ Follows(store, used)
    BY DEF CursorsInv, StoreIsOrdered
  <1> HIDE DEF s
  <1>4. PICK a \in 1 .. Len(store) : store[a] = s
    BY <1>1, <1>3 DEF InStore
  <1>5. PICK b \in 1 .. Len(used) : used[b] = s
    BY <1>3, <1>4 DEF Follows, Occurs
  <1>6. r \in Seq(Searches) /\ LessOne(r, store, s, a)
    BY <1>3, <1>4, LeavesItsPlace
  <1>7. v \in Seq(Searches) /\ LessOne(v, used, s, b)
    BY <1>3, <1>5, LeavesItsPlace
  <1>8. Follows(r, v)
    BY <1>3, <1>4, <1>5, WithoutFollows
  <1>9. s \in Searches
    BY <1>3, <1>4
  <1> HIDE DEF r, v
  <1>10. /\ Once(r) /\ Once(v) /\ ~Occurs(s, v) /\ Len(v) = Len(used) - 1
    BY <1>6, <1>7 DEF LessOne
  <1>11. Once(store') /\ Once(used') /\ Follows(store', used')
    BY <1>1, <1>6, <1>7, <1>8, <1>9, <1>10, AppendFollows
  <1>12. /\ store' \in Seq(Searches) /\ Len(store') = Len(r) + 1 /\ Len(r) \in Nat
         /\ store'[Len(r) + 1] = s /\ \A i \in 1 .. Len(r) : store'[i] = r[i]
    BY <1>1, <1>6, <1>9
  <1>13. /\ used' \in Seq(Searches) /\ Len(used') = Len(v) + 1 /\ Len(v) \in Nat
         /\ used'[Len(v) + 1] = s /\ \A i \in 1 .. Len(v) : used'[i] = v[i]
    BY <1>1, <1>7, <1>9
  <1>14. StoreIsOrdered'
    BY <1>1, <1>11, <1>12, <1>13 DEF StoreIsOrdered, CursorsInv
  <1>15. ASSUME NEW i \in 1 .. Len(v)
         PROVE  \E m \in 1 .. Len(used) : v[i] = used[m] /\ i <= m /\ used[m] # s
    <2>1. PICK m \in 1 .. Len(used) :
            v[i] = used[m] /\ (m < b => i = m) /\ (m >= b => m > b /\ i = m - 1)
      BY <1>7 DEF LessOne
    <2>2. v[i] # s
      BY <1>10 DEF Occurs
    <2>3. i <= m
      BY <1>13, <2>1
    <2> QED BY <2>1, <2>2, <2>3
  <1>16. ASSUME NEW i \in 1 .. Len(used'),
                session[used'[i]].expires > clock
         PROVE  Occurs(used'[i], store') \/ Len(used') - i >= MaxSessions
    <2>1. CASE i = Len(v) + 1
      <3>1. Len(r) + 1 \in 1 .. Len(store')
        BY <1>12
      <3> QED BY <1>12, <1>13, <2>1, <3>1 DEF Occurs
    <2>2. CASE i \in 1 .. Len(v)
      <3>1. PICK m \in 1 .. Len(used) : used'[i] = used[m] /\ i <= m /\ used[m] # s
        BY <1>13, <1>15, <2>2
      <3>2. CASE Occurs(used[m], store)
        <4>1. PICK n \in 1 .. Len(store) : store[n] = used[m]
          BY <3>2 DEF Occurs
        <4>2. n # a
          BY <1>4, <3>1, <4>1
        <4>3. Occurs(used[m], r)
          BY <1>6, <4>1, <4>2 DEF LessOne, Occurs
        <4>4. \A j \in 1 .. Len(r) : j \in 1 .. Len(store')
          BY <1>12
        <4> QED BY <1>12, <3>1, <4>3, <4>4 DEF Occurs
      <3>3. CASE Len(used) - m >= MaxSessions
        <4>1. Len(used') = Len(used) /\ Len(used) \in Nat
          BY <1>3, <1>10, <1>13
        <4> QED BY <3>1, <3>3, <4>1, SessionsAssumption
      <3> QED BY <1>16, <3>1, <3>2, <3>3 DEF CursorsInv, LiveStay
    <2> QED BY <1>13, <2>1, <2>2
  <1>17. LiveStay'
    BY <1>1, <1>2, <1>16 DEF LiveStay
  <1>18. ASSUME NEW x \in Searches, Occurs(x, used') PROVE Occurs(x, used)
    <2>1. PICK i \in 1 .. Len(used') : used'[i] = x
      BY <1>18 DEF Occurs
    <2>2. CASE i = Len(v) + 1
      BY <1>5, <1>13, <2>1, <2>2 DEF Occurs
    <2>3. CASE i \in 1 .. Len(v)
      BY <1>13, <1>15, <2>1, <2>3 DEF Occurs
    <2> QED BY <1>13, <2>2, <2>3
  <1> QED BY <1>14, <1>17, <1>18

\* A sequence is itself without what does not occur in it.
LEMMA NothingToLeave ==
    ASSUME NEW T, NEW q \in Seq(T), NEW s, ~Occurs(s, q)
    PROVE  Without(q, {s}) = q
  <1>7. Len(q) + 1 \in Nat \ {0}
    OBVIOUS
  <1>1. PICK p \in Nat \ {0} : p = Len(q) + 1
    BY <1>7
  <1>2. OnlyAt(p, q, {s})
    BY <1>1 DEF Occurs, OnlyAt
  <1> DEFINE r == Without(q, {s})
  <1>8. r \in Seq(T) /\ MovedUp(r, q, p)
    BY <1>2, WithoutOne
  <1> HIDE DEF r
  <1>3. /\ r \in Seq(T) /\ Len(r) = IF p <= Len(q) THEN Len(q) - 1 ELSE Len(q)
        /\ \A i \in 1 .. Len(r) : r[i] = IF i < p THEN q[i] ELSE q[i + 1]
    BY <1>8 DEF MovedUp
  <1>4. Len(r) = Len(q) /\ \A i \in 1 .. Len(q) : r[i] = q[i]
    BY <1>1, <1>3
  <1>5. r = [i \in 1 .. Len(r) |-> r[i]] /\ q = [i \in 1 .. Len(q) |-> q[i]]
    BY <1>3
  <1>6. r = q
    BY <1>4, <1>5
  <1> QED BY <1>6 DEF r

\* A session that is created takes the room of expired ones, then of the oldest.
LEMMA CreatedKeeps ==
    ASSUME CursorsInv, BooksInv, clock \in Nat, NEW c \in Callers, CreateSession(c)
    PROVE  /\ StoreIsOrdered' /\ LiveStay'
           /\ \A x \in Searches : Occurs(x, used') =>
                Occurs(x, used) \/ x = request[c].search
  <1> DEFINE s == request[c].search
             gone == {x \in Searches : session[x].expires <= clock}
             w == Without(store, gone)
             q == Append(w, s)
  <1>1. /\ request[c].pc = "usage" /\ UNCHANGED vars
        /\ session' = [session EXCEPT ![s].expires = clock + SessionTtl]
        /\ store' = Evicted(q) /\ used' = Append(Without(used, {s}), s)
    BY DEF CreateSession, Use, Unexpired
  <1>2. clock' = clock
    BY <1>1 DEF vars
  <1>3. /\ store \in Seq(Searches) /\ used \in Seq(Searches)
        /\ Once(store) /\ Once(used) /\ Follows(store, used)
    BY DEF CursorsInv, StoreIsOrdered
  <1>4. s \in Searches /\ ~Occurs(s, used)
    BY <1>1 DEF CursorsInv, NumbersFit, NotUsedYet, UnderWay
  <1>5. session \in [Searches -> [items : Nat, rows : Nat, expires : Nat, company : Who]]
    BY DEF BooksInv, BookTypes
  <1> HIDE DEF s
  <1>6. \A x \in Searches : x # s => session'[x] = session[x]
    BY <1>1, <1>4, <1>5
  <1>8. CASE /\ store' = Evicted(q) /\ used' = Append(Without(used, {s}), s)
    <2>1. used' = Append(used, s)
      BY <1>3, <1>4, <1>8, NothingToLeave
    <2> HIDE DEF gone
    <2>2. w \in Seq(Searches) /\ \E f : PartOf(w, store, gone, Len(store), f)
      BY <1>3, WithoutIsPart
    <2> HIDE DEF w
    <2>3. PICK f : PartOf(w, store, gone, Len(store), f)
      BY <2>2
    <2>4. Once(w) /\ Follows(w, used)
      BY <1>3, <2>2, <2>3, PartFollows
    <2>5. Once(q) /\ Once(used') /\ Follows(q, used')
      BY <1>3, <1>4, <2>1, <2>2, <2>4, AppendFollows
    <2>6. /\ q \in Seq(Searches) /\ Len(q) = Len(w) + 1 /\ Len(w) \in Nat
          /\ q[Len(w) + 1] = s /\ \A i \in 1 .. Len(w) : q[i] = w[i]
      BY <1>4, <2>2
    <2>7. /\ used' \in Seq(Searches) /\ Len(used') = Len(used) + 1 /\ Len(used) \in Nat
          /\ used'[Len(used) + 1] = s /\ \A i \in 1 .. Len(used) : used'[i] = used[i]
      BY <1>3, <1>4, <2>1
    <2> HIDE DEF q
    <2>8. PICK d \in Nat :
            /\ d <= Len(q) /\ (d = 0 \/ d = Len(q) - MaxSessions)
            /\ store' = SubSeq(q, d + 1, Len(q))
      <3>1. CASE Len(q) > MaxSessions
        <4>1. /\ Len(q) - MaxSessions \in Nat /\ Len(q) - MaxSessions <= Len(q)
          BY <2>6, <3>1, SessionsAssumption
        <4> QED BY <1>8, <3>1, <4>1 DEF Evicted
      <3>2. CASE ~(Len(q) > MaxSessions)
        <4>1. SubSeq(q, 0 + 1, Len(q)) = q
          BY <2>6
        <4>2. 0 \in Nat /\ 0 <= Len(q) /\ store' = q
          BY <1>8, <2>6, <3>2 DEF Evicted
        <4> QED BY <4>1, <4>2
      <3> QED BY <3>1, <3>2
    <2>9. /\ store' \in Seq(Searches) /\ Len(store') = Len(q) - d
          /\ \A i \in 1 .. Len(store') : store'[i] = q[i + d]
          /\ Once(store') /\ Follows(store', used')
      <3>1. PICK u \in Seq(Searches) : u = used'
        BY <2>7
      <3>2. Once(q) /\ Follows(q, u) /\ q \in Seq(Searches)
        BY <2>5, <2>6, <3>1
      <3>3. store' = Behind(q, d)
        BY <2>8 DEF Behind
      <3>4. d \in Nat /\ d <= Len(q)
        BY <2>8
      <3>5. /\ Behind(q, d) \in Seq(Searches) /\ CutOff(Behind(q, d), q, d)
            /\ Once(Behind(q, d)) /\ Follows(Behind(q, d), u)
        BY <3>2, <3>4, EvictedFollows
      <3> QED BY <3>1, <3>3, <3>5 DEF CutOff
    <2>10. StoreIsOrdered'
      BY <1>1, <1>6, <2>5, <2>7, <2>9 DEF StoreIsOrdered, CursorsInv
    <2>11. ASSUME NEW n \in 1 .. Len(q), NEW k \in 1 .. Len(used'), q[n] = used'[k]
           PROVE  Occurs(used'[k], store') \/ Len(used') - k >= MaxSessions
      <3>1. CASE n > d
        <4>1. n - d \in 1 .. Len(store') /\ (n - d) + d = n
          BY <2>6, <2>8, <2>9, <3>1
        <4>2. store'[n - d] = used'[k]
          BY <2>9, <2>11, <4>1
        <4> QED BY <4>1, <4>2 DEF Occurs
      <3>2. CASE ~(n > d)
        <4>1. d = Len(q) - MaxSessions /\ Len(q) \in 1 .. Len(q) /\ n <= Len(q)
          BY <2>6, <2>8, <3>2
        <4>2. q[Len(q)] = used'[Len(used')] /\ Len(used') \in 1 .. Len(used')
          BY <2>6, <2>7
        <4>3. Len(used') - k >= Len(q) - n
          BY <2>5, <2>11, <4>1, <4>2 DEF Follows
        <4> QED BY <2>6, <2>7, <3>2, <4>1, <4>3, SessionsAssumption
      <3> QED BY <2>6, <2>8, <3>1, <3>2
    <2>12. ASSUME NEW k \in 1 .. Len(used'),
                  session'[used'[k]].expires > clock
           PROVE  Occurs(used'[k], store') \/ Len(used') - k >= MaxSessions
      <3>1. CASE k = Len(used) + 1
        <4>1. Len(q) \in 1 .. Len(q) /\ q[Len(q)] = used'[k]
          BY <2>6, <2>7, <3>1
        <4> QED BY <2>11, <4>1
      <3>2. CASE k \in 1 .. Len(used)
        <4>1. used[k] \in Searches /\ used'[k] = used[k]
          BY <1>3, <2>7, <3>2
        <4>2. used[k] # s
          BY <1>4, <3>2 DEF Occurs
        <4>3. session'[used[k]] = session[used[k]] /\ session[used[k]].expires \in Nat
          BY <1>5, <1>6, <4>1, <4>2
        <4>4. used[k] \notin gone
          BY <2>12, <4>1, <4>3 DEF gone
        <4>5. CASE Occurs(used[k], store)
          <5>1. PICK m \in 1 .. Len(store) : store[m] = used[k]
            BY <4>5 DEF Occurs
          <5>2. PICK n \in 1 .. Len(w) : f[n] = m
            BY <2>3, <4>4, <5>1 DEF PartOf
          <5>3. w[n] = used[k]
            BY <2>3, <5>1, <5>2 DEF PartOf
          <5>4. n \in 1 .. Len(q) /\ q[n] = used'[k]
            BY <2>6, <4>1, <5>3
          <5> QED BY <2>11, <5>4
        <4>6. CASE Len(used) - k >= MaxSessions
          BY <2>7, <3>2, <4>6, SessionsAssumption
        <4> QED BY <2>12, <3>2, <4>1, <4>3, <4>5, <4>6 DEF CursorsInv, LiveStay
      <3> QED BY <2>7, <3>1, <3>2
    <2>13. LiveStay'
      BY <1>1, <1>2, <2>12 DEF LiveStay
    <2>14. ASSUME NEW x \in Searches, Occurs(x, used')
           PROVE  Occurs(x, used) \/ x = s
      <3>1. PICK i \in 1 .. Len(used') : used'[i] = x
        BY <2>14 DEF Occurs
      <3>2. i \in 1 .. Len(used) \/ i = Len(used) + 1
        BY <2>7
      <3> QED BY <2>7, <3>1, <3>2 DEF Occurs
    <2> QED BY <2>10, <2>13, <2>14 DEF s
  <1> QED BY <1>1, <1>8

\* The companies of the sessions, and who was shown a page.
SessionsKept == \A s \in Searches : session'[s].company = session[s].company

\* A session's company is written once, by the search's own step.
LEMMA CompanyStays ==
    ASSUME BooksInv, [ApiNext]_allVars, \A c \in Callers : ~EngineSearch(c)
    PROVE  SessionsKept
  <1>1. session \in [Searches -> [items : Nat, rows : Nat, expires : Nat, company : Who]]
    BY DEF BooksInv, BookTypes
  <1>2. ASSUME NEW c \in Callers, CreateSession(c)
        PROVE  SessionsKept
    <2>1. session' = [session EXCEPT ![request[c].search].expires = clock + SessionTtl]
      BY <1>2 DEF CreateSession
    <2>2. \A x : \A e \in [items : Nat, rows : Nat, expires : Nat, company : Who] :
            [e EXCEPT !.expires = x].company = e.company
      OBVIOUS
    <2>3. \A s \in Searches : session'[s] = IF s = request[c].search
            THEN [session[s] EXCEPT !.expires = clock + SessionTtl] ELSE session[s]
      BY <1>1, <2>1
    <2> QED BY <1>1, <2>2, <2>3 DEF SessionsKept
  <1>3. CASE UNCHANGED session
    BY <1>3 DEF SessionsKept
  <1>4. ASSUME NEW c \in Callers, CallerStep(c), ~CreateSession(c)
        PROVE  UNCHANGED session
    BY <1>4 DEF CallerStep, Refuse, Receive, ReceiveOther, LimitByRedis, LimitByMemory, Decided,
                EngineRaises, RecordRow, RecordRowRaises, Respond, PageUnknown, PageExpired,
                PageForeign, PageServed
  <1>5. CASE Readiness \/ ReplaceService \/ LimiterStep \/ UNCHANGED allVars
    BY <1>3, <1>5 DEF Readiness, ReplaceService, LimiterStep, allVars, apiVars
  <1> QED BY <1>2, <1>3, <1>4, <1>5 DEF ApiNext

\* A page is shown to the session's company only.
LEMMA ShownFrom ==
    ASSUME CursorsInv, BooksInv, [ApiNext]_allVars, NEW p \in shown', p \notin shown
    PROVE  /\ p[2] \in Searches /\ p[2] <= searches /\ session[p[2]].company = p[1]
           /\ \A c \in Callers : request[c].pc = "search" => request[c].search # p[2]
           /\ \A c \in Callers : ~EngineSearch(c)
  <1>1. PICK c \in Callers : CallerStep(c)
    BY DEF ApiNext, Readiness, ReplaceService, LimiterStep, allVars, apiVars
  <1>2. Respond(c) \/ PageServed(c)
    BY <1>1 DEF CallerStep, Refuse, Receive, ReceiveOther, LimitByRedis, LimitByMemory, Decided,
                EngineSearch, EngineRaises, RecordRow, RecordRowRaises, CreateSession,
                PageUnknown, PageExpired, PageForeign
  <1>3. p = <<request[c].company, request[c].search>> /\ UNCHANGED session
    BY <1>2 DEF Respond, PageServed, Show
  <1>4. \A d \in Callers : ~EngineSearch(d)
    <2>1. DOMAIN request = Callers
      BY DEF BooksInv, BookTypes
    <2>2. request'[c] = NoRequest /\ \A d \in Callers : d # c => request'[d] = request[d]
      BY <1>2, <2>1 DEF Respond, PageServed, Found, Step
    <2>3. request \in [Callers -> [pc : {"none", "limit", "search", "usage", "record", "page"},
                                  company : Who, search : Nat, offset : Nat, rows : Nat]]
      BY DEF BooksInv, BookTypes
    <2>4. ASSUME NEW d \in Callers, EngineSearch(d) PROVE request'[d].pc = "usage" /\ request[d].pc = "search"
      <3>1. PICK k \in ModelCalls :
              request' = [request EXCEPT ![d] = [request[d] EXCEPT !.pc = "usage", !.rows = 1 + k]]
        BY <2>4 DEF EngineSearch, Step
      <3>2. [request[d] EXCEPT !.pc = "usage", !.rows = 1 + k].pc = "usage"
        BY <2>3
      <3> QED BY <2>1, <2>4, <3>1, <3>2 DEF EngineSearch
    <2>5. NoRequest.pc = "none"
      BY DEF NoRequest
    <2> QED BY <2>2, <2>4, <2>5
  <1>5. CASE Respond(c)
    <2>1. UnderWay(c) /\ request[c].pc = "record"
      BY <1>5 DEF Respond, UnderWay
    <2>2. request[c].search \in Searches /\ session[request[c].search].company = request[c].company
      BY <2>1 DEF CursorsInv, NumbersFit, SessionIsOwn
    <2>3. \A d \in Callers : request[d].pc = "search" => request[d].search # request[c].search
      BY <2>1 DEF BooksInv, OneServes, UnderWay
    <2>4. request[c].search <= searches
      BY <2>1 DEF BooksInv, OneServes
    <2> QED BY <1>3, <1>4, <2>2, <2>3, <2>4
  <1>6. CASE PageServed(c)
    <2>1. request[c].search \in InStore /\ session[request[c].search].company = request[c].company
      BY <1>6 DEF PageServed, Found
    <2>2. PICK i \in 1 .. Len(store) : store[i] = request[c].search
      BY <2>1 DEF InStore, CursorsInv, StoreIsOrdered
    <2>3. Occurs(request[c].search, used) /\ request[c].search \in Searches
      BY <2>2 DEF CursorsInv, StoreIsOrdered, Follows, Occurs
    <2>4. request[c].search <= searches
      BY <2>3 DEF CursorsInv, NotUsedYet, Occurs
    <2>5. \A d \in Callers : request[d].pc = "search" => request[d].search # request[c].search
      BY <2>3 DEF CursorsInv, NotUsedYet
    <2> QED BY <1>3, <1>4, <2>1, <2>3, <2>4, <2>5
  <1> QED BY <1>2, <1>5, <1>6

\* Whatever a step does, sessions and pages stay with their company.
LEMMA TenantKeeps ==
    ASSUME CursorsInv, BooksInv, NumbersFit', [ApiNext]_allVars
    PROVE  SessionIsOwn' /\ PagesAreOwn'
  <1>1. searches \in Nat /\ \A s \in Searches : s \in Nat
    BY MaxRequestsAssumption DEF BooksInv, BookTypes, Searches
  <1>2. searches' = searches \/ searches' = searches + 1
    BY <1>1 DEF ApiNext, allVars, apiVars, CallerStep, Refuse, Receive, LimitByRedis,
           LimitByMemory, Decided, ReceiveOther, Begin, EngineSearch, EngineRaises, RecordRow,
           RecordRowRaises, CreateSession, Respond, PageUnknown, PageExpired, PageForeign,
           PageServed, Readiness, ReplaceService, LimiterStep
  <1>3. ASSUME NEW p, p[2] \in Searches, p[2] <= searches,
               \A c \in Callers : request[c].pc = "search" => request[c].search # p[2]
        PROVE  /\ p[2] <= searches'
               /\ \A c \in Callers : request'[c].pc = "search" => request'[c].search # p[2]
    <2>1. p[2] <= searches'
      BY <1>1, <1>2, <1>3
    <2>2. ASSUME NEW c \in Callers, request'[c].pc = "search"
          PROVE  request'[c].search # p[2]
      <3>1. UnderWay(c)'
        BY <2>2 DEF UnderWay
      <3>2. \/ request'[c].search = request[c].search /\ request[c].pc = "search"
            \/ request'[c].search = searches + 1
        BY <2>2, <3>1, UnderWayFrom
      <3> QED BY <1>1, <1>3, <3>2
    <2> QED BY <2>1, <2>2
  <1>4. ASSUME NEW c \in Callers, EngineSearch(c)
        PROVE  SessionIsOwn' /\ PagesAreOwn'
    <2>1. PICK n \in ItemCounts, k \in ModelCalls :
            /\ Step(c, [request[c] EXCEPT !.pc = "usage", !.rows = 1 + k])
            /\ session' = [session EXCEPT ![request[c].search] =
                            [items |-> n, rows |-> 1 + k, expires |-> 0,
                             company |-> request[c].company]]
      BY <1>4 DEF EngineSearch
    <2>2. request[c].pc = "search" /\ UnderWay(c) /\ UNCHANGED shown
      BY <1>4 DEF EngineSearch, UnderWay
    <2>3. /\ request \in [Callers -> [pc : {"none", "limit", "search", "usage", "record", "page"},
                                      company : Who, search : Nat, offset : Nat, rows : Nat]]
          /\ DOMAIN session = Searches
      BY DEF BooksInv, BookTypes
    <2>4. \A s \in Searches : session'[s].company =
            IF s = request[c].search THEN request[c].company ELSE session[s].company
      BY <2>1, <2>3
    <2>5. \A d \in Callers : d # c => request'[d] = request[d]
      BY <2>1, <2>3 DEF Step
    <2>6. /\ request'[c].search = request[c].search /\ request'[c].company = request[c].company
      <3>1. /\ [request[c] EXCEPT !.pc = "usage", !.rows = 1 + k].search = request[c].search
            /\ [request[c] EXCEPT !.pc = "usage", !.rows = 1 + k].company = request[c].company
        BY <2>3
      <3>2. request'[c] = [request[c] EXCEPT !.pc = "usage", !.rows = 1 + k]
        BY <2>1, <2>3 DEF Step
      <3> QED BY <3>1, <3>2
    <2>7. \A d \in Callers : UnderWay(d) => request[d].search \in Searches
      BY DEF CursorsInv, NumbersFit
    <2>8. SessionIsOwn'
      <3> SUFFICES ASSUME NEW d \in Callers, request'[d].pc \in {"usage", "record"}
                   PROVE  session'[request'[d].search].company = request'[d].company
        BY DEF SessionIsOwn
      <3>1. CASE d = c
        BY <2>2, <2>4, <2>6, <2>7, <3>1
      <3>2. CASE d # c
        <4>1. request'[d] = request[d] /\ UnderWay(d)
          BY <2>5, <3>2 DEF UnderWay
        <4>2. request[d].search # request[c].search
          BY <2>2, <3>2, <4>1 DEF BooksInv, OneServes
        <4> QED BY <2>4, <2>7, <4>1, <4>2 DEF CursorsInv, SessionIsOwn
      <3> QED BY <3>1, <3>2
    <2>9. PagesAreOwn'
      <3> SUFFICES ASSUME NEW p \in shown
                   PROVE  /\ p[2] \in Searches /\ p[2] <= searches'
                          /\ session'[p[2]].company = p[1]
                          /\ \A d \in Callers :
                               request'[d].pc = "search" => request'[d].search # p[2]
        BY <2>2 DEF PagesAreOwn
      <3>1. /\ p[2] \in Searches /\ p[2] <= searches /\ session[p[2]].company = p[1]
            /\ \A d \in Callers : request[d].pc = "search" => request[d].search # p[2]
        BY DEF CursorsInv, PagesAreOwn
      <3>2. session'[p[2]].company = p[1]
        BY <2>2, <2>4, <3>1
      <3> QED BY <1>3, <3>1, <3>2
    <2> QED BY <2>8, <2>9
  <1>5. CASE \A c \in Callers : ~EngineSearch(c)
    <2>1. SessionsKept
      BY <1>5, CompanyStays
    <2>2. SessionIsOwn'
      <3> SUFFICES ASSUME NEW d \in Callers, request'[d].pc \in {"usage", "record"}
                   PROVE  session'[request'[d].search].company = request'[d].company
        BY DEF SessionIsOwn
      <3>1. UnderWay(d)'
        BY DEF UnderWay
      <3>2. /\ UnderWay(d) /\ request[d].pc # "search"
            /\ request'[d].search = request[d].search /\ request'[d].company = request[d].company
        BY <1>5, <3>1, UnderWayFrom
      <3>3. request[d].pc \in {"usage", "record"}
        BY <3>2 DEF UnderWay
      <3>4. request'[d].search \in Searches
        BY <3>1 DEF NumbersFit
      <3> QED BY <2>1, <3>2, <3>3, <3>4 DEF SessionsKept, CursorsInv, SessionIsOwn
    <2>3. PagesAreOwn'
      <3> SUFFICES ASSUME NEW p \in shown'
                   PROVE  /\ p[2] \in Searches /\ p[2] <= searches'
                          /\ session'[p[2]].company = p[1]
                          /\ \A d \in Callers :
                               request'[d].pc = "search" => request'[d].search # p[2]
        BY DEF PagesAreOwn
      <3>1. /\ p[2] \in Searches /\ p[2] <= searches /\ session[p[2]].company = p[1]
            /\ \A d \in Callers : request[d].pc = "search" => request[d].search # p[2]
        BY ShownFrom DEF CursorsInv, PagesAreOwn
      <3>2. session'[p[2]].company = p[1]
        BY <2>1, <3>1 DEF SessionsKept
      <3> QED BY <1>3, <3>1, <3>2
    <2> QED BY <2>2, <2>3
  <1> QED BY <1>4, <1>5

\* Every step keeps the sessions that are in use.
LEMMA NextCursors ==
    ASSUME CursorsInv, BooksInv, TypeOK, TypeOK', [ApiNext]_allVars
    PROVE  CursorsInv'
  <1>1. clock \in Nat /\ clock' \in Nat
    BY DEF TypeOK
  <1>2. LimitLasts' /\ NumbersSuffice'
    BY LimitKeeps
  <1>3. NumbersFit' /\ SessionIsOwn' /\ PagesAreOwn'
    BY <1>2, NumbersKeep, TenantKeeps
  <1>4. SUFFICES /\ StoreIsOrdered' /\ LiveStay'
                 /\ \A x \in Searches : Occurs(x, used') =>
                      \/ Occurs(x, used)
                      \/ \E c \in Callers : /\ UnderWay(c) /\ x = request[c].search
                                            /\ request'[c].pc \notin {"search", "usage"}
    <2>1. StoreIsOrdered' => used' \in Seq(Searches)
      BY DEF StoreIsOrdered
    <2> QED BY <1>2, <1>3, <2>1, UseKeeps DEF CursorsInv
  <1>5. request \in [Callers -> [pc : {"none", "limit", "search", "usage", "record", "page"},
                                 company : Who, search : Nat, offset : Nat, rows : Nat]]
    BY DEF BooksInv, BookTypes
  <1>6. ASSUME UNCHANGED <<store, used>>, clock <= clock',
               \A s \in Searches : Occurs(s, used) => session'[s] = session[s]
        PROVE  /\ StoreIsOrdered' /\ LiveStay'
               /\ \A x \in Searches : Occurs(x, used') => Occurs(x, used)
    BY <1>1, <1>6, StoreQuiet
  <1>7. ASSUME NEW c \in Callers, EngineSearch(c)
        PROVE  /\ StoreIsOrdered' /\ LiveStay'
               /\ \A x \in Searches : Occurs(x, used') => Occurs(x, used)
    <2>1. PICK n \in ItemCounts, k \in ModelCalls :
            session' = [session EXCEPT ![request[c].search] =
                          [items |-> n, rows |-> 1 + k, expires |-> 0, company |-> request[c].company]]
      BY <1>7 DEF EngineSearch
    <2>2. request[c].pc = "search" /\ UNCHANGED <<vars, store, used>>
      BY <1>7 DEF EngineSearch
    <2>3. ~Occurs(request[c].search, used)
      BY <2>2 DEF CursorsInv, NotUsedYet
    <2>4. DOMAIN session = Searches
      BY DEF BooksInv, BookTypes
    <2>5. \A s \in Searches : session'[s] = IF s = request[c].search
            THEN [items |-> n, rows |-> 1 + k, expires |-> 0, company |-> request[c].company]
            ELSE session[s]
      BY <2>1, <2>4
    <2>7. clock' = clock
      BY <2>2 DEF vars
    <2> QED BY <1>1, <1>6, <2>2, <2>3, <2>5, <2>7
  <1>8. ASSUME NEW c \in Callers, CreateSession(c)
        PROVE  /\ StoreIsOrdered' /\ LiveStay'
               /\ \A x \in Searches : Occurs(x, used') =>
                    \/ Occurs(x, used)
                    \/ \E d \in Callers : /\ UnderWay(d) /\ x = request[d].search
                                          /\ request'[d].pc \notin {"search", "usage"}
    <2>1. UnderWay(c)
      BY <1>8 DEF CreateSession, UnderWay
    <2>2. request' = [request EXCEPT ![c] = [request[c] EXCEPT !.pc = "record"]]
      BY <1>8 DEF CreateSession, Step
    <2>3. request'[c].pc = "record"
      BY <1>5, <2>2
    <2> QED BY <1>1, <1>8, <2>1, <2>3, CreatedKeeps
  <1>9. ASSUME NEW c \in Callers,
               \/ Refuse(c) \/ Receive(c) \/ LimitByRedis(c) \/ LimitByMemory(c)
               \/ ReceiveOther(c) \/ EngineRaises(c) \/ RecordRow(c) \/ RecordRowRaises(c) \/ Respond(c)
               \/ PageUnknown(c)
        PROVE  /\ StoreIsOrdered' /\ LiveStay'
               /\ \A x \in Searches : Occurs(x, used') => Occurs(x, used)
    <2>1. UNCHANGED <<store, used, session>>
      BY <1>9 DEF Refuse, Receive, LimitByRedis, LimitByMemory, Decided, ReceiveOther, EngineRaises,
                  RecordRow, RecordRowRaises, Respond, PageUnknown
    <2>2. UNCHANGED clock
      BY <1>9 DEF Refuse, Receive, Ask, LimitByRedis, LimitByMemory, RedisAnswers,
                  MemoryDecides, ReceiveOther, EngineRaises, RecordRow, RecordRowRaises, Respond,
                  PageUnknown, vars
    <2> QED BY <1>1, <1>6, <2>1, <2>2
  <1>10. CASE Readiness \/ ReplaceService \/ LimiterStep \/ UNCHANGED allVars
    <2>1. UNCHANGED <<store, used, session>>
      BY <1>10 DEF Readiness, ReplaceService, LimiterStep, allVars, apiVars
    <2>2. clock' = clock \/ clock' = clock + 1
      BY <1>10 DEF Readiness, ReplaceService, LimiterStep, RedisFails, RedisAnswerLost, Expire, Tick,
                   allVars, vars
    <2>4. clock <= clock'
      BY <1>1, <2>2
    <2> QED BY <1>6, <2>1, <2>4
  <1>12. ASSUME NEW c \in Callers, PageExpired(c) \/ PageForeign(c) \/ PageServed(c)
         PROVE  /\ StoreIsOrdered' /\ LiveStay'
                /\ \A x \in Searches : Occurs(x, used') => Occurs(x, used)
    BY <1>1, <1>12, GoneKeeps, ReadKeeps
  <1>13. CASE \E c \in Callers : CallerStep(c)
    <2>1. PICK c \in Callers : CallerStep(c)
      BY <1>13
    <2>2. CASE CreateSession(c)
      BY <1>8, <2>2
    <2>3. CASE EngineSearch(c)
      BY <1>7, <2>3
    <2>4. CASE PageExpired(c) \/ PageForeign(c) \/ PageServed(c)
      BY <1>12, <2>4
    <2> QED BY <1>9, <2>1, <2>2, <2>3, <2>4 DEF CallerStep
  <1> QED BY <1>10, <1>13 DEF ApiNext

\* A session is given up before its time only when max_sessions others have been
\* created or read since its last use, and no page of it goes to another company, for
\* any callers, tenants, sessions, requests and replacements of services
\* (SearchSessionStore, ProductSearchService.search).
THEOREM CursorsSurvive == ApiSpec => []CursorsAreKept
  <1>1. ApiSpec => []BudgetInv
    BY ApiUsesBucket, BudgetInvariance, PTL
  <1>2. BudgetInv => TypeOK
    BY DEF BudgetInv
  <1>3. CursorsInv /\ BooksInv /\ TypeOK /\ TypeOK' /\ [ApiNext]_allVars => CursorsInv'
    BY NextCursors
  <1> QED BY <1>1, <1>2, <1>3, BooksInvariance, InitCursors, CursorsImply, PTL DEF ApiSpec
=============================================================================
