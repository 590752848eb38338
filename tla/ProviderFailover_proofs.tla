----------------------- MODULE ProviderFailover_proofs -----------------------
(***************************************************************************)
(* Proofs about ProviderFailover, for every set of threads, every order of *)
(* providers and models, all limits, windows and cooldowns, and any time   *)
(* that is explored:                                                       *)
(*   FailoverHolds  the process loads one reranker; a limiter never admits *)
(*                  more calls per window than its budget although threads *)
(*                  read the clock before they take its lock; and a        *)
(*                  cooldown lets through at most one call of each thread  *)
(*                  and not one of every thread;                           *)
(*   UsageHolds     the tokens the attempts of a call report are those     *)
(*                  that its providers billed.                             *)
(*                                                                         *)
(* Neither property is inductive.  The budget holds because the deque of a *)
(* limiter is the end of everything it ever admitted, and what is no       *)
(* longer in it has left the window (DequesAreSuffixes).  The cooldown     *)
(* holds because a thread that is past the test has not slipped yet, and   *)
(* the thread whose failure set the cooldown is past no test (FewSlip).    *)
(* The usage holds because the head of compute_score has cleared the       *)
(* thread's metrics by the time a call is made (UsageIsFresh).             *)
(*                                                                         *)
(* The second part is about Retrieval, the search whose results the        *)
(* rerankers score, for any finite catalogue, every request, all windows,  *)
(* floors and weights, and any number of changes meanwhile:                *)
(*   FiltersHold    whatever way a product came, it is what was asked for; *)
(*   ShadowHolds    where the shadow comparison reports equal rows, the    *)
(*                  optimized query gives the same results;                *)
(*   RankingHolds   what the ranking decided is kept to the page, and a    *)
(*                  verified owner overtakes only a close score;           *)
(*   ExhaustHolds   a page with room left leaves out nothing but what the  *)
(*                  reranker was given.                                    *)
(*                                                                         *)
(* An order of the model is a function that CHOOSEs, for every place, the  *)
(* element with that many others before it.  It exists because every order *)
(* compares integer keys and then a place of its own, so that the number   *)
(* of elements before an element is an injection into the places and, the  *)
(* set being finite, a surjection (RankGrows, EveryPlace).  The filters    *)
(* hold because whatever is handed on fits (PathsInv).  The ranking holds  *)
(* because the candidates are sorted, the parts of the tail are apart and  *)
(* within the page (RankingInv).  A page is exhausted because the tail is  *)
(* full or has everything that it has passed (CatalogueInv).               *)
(***************************************************************************)
EXTENDS ProviderFailover, Retrieval, TLAPS, WellFoundedInduction, FiniteSetTheorems,
        SequenceTheorems

AllProviders == Rerankers \union QueryProviders
Fields == {"pc", "op", "pos", "read", "lim", "deadline", "attempts"}

\* The steps at which a thread has its turn at a provider.
Calling == {"cooldown", "clock", "allow", "post", "waiting"}
Attempts == [status : {"success", "fallback", "failed"}, tokens : {0, 1}]

ThreadIsSound(t) ==
    /\ DOMAIN thread[t] = Fields
    /\ thread[t].pc \in Steps
    /\ thread[t].op \in {"none", "plan", "rank"}
    /\ thread[t].read \in Nat
    /\ thread[t].attempts \in Seq(Attempts)
    /\ thread[t].pc \in Calling =>
         thread[t].op # "none" /\ thread[t].pos \in Places(thread[t].op)
    /\ thread[t].pc \in {"ensure", "load", "locked", "cooldown"} => thread[t].op = "rank"

ThreadsAreSound ==
    /\ thread = [t \in Threads |-> thread[t]]
    /\ \A t \in Threads : ThreadIsSound(t)

Numbers ==
    /\ now \in 0 .. MaxTime
    /\ ranker \in {"none", "loaded"}
    /\ loads \in Nat
    /\ until \in [Rerankers -> Nat]
    /\ usage \in [Threads -> [AllProviders -> {0, 1}]]
    /\ billed \in [Threads -> Nat]
    /\ slipped \in [Rerankers -> [Threads -> Nat]]
    /\ requests \in [Limiters -> Seq(Nat)] /\ shared \in [Limiters -> Seq(Nat)]
    /\ stamps \in [Limiters -> Seq(Nat)] /\ latest \in [Limiters -> Nat]

LoadedOnce ==
    /\ OneReranker
    /\ ranker = "loaded" => Places("rank") # {}

WithinLimits == \A l \in Limiters : Len(requests[l]) <= Limit[l] /\ Len(shared[l]) <= Limit[l]

\* The deque of a limiter is the end of what it ever admitted; the rest has
\* left the window of the latest time the limiter was asked at.
IsTheEnd(l) ==
    LET gone == Len(stamps[l]) - Len(requests[l]) IN
    /\ gone >= 0
    /\ \A i \in 1 .. Len(requests[l]) : requests[l][i] = stamps[l][gone + i]
    /\ \A i \in 1 .. gone : stamps[l][i] <= latest[l] - Window[l]

DequesAreSuffixes == \A l \in Limiters : IsTheEnd(l)

\* The thread has found p available and has not called it yet.
PastTest(t, p) ==
    thread[t].op = "rank" /\ thread[t].pc \in {"clock", "allow", "post"} /\ Provider(t) = p

\* During a cooldown a thread slips through at most once, one that still may
\* has not, and there is one that neither has nor may.
FewSlip ==
    \A p \in Rerankers : until[p] > now =>
        /\ \A t \in Threads : slipped[p][t] <= 1 /\ (PastTest(t, p) => slipped[p][t] = 0)
        /\ \E t \in Threads : slipped[p][t] = 0 /\ ~PastTest(t, p)

Reported(attempts) == {i \in DOMAIN attempts : attempts[i].tokens = 1}

\* What was billed so far is what was reported so far, and the metrics of the
\* reranker a thread is about to call hold nothing.
UsageIsFresh ==
    \A t \in Threads :
        /\ billed[t] = Cardinality(Reported(thread[t].attempts))
        /\ thread[t].op = "rank" /\ thread[t].pc \in {"clock", "allow", "post", "waiting"}
             => usage[t][Provider(t)] = 0

\* The inductive invariant.
IInv == Numbers /\ ThreadsAreSound /\ LoadedOnce /\ WithinLimits /\ DequesAreSuffixes
          /\ FewSlip /\ UsageIsFresh

------------------------------------------------------------------------------
(* Numbers, places and sequences.                                           *)

\* A nonempty set of numbers has a least one, which Min names.
LEMMA LeastPlace ==
  ASSUME NEW S, S \subseteq Nat, S # {}
  PROVE  Min(S) \in S /\ \A i \in S : Min(S) =< i
  <1> DEFINE less == OpToRel(<, Nat)
  <1>1. IsWellFoundedOn(less, Nat)
    BY NatLessThanWellFounded
  <1>2. \A x, y \in Nat : <<y, x>> \in less <=> y < x
    BY DEF OpToRel
  <1> HIDE DEF less
  <1>3. PICK x \in S : \A y \in S : <<y, x>> \notin less
    BY <1>1, WFMin
  <1>4. x \in Nat /\ \A y \in S : y \in Nat /\ ~(y < x)
    BY <1>2, <1>3
  <1>5. \A y \in S : x =< y
    BY <1>4
  <1> QED
    BY <1>5 DEF Min

\* The later of two times.
LEMMA LaterOfTwo ==
  ASSUME NEW a \in Nat, NEW b \in Nat
  PROVE  Max({a, b}) \in {a, b} /\ Max({a, b}) >= a /\ Max({a, b}) >= b
  <1>1. \E x \in {a, b} : \A y \in {a, b} : x >= y
    OBVIOUS
  <1> QED
    BY <1>1 DEF Max

\* The places of the providers a call goes through are positions of its order.
LEMMA PlacesAreNumbers ==
  /\ \A op : Places(op) \subseteq Nat \ {0}
  /\ Places("plan") # {}
  /\ \A i \in Places("plan") : QUERY_EXTRACT_MODELS[i] \in QueryProviders
  /\ \A i \in Places("rank") : RERANK_PROVIDER_ORDER[i] \in Rerankers
  <1>1. DOMAIN QUERY_EXTRACT_MODELS = 1 .. Len(QUERY_EXTRACT_MODELS)
        /\ Len(QUERY_EXTRACT_MODELS) \in Nat /\ Len(QUERY_EXTRACT_MODELS) # 0
        /\ \A i \in 1 .. Len(QUERY_EXTRACT_MODELS) : QUERY_EXTRACT_MODELS[i] \in QueryProviders
    BY OrdersAssumption
  <1>2. DOMAIN RERANK_PROVIDER_ORDER = 1 .. Len(RERANK_PROVIDER_ORDER)
        /\ Len(RERANK_PROVIDER_ORDER) \in Nat
        /\ \A i \in 1 .. Len(RERANK_PROVIDER_ORDER) : RERANK_PROVIDER_ORDER[i] \in Rerankers
    BY OrdersAssumption
  <1>3. Places("plan") = 1 .. Len(QUERY_EXTRACT_MODELS)
        /\ Places("rank") \subseteq 1 .. Len(RERANK_PROVIDER_ORDER)
        /\ \A op : op # "plan" => Places(op) = Places("rank")
    BY <1>1, <1>2 DEF Places
  <1>4. \A i \in Places("rank") : i \in 1 .. Len(RERANK_PROVIDER_ORDER)
    BY <1>3
  <1>5. \A op : Places(op) \subseteq Nat \ {0}
    <2>1. Places("plan") \subseteq Nat \ {0} /\ Places("rank") \subseteq Nat \ {0}
      BY <1>1, <1>2, <1>3
    <2> QED
      BY <1>3, <2>1
  <1>6. Places("plan") # {}
    <2>1. 1 \in 1 .. Len(QUERY_EXTRACT_MODELS)
      BY <1>1
    <2> QED
      BY <1>3, <2>1
  <1> QED
    BY <1>1, <1>2, <1>3, <1>4, <1>5, <1>6

\* What popleft leaves is the end of the deque, and what it drops is old.
LEMMA PoppedIsTheEnd ==
  ASSUME NEW s \in Seq(Nat), NEW cutoff \in Int
  PROVE  /\ Popped(s, cutoff) \in Seq(Nat)
         /\ Len(Popped(s, cutoff)) =< Len(s)
         /\ \A i \in 1 .. Len(Popped(s, cutoff)) :
               Popped(s, cutoff)[i] = s[Len(s) - Len(Popped(s, cutoff)) + i]
         /\ \A i \in 1 .. (Len(s) - Len(Popped(s, cutoff))) : s[i] =< cutoff
  <1> DEFINE live == {i \in DOMAIN s : s[i] > cutoff}
  <1>1. Len(s) \in Nat /\ DOMAIN s = 1 .. Len(s) /\ \A i \in 1 .. Len(s) : s[i] \in Nat
    OBVIOUS
  <1>2. CASE live = {}
    <2>1. Popped(s, cutoff) = <<>>
      BY <1>2 DEF Popped
    <2>2. \A i \in 1 .. Len(s) : ~(s[i] > cutoff)
      BY <1>1, <1>2
    <2> QED
      BY <1>1, <2>1, <2>2
  <1>3. CASE live # {}
    <2>1. live \subseteq Nat
      BY <1>1
    <2>2. Min(live) \in live /\ \A i \in live : Min(live) =< i
      <3> HIDE DEF live
      <3> QED
        BY <1>3, <2>1, LeastPlace
    <2>3. PICK m \in 1 .. Len(s) : m = Min(live)
      BY <1>1, <2>2
    <2>4. \A i \in 1 .. (m - 1) : s[i] =< cutoff
      <3> SUFFICES ASSUME NEW i \in 1 .. (m - 1), ~(s[i] =< cutoff) PROVE FALSE
        OBVIOUS
      <3>1. i \in 1 .. Len(s) /\ i < m
        BY <1>1, <2>3
      <3>2. s[i] > cutoff
        BY <1>1, <3>1
      <3>3. i \in live
        BY <1>1, <3>1, <3>2
      <3> QED
        <4>1. m =< i
          <5> HIDE DEF live
          <5> QED
            BY <2>2, <2>3, <3>3
        <4> QED
          BY <1>1, <3>1, <4>1
    <2>5. PICK b : b = SubSeq(s, m, Len(s))
      OBVIOUS
    <2>6. b = Popped(s, cutoff)
      BY <1>3, <2>3, <2>5 DEF Popped
    <2>7. /\ b \in Seq(Nat) /\ Len(b) = Len(s) - m + 1
          /\ \A i \in 1 .. (Len(s) - m + 1) : b[i] = s[m + i - 1]
      <3>1. m \in Int /\ Len(s) \in Int /\ m =< Len(s) /\ \A i \in m .. Len(s) : s[i] \in Nat
        <4>1. m \in Int /\ Len(s) \in Int /\ m =< Len(s) /\ m >= 1
          BY <1>1, <2>3
        <4>2. \A i \in m .. Len(s) : i \in 1 .. Len(s)
          BY <4>1
        <4> QED
          BY <1>1, <4>1, <4>2
      <3> QED
        BY <2>5, <3>1, SubSeqProperties
    <2>8. Len(s) - Len(b) = m - 1 /\ Len(b) =< Len(s)
      BY <1>1, <2>3, <2>7
    <2>9. \A i \in 1 .. Len(b) : b[i] = s[Len(s) - Len(b) + i]
      <3> SUFFICES ASSUME NEW i \in 1 .. Len(b) PROVE b[i] = s[Len(s) - Len(b) + i]
        OBVIOUS
      <3>1. m + i - 1 = Len(s) - Len(b) + i
        BY <2>8
      <3> QED
        BY <2>7, <3>1
    <2> QED
      BY <2>4, <2>6, <2>7, <2>8, <2>9
  <1> QED
    BY <1>2, <1>3

\* The script does not add to the scores it keeps.
LEMMA RecentIsShorter ==
  ASSUME NEW s \in Seq(Nat), NEW cutoff \in Int
  PROVE  Recent(s, cutoff) \in Seq(Nat) /\ Len(Recent(s, cutoff)) =< Len(s)
  <1> DEFINE old == {i \in DOMAIN s : s[i] <= cutoff}
  <1>1. Len(s) \in Nat /\ DOMAIN s = 1 .. Len(s) /\ \A i \in 1 .. Len(s) : s[i] \in Nat
    OBVIOUS
  <1>2. old \in SUBSET (1 .. Len(s))
    BY <1>1
  <1>3. Cardinality(old) \in Nat /\ Cardinality(old) =< Len(s)
    <2>1. IsFiniteSet(1 .. Len(s)) /\ Cardinality(1 .. Len(s)) = Len(s)
      BY <1>1, FS_Interval
    <2>2. IsFiniteSet(old) /\ Cardinality(old) =< Cardinality(1 .. Len(s))
      <3> HIDE DEF old
      <3> QED
        BY <1>2, <2>1, FS_Subset
    <2>3. Cardinality(old) \in Nat
      <3> HIDE DEF old
      <3> QED
        BY <2>2, FS_CardinalityType
    <2> QED
      BY <2>1, <2>2, <2>3
  <1>4. PICK n \in Nat : n = Cardinality(old) /\ n =< Len(s)
    BY <1>3
  <1>5. Recent(s, cutoff) = SubSeq(s, n + 1, Len(s))
    BY <1>4 DEF Recent
  <1>6. SubSeq(s, n + 1, Len(s)) \in Seq(Nat) /\ Len(SubSeq(s, n + 1, Len(s))) =< Len(s)
    <2>1. n + 1 \in Int /\ Len(s) \in Int /\ \A i \in (n + 1) .. Len(s) : s[i] \in Nat
      <3>1. \A i \in (n + 1) .. Len(s) : i \in 1 .. Len(s)
        BY <1>1, <1>4
      <3> QED
        BY <1>1, <1>4, <3>1
    <2>2. /\ SubSeq(s, n + 1, Len(s)) \in Seq(Nat)
          /\ Len(SubSeq(s, n + 1, Len(s)))
               = IF n + 1 =< Len(s) THEN Len(s) - (n + 1) + 1 ELSE 0
      BY <2>1, SubSeqProperties
    <2> QED
      BY <1>1, <1>4, <2>2
  <1> QED
    BY <1>5, <1>6

\* What is reported once an attempt is recorded.
LEMMA ReportedAfter ==
  ASSUME NEW a \in Seq(Attempts), NEW r \in Attempts
  PROVE  /\ Append(a, r) \in Seq(Attempts)
         /\ Cardinality(Reported(Append(a, r))) = Cardinality(Reported(a)) + r.tokens
  <1>1. Len(a) \in Nat /\ DOMAIN a = 1 .. Len(a) /\ r.tokens \in {0, 1}
    BY DEF Attempts
  <1>2. PICK b : b = Append(a, r)
    OBVIOUS
  <1>3. /\ b \in Seq(Attempts) /\ Len(b) = Len(a) + 1 /\ DOMAIN b = 1 .. (Len(a) + 1)
        /\ b[Len(a) + 1] = r
        /\ \A i \in 1 .. Len(a) : b[i] = a[i]
    BY <1>1, <1>2
  <1>4. Reported(a) \in SUBSET (1 .. Len(a))
    BY <1>1 DEF Reported
  <1>5. IsFiniteSet(Reported(a)) /\ Cardinality(Reported(a)) \in Nat
    <2>1. IsFiniteSet(1 .. Len(a))
      BY <1>1, FS_Interval
    <2> QED
      BY <1>4, <2>1, FS_Subset, FS_CardinalityType
  <1>6. CASE r.tokens = 1
    <2>1. Reported(b) = Reported(a) \union {Len(a) + 1}
      BY <1>1, <1>3, <1>6 DEF Reported
    <2>2. Len(a) + 1 \notin Reported(a)
      BY <1>1, <1>4
    <2>3. Cardinality(Reported(a) \union {Len(a) + 1}) = Cardinality(Reported(a)) + 1
      BY <1>5, <2>2, FS_AddElement
    <2> QED
      BY <1>2, <1>3, <1>6, <2>1, <2>3
  <1>7. CASE r.tokens = 0
    <2>1. Reported(b) = Reported(a)
      BY <1>1, <1>3, <1>7 DEF Reported
    <2> QED
      BY <1>2, <1>3, <1>5, <1>7, <2>1
  <1> QED
    BY <1>1, <1>6, <1>7

\* No attempt, no usage.
LEMMA NothingReported == Cardinality(Reported(<<>>)) = 0 /\ <<>> \in Seq(Attempts)
  <1>1. Reported(<<>>) = {}
    BY DEF Reported
  <1> QED
    BY <1>1, FS_EmptySet

------------------------------------------------------------------------------
(* Steps of a thread.                                                       *)

\* What a change to some fields of a thread leaves alone.
LEMMA GoKeeps ==
  ASSUME ThreadsAreSound, NEW t \in Threads, NEW c, Go(t, c)
  PROVE  /\ thread' = [u \in Threads |-> thread'[u]]
         /\ \A u \in Threads : u # t => thread'[u] = thread[u]
         /\ DOMAIN thread'[t] = Fields
         /\ \A f \in Fields : thread'[t][f] = IF f \in DOMAIN c THEN c[f] ELSE thread[t][f]
  <1>1. DOMAIN thread = Threads /\ DOMAIN thread[t] = Fields
    BY DEF ThreadsAreSound, ThreadIsSound
  <1>2. thread' = [thread EXCEPT ![t] = [f \in DOMAIN thread[t] |->
                       IF f \in DOMAIN c THEN c[f] ELSE thread[t][f]]]
    BY DEF Go
  <1>3. DOMAIN thread' = Threads
        /\ \A u \in Threads : u # t => thread'[u] = thread[u]
    BY <1>1, <1>2
  <1>4. thread'[t] = [f \in Fields |-> IF f \in DOMAIN c THEN c[f] ELSE thread[t][f]]
    BY <1>1, <1>2
  <1>5. thread' = [u \in DOMAIN thread' |-> thread'[u]]
    <2>1. thread' = [u \in Threads |-> thread'[u]]
      BY <1>1, <1>2
    <2> QED
      BY <1>3, <2>1
  <1> QED
    BY <1>3, <1>4, <1>5

\* A thread whose step only takes it further.
LEMMA GoTo ==
  ASSUME ThreadsAreSound, NEW t \in Threads, NEW p, Go(t, [pc |-> p])
  PROVE  /\ thread' = [u \in Threads |-> thread'[u]]
         /\ \A u \in Threads : u # t => thread'[u] = thread[u]
         /\ DOMAIN thread'[t] = Fields
         /\ thread'[t].pc = p /\ thread'[t].op = thread[t].op /\ thread'[t].pos = thread[t].pos
         /\ thread'[t].read = thread[t].read /\ thread'[t].attempts = thread[t].attempts
  <1> DEFINE c == [pc |-> p]
  <1>1. DOMAIN c = {"pc"} /\ c["pc"] = p
    OBVIOUS
  <1>2. Go(t, c)
    OBVIOUS
  <1> HIDE DEF c
  <1>3. /\ thread' = [u \in Threads |-> thread'[u]]
        /\ \A u \in Threads : u # t => thread'[u] = thread[u]
        /\ DOMAIN thread'[t] = Fields
        /\ \A f \in Fields : thread'[t][f] = IF f \in DOMAIN c THEN c[f] ELSE thread[t][f]
    BY <1>2, GoKeeps
  <1> QED
    BY <1>1, <1>3 DEF Fields

\* The other threads stay as they are.
LEMMA OthersAreSound ==
  ASSUME ThreadsAreSound, NEW t \in Threads,
         thread' = [u \in Threads |-> thread'[u]],
         \A u \in Threads : u # t => thread'[u] = thread[u],
         ThreadIsSound(t)'
  PROVE  ThreadsAreSound'
  <1>1. \A u \in Threads : u # t => ThreadIsSound(u)'
    BY DEF ThreadsAreSound, ThreadIsSound
  <1> QED
    BY <1>1 DEF ThreadsAreSound

\* Nothing slips past a cooldown in a step that takes no thread past its test.
LEMMA SlipsStay ==
  ASSUME FewSlip, UNCHANGED <<now, until, slipped>>,
         \A u \in Threads, p \in Rerankers :
            PastTest(u, p)' => PastTest(u, p) \/ ~(until[p] > now)
  PROVE  FewSlip'
  <1> SUFFICES ASSUME NEW p \in Rerankers, (until[p] > now)'
               PROVE  /\ \A u \in Threads : slipped'[p][u] <= 1
                                            /\ (PastTest(u, p)' => slipped'[p][u] = 0)
                      /\ \E u \in Threads : slipped'[p][u] = 0 /\ ~PastTest(u, p)'
    BY DEF FewSlip
  <1>1. until[p] > now /\ slipped' = slipped
    OBVIOUS
  <1>2. \A u \in Threads : slipped[p][u] <= 1 /\ (PastTest(u, p) => slipped[p][u] = 0)
    BY <1>1 DEF FewSlip
  <1>3. PICK w \in Threads : slipped[p][w] = 0 /\ ~PastTest(w, p)
    BY <1>1 DEF FewSlip
  <1>4. \A u \in Threads : PastTest(u, p)' => PastTest(u, p)
    BY <1>1
  <1> QED
    BY <1>1, <1>2, <1>3, <1>4

\* The same, of a step of one thread.
LEMMA SlipsOfOne ==
  ASSUME FewSlip, NEW t \in Threads, UNCHANGED <<now, until, slipped>>,
         \A u \in Threads : u # t => thread'[u] = thread[u],
         \A p \in Rerankers : PastTest(t, p)' => PastTest(t, p) \/ ~(until[p] > now)
  PROVE  FewSlip'
  <1>1. \A u \in Threads : u # t => \A p \in Rerankers : PastTest(u, p)' = PastTest(u, p)
    BY DEF PastTest, Provider
  <1> QED
    BY <1>1, SlipsStay

\* A thread that does not call a reranker has nothing to forget.
LEMMA FreshOfOne ==
  ASSUME UsageIsFresh, NEW t \in Threads,
         \A u \in Threads : u # t => thread'[u] = thread[u] /\ usage'[u] = usage[u]
                                     /\ billed'[u] = billed[u],
         billed'[t] = Cardinality(Reported(thread'[t].attempts)),
         thread'[t].op = "rank" /\ thread'[t].pc \in {"clock", "allow", "post", "waiting"}
            => usage'[t][Provider(t)'] = 0
  PROVE  UsageIsFresh'
  <1>1. \A u \in Threads : u # t =>
            /\ billed'[u] = Cardinality(Reported(thread'[u].attempts))
            /\ thread'[u].op = "rank" /\ thread'[u].pc \in {"clock", "allow", "post", "waiting"}
                 => usage'[u][Provider(u)'] = 0
    BY DEF UsageIsFresh, Provider
  <1> QED
    BY <1>1 DEF UsageIsFresh

\* A step that leaves the limiters of the process alone, and adds nothing to Redis.
LEMMA LimitersStay ==
  ASSUME WithinLimits, DequesAreSuffixes, UNCHANGED limiterVars
  PROVE  WithinLimits' /\ DequesAreSuffixes'
  BY DEF WithinLimits, DequesAreSuffixes, IsTheEnd, limiterVars

\* The provider a thread has its turn at.
LEMMA ProviderOfThread ==
  ASSUME ThreadsAreSound, NEW t \in Threads, thread[t].pc \in Calling
  PROVE  /\ Provider(t) \in AllProviders
         /\ thread[t].op = "rank" => Provider(t) \in Rerankers
         /\ thread[t].op = "plan" => Provider(t) \in QueryProviders
  <1>1. thread[t].op \in {"plan", "rank"} /\ thread[t].pos \in Places(thread[t].op)
    BY DEF ThreadsAreSound, ThreadIsSound
  <1>2. CASE thread[t].op = "rank"
    BY <1>1, <1>2, PlacesAreNumbers DEF Provider, Providers, AllProviders
  <1>3. CASE thread[t].op = "plan"
    BY <1>1, <1>3, PlacesAreNumbers DEF Provider, Providers, AllProviders
  <1> QED
    BY <1>1, <1>2, <1>3

\* One provider is done with: the thread goes on to the next one or ends.
LEMMA AttemptMoves ==
  ASSUME ThreadsAreSound, NEW t \in Threads, thread[t].pc \in Calling,
         NEW status \in {"success", "fallback", "failed"}, NEW tokens \in {0, 1},
         Attempt(t, status, tokens)
  PROVE  /\ ThreadsAreSound'
         /\ \A u \in Threads : u # t => thread'[u] = thread[u]
         /\ thread'[t].op = thread[t].op
         /\ thread'[t].pc \in {"ended", "clock", "cooldown"}
         /\ thread'[t].pc = "clock" => thread'[t].op = "plan"
         /\ Cardinality(Reported(thread'[t].attempts))
              = Cardinality(Reported(thread[t].attempts)) + tokens
  <1> DEFINE r == [status |-> status, tokens |-> tokens]
             ends == status \in {"success", "failed"} \/ Following(t) = {}
             c == [attempts |-> Append(thread[t].attempts, r), lim |-> "none", read |-> 0,
                   pos |-> IF ends THEN thread[t].pos ELSE Min(Following(t)),
                   pc |-> IF ends THEN "ended"
                          ELSE IF thread[t].op = "plan" THEN "clock" ELSE "cooldown"]
  <1>1. /\ thread[t].op \in {"plan", "rank"} /\ thread[t].pos \in Places(thread[t].op)
        /\ thread[t].attempts \in Seq(Attempts)
    BY DEF ThreadsAreSound, ThreadIsSound
  <1>2. r \in Attempts /\ r.tokens = tokens
    BY DEF Attempts
  <1>3. Go(t, c)
    BY DEF Attempt
  <1>4. /\ DOMAIN c = {"attempts", "lim", "read", "pos", "pc"}
        /\ c["attempts"] = Append(thread[t].attempts, r) /\ c["read"] = 0
        /\ c["pos"] = IF ends THEN thread[t].pos ELSE Min(Following(t))
        /\ c["pc"] = IF ends THEN "ended"
                     ELSE IF thread[t].op = "plan" THEN "clock" ELSE "cooldown"
    OBVIOUS
  <1>5. ~ends => Min(Following(t)) \in Places(thread[t].op)
    <2> SUFFICES ASSUME Following(t) # {} PROVE Min(Following(t)) \in Places(thread[t].op)
      OBVIOUS
    <2>1. Following(t) \subseteq Places(thread[t].op)
      BY DEF Following
    <2>2. Following(t) \subseteq Nat
      BY <2>1, PlacesAreNumbers
    <2>3. Min(Following(t)) \in Following(t)
      BY <2>2, LeastPlace
    <2> QED
      BY <2>1, <2>3
  <1> HIDE DEF c
  <1>6. /\ thread' = [u \in Threads |-> thread'[u]]
        /\ \A u \in Threads : u # t => thread'[u] = thread[u]
        /\ DOMAIN thread'[t] = Fields
        /\ \A f \in Fields : thread'[t][f] = IF f \in DOMAIN c THEN c[f] ELSE thread[t][f]
    BY <1>3, GoKeeps
  <1>7. /\ thread'[t].op = thread[t].op
        /\ thread'[t].attempts = Append(thread[t].attempts, r)
        /\ thread'[t].read = 0
        /\ thread'[t].pos = c["pos"] /\ thread'[t].pc = c["pc"]
    BY <1>4, <1>6 DEF Fields
  <1>8. thread'[t].pos \in Places(thread[t].op)
    BY <1>1, <1>4, <1>5, <1>7
  <1>9. /\ thread'[t].pc \in {"ended", "clock", "cooldown"}
        /\ thread'[t].pc = "clock" => thread[t].op = "plan"
        /\ thread'[t].pc = "cooldown" => thread[t].op = "rank"
    BY <1>1, <1>4, <1>7
  <1>10. /\ thread'[t].attempts \in Seq(Attempts)
         /\ Cardinality(Reported(thread'[t].attempts))
              = Cardinality(Reported(thread[t].attempts)) + tokens
    BY <1>1, <1>2, <1>7, ReportedAfter
  <1>11. ThreadIsSound(t)'
    <2>1. thread'[t].pc \in Steps /\ thread'[t].read \in Nat
      BY <1>7, <1>9 DEF Steps
    <2> QED
      BY <1>1, <1>6, <1>7, <1>8, <1>9, <1>10, <2>1 DEF ThreadIsSound
  <1>12. ThreadsAreSound'
    BY <1>6, <1>11, OthersAreSound
  <1> QED
    BY <1>6, <1>7, <1>9, <1>10, <1>12

\* A step that changes a thread only: what it has to show of the thread.
LEMMA ThreadStep ==
  ASSUME IInv, NEW t \in Threads,
         UNCHANGED <<now, until, metricVars, slipped>>,
         \A u \in Threads : u # t => thread'[u] = thread[u],
         Cardinality(Reported(thread'[t].attempts)) = Cardinality(Reported(thread[t].attempts)),
         \A p \in Rerankers : PastTest(t, p)' => PastTest(t, p),
         thread'[t].op = "rank" /\ thread'[t].pc \in {"clock", "allow", "post", "waiting"}
            => usage[t][Provider(t)'] = 0
  PROVE  FewSlip' /\ UsageIsFresh'
  <1>1. FewSlip'
    <2>1. UNCHANGED <<now, until, slipped>> /\ FewSlip
      BY DEF IInv
    <2> QED
      BY <2>1, SlipsOfOne
  <1>2. UsageIsFresh'
    <2>1. UsageIsFresh /\ usage' = usage /\ billed' = billed
      BY DEF IInv, metricVars
    <2>2. billed'[t] = Cardinality(Reported(thread'[t].attempts))
      BY <2>1 DEF UsageIsFresh
    <2> QED
      BY <2>1, <2>2, FreshOfOne
  <1> QED
    BY <1>1, <1>2

\* The same of a step that leaves the reranker and the limiters alone too.
LEMMA OnlyTheThread ==
  ASSUME IInv, NEW t \in Threads, ThreadsAreSound',
         UNCHANGED <<now, rankerVars, limiterVars, until, metricVars, slipped>>,
         \A u \in Threads : u # t => thread'[u] = thread[u],
         Cardinality(Reported(thread'[t].attempts)) = Cardinality(Reported(thread[t].attempts)),
         \A p \in Rerankers : PastTest(t, p)' => PastTest(t, p),
         thread'[t].op = "rank" /\ thread'[t].pc \in {"clock", "allow", "post", "waiting"}
            => usage[t][Provider(t)'] = 0
  PROVE  IInv'
  <1>1. FewSlip' /\ UsageIsFresh'
    <2>1. UNCHANGED <<now, until, metricVars, slipped>>
      OBVIOUS
    <2> QED
      BY <2>1, ThreadStep
  <1>2. Numbers'
    BY DEF IInv, Numbers, rankerVars, limiterVars, metricVars
  <1>3. LoadedOnce'
    BY DEF IInv, LoadedOnce, OneReranker, rankerVars
  <1>4. WithinLimits' /\ DequesAreSuffixes'
    BY LimitersStay DEF IInv
  <1> QED
    BY <1>1, <1>2, <1>3, <1>4 DEF IInv

\* A thread that goes on to the reranker, and one that waits for it.
LEMMA GoesOn ==
  ASSUME IInv, NEW t \in Threads, NEW p \in {"load", "locked", "ended"}, Go(t, [pc |-> p]),
         thread[t].op = "rank",
         UNCHANGED <<now, rankerVars, limiterVars, until, metricVars, slipped>>
  PROVE  IInv'
  <1>1. ThreadsAreSound
    BY DEF IInv
  <1>2. /\ thread' = [u \in Threads |-> thread'[u]]
        /\ \A u \in Threads : u # t => thread'[u] = thread[u]
        /\ DOMAIN thread'[t] = Fields
        /\ thread'[t].pc = p /\ thread'[t].op = thread[t].op /\ thread'[t].pos = thread[t].pos
        /\ thread'[t].read = thread[t].read /\ thread'[t].attempts = thread[t].attempts
    BY <1>1, GoTo
  <1>3. ThreadIsSound(t)'
    BY <1>1, <1>2 DEF ThreadIsSound, ThreadsAreSound, Steps, Calling
  <1>4. ThreadsAreSound'
    BY <1>1, <1>2, <1>3, OthersAreSound
  <1>5. \A q \in Rerankers : ~PastTest(t, q)'
    BY <1>2 DEF PastTest
  <1> QED
    BY <1>2, <1>4, <1>5, OnlyTheThread

\* The loop over the providers begins at the first place.
LEMMA LoopBegins ==
  ASSUME ThreadsAreSound, NEW t \in Threads, Go(t, FirstReranker), thread[t].op = "rank",
         Places("rank") # {}
  PROVE  /\ ThreadsAreSound'
         /\ \A u \in Threads : u # t => thread'[u] = thread[u]
         /\ thread'[t].pc = "cooldown" /\ thread'[t].attempts = thread[t].attempts
  <1>1. Min(Places("rank")) \in Places("rank")
    <2>1. Places("rank") \subseteq Nat
      BY PlacesAreNumbers
    <2> QED
      BY <2>1, LeastPlace
  <1> DEFINE c == FirstReranker
  <1>2. DOMAIN c = {"pc", "pos"} /\ c["pc"] = "cooldown" /\ c["pos"] = Min(Places("rank"))
    BY DEF FirstReranker
  <1>3. Go(t, c)
    OBVIOUS
  <1> HIDE DEF c
  <1>4. /\ thread' = [u \in Threads |-> thread'[u]]
        /\ \A u \in Threads : u # t => thread'[u] = thread[u]
        /\ DOMAIN thread'[t] = Fields
        /\ \A f \in Fields : thread'[t][f] = IF f \in DOMAIN c THEN c[f] ELSE thread[t][f]
    BY <1>3, GoKeeps
  <1>5. /\ thread'[t].pc = "cooldown" /\ thread'[t].pos \in Places("rank")
        /\ thread'[t].op = "rank" /\ thread'[t].read = thread[t].read
        /\ thread'[t].attempts = thread[t].attempts
    BY <1>1, <1>2, <1>4 DEF Fields
  <1>6. ThreadIsSound(t)'
    BY <1>4, <1>5 DEF ThreadIsSound, ThreadsAreSound, Steps, Calling
  <1>7. ThreadsAreSound'
    BY <1>4, <1>6, OthersAreSound
  <1> QED
    BY <1>4, <1>5, <1>7

\* A ranking begins: BeginRank.
LEMMA BeginRankStep ==
  ASSUME IInv, NEW t \in Threads, BeginRank(t)
  PROVE  IInv'
  <1> DEFINE c == [pc |-> "ensure", op |-> "rank"]
  <1>1. /\ Go(t, c) /\ ThreadsAreSound
        /\ UNCHANGED <<now, rankerVars, limiterVars, until, metricVars, slipped>>
    BY DEF BeginRank, IInv
  <1>2. DOMAIN c = {"pc", "op"} /\ c["pc"] = "ensure" /\ c["op"] = "rank"
    OBVIOUS
  <1> HIDE DEF c
  <1>3. /\ thread' = [u \in Threads |-> thread'[u]]
        /\ \A u \in Threads : u # t => thread'[u] = thread[u]
        /\ DOMAIN thread'[t] = Fields
        /\ \A f \in Fields : thread'[t][f] = IF f \in DOMAIN c THEN c[f] ELSE thread[t][f]
    BY <1>1, GoKeeps
  <1>4. /\ thread'[t].pc = "ensure" /\ thread'[t].op = "rank" /\ thread'[t].read = thread[t].read
        /\ thread'[t].attempts = thread[t].attempts
    BY <1>2, <1>3 DEF Fields
  <1>5. ThreadIsSound(t)'
    BY <1>1, <1>3, <1>4 DEF ThreadIsSound, ThreadsAreSound, Steps, Calling
  <1>6. ThreadsAreSound'
    BY <1>1, <1>3, <1>5, OthersAreSound
  <1>7. \A q \in Rerankers : ~PastTest(t, q)'
    BY <1>4 DEF PastTest
  <1> QED
    BY <1>1, <1>3, <1>4, <1>6, <1>7, OnlyTheThread

\* SharedReranker.ensure finds the reranker, or goes for the lock.
LEMMA EnsureStep ==
  ASSUME IInv, NEW t \in Threads, Ensure(t)
  PROVE  IInv'
  <1>1. /\ ThreadsAreSound /\ LoadedOnce /\ thread[t].pc = "ensure" /\ thread[t].op = "rank"
        /\ UNCHANGED <<now, rankerVars, limiterVars, until, metricVars, slipped>>
    BY DEF Ensure, IInv, ThreadsAreSound, ThreadIsSound
  <1>2. CASE ranker = "none"
    <2>1. Go(t, [pc |-> "load"])
      BY <1>2 DEF Ensure
    <2> QED
      BY <1>1, <2>1, GoesOn
  <1>3. CASE ranker # "none"
    <2>1. Places("rank") # {}
      BY <1>3 DEF IInv, LoadedOnce, Numbers
    <2>2. Go(t, FirstReranker)
      BY <1>3 DEF Ensure
    <2>3. /\ ThreadsAreSound'
          /\ \A u \in Threads : u # t => thread'[u] = thread[u]
          /\ thread'[t].pc = "cooldown" /\ thread'[t].attempts = thread[t].attempts
      BY <1>1, <2>1, <2>2, LoopBegins
    <2>4. \A q \in Rerankers : ~PastTest(t, q)'
      BY <2>3 DEF PastTest
    <2> QED
      BY <1>1, <2>3, <2>4, OnlyTheThread
  <1> QED
    BY <1>2, <1>3

\* The lock of the loader is taken.
LEMMA TakeLoadLockStep ==
  ASSUME IInv, NEW t \in Threads, TakeLoadLock(t)
  PROVE  IInv'
  <1>1. /\ Go(t, [pc |-> "locked"]) /\ thread[t].op = "rank"
        /\ UNCHANGED <<now, rankerVars, limiterVars, until, metricVars, slipped>>
    BY DEF TakeLoadLock, IInv, ThreadsAreSound, ThreadIsSound
  <1> QED
    BY <1>1, GoesOn

\* The holder of the lock loads the reranker unless another thread has.
LEMMA LoadStep ==
  ASSUME IInv, NEW t \in Threads, Load(t)
  PROVE  IInv'
  <1>1. /\ ThreadsAreSound /\ LoadedOnce /\ thread[t].pc = "locked" /\ thread[t].op = "rank"
        /\ UNCHANGED <<now, limiterVars, until, metricVars, slipped>>
    BY DEF Load, IInv, ThreadsAreSound, ThreadIsSound
  <1>2. CASE ranker = "none" /\ Places("rank") = {}
    <2>1. Go(t, [pc |-> "ended"]) /\ UNCHANGED rankerVars
      BY <1>2 DEF Load
    <2>2. UNCHANGED <<now, rankerVars, limiterVars, until, metricVars, slipped>>
      BY <1>1, <2>1
    <2> QED
      BY <1>1, <2>1, <2>2, GoesOn
  <1>3. CASE ~(ranker = "none" /\ Places("rank") = {})
    <2>1. Places("rank") # {}
      BY <1>3 DEF IInv, LoadedOnce, Numbers
    <2>2. Go(t, FirstReranker)
      BY <1>3 DEF Load
    <2>3. /\ ThreadsAreSound'
          /\ \A u \in Threads : u # t => thread'[u] = thread[u]
          /\ thread'[t].pc = "cooldown" /\ thread'[t].attempts = thread[t].attempts
      BY <1>1, <2>1, <2>2, LoopBegins
    <2>4. \A q \in Rerankers : ~PastTest(t, q)'
      BY <2>3 DEF PastTest
    <2>5. FewSlip' /\ UsageIsFresh'
      BY <1>1, <2>3, <2>4, ThreadStep
    <2>6. WithinLimits' /\ DequesAreSuffixes'
      BY <1>1, LimitersStay DEF IInv
    <2>7. CASE ranker = "none"
      <3>1. ranker' = "loaded" /\ loads' = loads + 1
        BY <1>3, <2>7 DEF Load
      <3>2. loads = 0
        BY <2>7 DEF IInv, LoadedOnce, OneReranker, Numbers
      <3>3. LoadedOnce'
        BY <2>1, <3>1, <3>2 DEF LoadedOnce, OneReranker
      <3>4. Numbers'
        BY <1>1, <3>1, <3>2 DEF IInv, Numbers, limiterVars, metricVars
      <3> QED
        BY <2>3, <2>5, <2>6, <3>3, <3>4 DEF IInv
    <2>8. CASE ranker # "none"
      <3>1. UNCHANGED rankerVars
        BY <2>8 DEF Load
      <3>2. UNCHANGED <<now, rankerVars, limiterVars, until, metricVars, slipped>>
        BY <1>1, <3>1
      <3> QED
        BY <2>3, <2>4, <3>2, OnlyTheThread
    <2> QED
      BY <2>7, <2>8
  <1> QED
    BY <1>2, <1>3

\* What a provider's metrics hold once they are written.
LEMMA UsageIsWritten ==
  ASSUME Numbers, NEW t \in Threads, NEW p \in AllProviders, NEW v \in {0, 1},
         usage' = [usage EXCEPT ![t][p] = v]
  PROVE  /\ usage' \in [Threads -> [AllProviders -> {0, 1}]]
         /\ usage'[t][p] = v
         /\ \A u \in Threads : u # t => usage'[u] = usage[u]
  <1>1. usage \in [Threads -> [AllProviders -> {0, 1}]]
    BY DEF Numbers
  <1>2. usage[t] \in [AllProviders -> {0, 1}]
    BY <1>1
  <1>3. usage' = [usage EXCEPT ![t] = [usage[t] EXCEPT ![p] = v]]
    OBVIOUS
  <1>4. [usage[t] EXCEPT ![p] = v] \in [AllProviders -> {0, 1}]
        /\ [usage[t] EXCEPT ![p] = v][p] = v
    BY <1>2
  <1> QED
    BY <1>1, <1>3, <1>4

\* A step that ends an attempt and bills its tokens.
LEMMA AttemptStep ==
  ASSUME IInv, NEW t \in Threads, thread[t].pc \in Calling,
         NEW status \in {"success", "fallback", "failed"}, NEW tokens \in {0, 1},
         Attempt(t, status, tokens),
         usage' \in [Threads -> [AllProviders -> {0, 1}]],
         \A u \in Threads : u # t => usage'[u] = usage[u],
         billed' = [billed EXCEPT ![t] = @ + tokens],
         UNCHANGED <<now, rankerVars>>
  PROVE  /\ ThreadsAreSound' /\ UsageIsFresh' /\ LoadedOnce'
         /\ billed' \in [Threads -> Nat]
         /\ \A u \in Threads : u # t => thread'[u] = thread[u]
         /\ \A p \in Rerankers : ~PastTest(t, p)'
  <1>1. ThreadsAreSound /\ UsageIsFresh /\ billed \in [Threads -> Nat]
    BY DEF IInv, Numbers
  <1>2. /\ ThreadsAreSound'
        /\ \A u \in Threads : u # t => thread'[u] = thread[u]
        /\ thread'[t].op = thread[t].op
        /\ thread'[t].pc \in {"ended", "clock", "cooldown"}
        /\ thread'[t].pc = "clock" => thread'[t].op = "plan"
        /\ Cardinality(Reported(thread'[t].attempts))
             = Cardinality(Reported(thread[t].attempts)) + tokens
    BY <1>1, AttemptMoves
  <1>3. /\ billed' \in [Threads -> Nat] /\ billed'[t] = billed[t] + tokens
        /\ \A u \in Threads : u # t => billed'[u] = billed[u]
    BY <1>1
  <1>4. billed'[t] = Cardinality(Reported(thread'[t].attempts))
    BY <1>1, <1>2, <1>3 DEF UsageIsFresh
  <1>5. ~(thread'[t].op = "rank" /\ thread'[t].pc \in {"clock", "allow", "post", "waiting"})
    BY <1>2
  <1>6. UsageIsFresh'
    BY <1>1, <1>2, <1>3, <1>4, <1>5, FreshOfOne
  <1>7. \A p \in Rerankers : ~PastTest(t, p)'
    BY <1>5 DEF PastTest
  <1>8. LoadedOnce'
    BY DEF IInv, LoadedOnce, OneReranker, rankerVars
  <1> QED
    BY <1>2, <1>3, <1>6, <1>7, <1>8

\* The same for a provider whose answer, if any, is not billed.
LEMMA UnbilledStep ==
  ASSUME IInv, NEW t \in Threads, thread[t].pc \in Calling,
         Attempt(t, "fallback", 0),
         usage' \in [Threads -> [AllProviders -> {0, 1}]],
         \A u \in Threads : u # t => usage'[u] = usage[u],
         UNCHANGED <<now, rankerVars, billed>>
  PROVE  /\ ThreadsAreSound' /\ UsageIsFresh' /\ LoadedOnce'
         /\ \A u \in Threads : u # t => thread'[u] = thread[u]
         /\ \A p \in Rerankers : ~PastTest(t, p)'
  <1>1. billed' = [billed EXCEPT ![t] = @ + 0]
    <2>1. billed \in [Threads -> Nat] /\ billed' = billed
      BY DEF IInv, Numbers
    <2>2. billed[t] + 0 = billed[t]
      BY <2>1
    <2>3. [billed EXCEPT ![t] = billed[t]] = billed
      BY <2>1
    <2> QED
      BY <2>1, <2>2, <2>3
  <1>2. UNCHANGED <<now, rankerVars>>
    OBVIOUS
  <1>3. "fallback" \in {"success", "fallback", "failed"} /\ 0 \in {0, 1}
    OBVIOUS
  <1> QED
    BY <1>1, <1>2, <1>3, AttemptStep

\* The head of compute_score: a thread passes the test of no cooldown that is on.
LEMMA TestCooldownStep ==
  ASSUME IInv, NEW t \in Threads, TestCooldown(t)
  PROVE  IInv'
  <1>1. /\ ThreadsAreSound /\ Numbers /\ thread[t].pc = "cooldown" /\ thread[t].op = "rank"
        /\ UNCHANGED <<now, rankerVars, limiterVars, until, slipped, billed>>
    BY DEF TestCooldown, IInv, ThreadsAreSound, ThreadIsSound
  <1>2. PICK p \in Rerankers : p = Provider(t)
    BY <1>1, ProviderOfThread DEF Calling
  <1>3. p \in AllProviders
    BY DEF AllProviders
  <1>4. usage' = [usage EXCEPT ![t][p] = 0]
    BY <1>2 DEF TestCooldown
  <1>5. /\ usage' \in [Threads -> [AllProviders -> {0, 1}]] /\ usage'[t][p] = 0
        /\ \A u \in Threads : u # t => usage'[u] = usage[u]
    BY <1>1, <1>3, <1>4, UsageIsWritten
  <1>6. Numbers' /\ WithinLimits' /\ DequesAreSuffixes'
    <2>1. WithinLimits' /\ DequesAreSuffixes'
      BY <1>1, LimitersStay DEF IInv
    <2> QED
      BY <1>1, <1>5, <2>1 DEF Numbers, rankerVars, limiterVars
  <1>7. CASE until[p] > now
    <2>1. Attempt(t, "fallback", 0)
      BY <1>2, <1>5, <1>7 DEF TestCooldown
    <2>2. thread[t].pc \in Calling /\ UNCHANGED <<now, rankerVars, billed>>
      BY <1>1 DEF Calling
    <2>3. /\ ThreadsAreSound' /\ UsageIsFresh' /\ LoadedOnce'
          /\ \A u \in Threads : u # t => thread'[u] = thread[u]
          /\ \A q \in Rerankers : ~PastTest(t, q)'
      BY <1>5, <2>1, <2>2, UnbilledStep
    <2>4. FewSlip'
      BY <1>1, <2>3, SlipsOfOne DEF IInv
    <2> QED
      BY <1>6, <2>3, <2>4 DEF IInv
  <1>8. CASE ~(until[p] > now)
    <2>1. Go(t, [pc |-> "clock"])
      BY <1>2, <1>8 DEF TestCooldown
    <2>2. /\ thread' = [u \in Threads |-> thread'[u]]
          /\ \A u \in Threads : u # t => thread'[u] = thread[u]
          /\ DOMAIN thread'[t] = Fields
          /\ thread'[t].pc = "clock" /\ thread'[t].op = thread[t].op
          /\ thread'[t].pos = thread[t].pos
          /\ thread'[t].read = thread[t].read /\ thread'[t].attempts = thread[t].attempts
      BY <1>1, <2>1, GoTo
    <2>3. ThreadIsSound(t)'
      BY <1>1, <2>2 DEF ThreadIsSound, ThreadsAreSound, Steps, Calling
    <2>4. ThreadsAreSound'
      BY <1>1, <2>2, <2>3, OthersAreSound
    <2>5. Provider(t)' = p
      BY <1>2, <2>2 DEF Provider
    <2>6. FewSlip'
      <3>1. \A q \in Rerankers : PastTest(t, q)' => ~(until[q] > now)
        BY <1>8, <2>5 DEF PastTest
      <3> QED
        BY <1>1, <2>2, <3>1, SlipsOfOne DEF IInv
    <2>7. UsageIsFresh'
      <3>1. UsageIsFresh /\ billed' = billed
        BY <1>1 DEF IInv
      <3>2. billed'[t] = Cardinality(Reported(thread'[t].attempts))
        BY <2>2, <3>1 DEF UsageIsFresh
      <3> QED
        BY <1>5, <2>2, <2>5, <3>1, <3>2, FreshOfOne
    <2>8. LoadedOnce'
      BY <1>1 DEF IInv, LoadedOnce, OneReranker, rankerVars
    <2> QED
      BY <1>6, <2>4, <2>6, <2>7, <2>8 DEF IInv
  <1> QED
    BY <1>7, <1>8

\* A query plan begins at the first model.
LEMMA BeginPlanStep ==
  ASSUME IInv, NEW t \in Threads, BeginPlan(t)
  PROVE  IInv'
  <1> DEFINE c == [pc |-> "clock", op |-> "plan", pos |-> Min(Places("plan")),
                   deadline |-> now + TotalTimeout]
  <1>1. /\ Go(t, c) /\ ThreadsAreSound
        /\ UNCHANGED <<now, rankerVars, limiterVars, until, metricVars, slipped>>
    BY DEF BeginPlan, IInv
  <1>2. DOMAIN c = {"pc", "op", "pos", "deadline"} /\ c["pc"] = "clock" /\ c["op"] = "plan"
        /\ c["pos"] = Min(Places("plan"))
    OBVIOUS
  <1>3. Min(Places("plan")) \in Places("plan")
    <2>1. Places("plan") \subseteq Nat /\ Places("plan") # {}
      BY PlacesAreNumbers
    <2> QED
      BY <2>1, LeastPlace
  <1> HIDE DEF c
  <1>4. /\ thread' = [u \in Threads |-> thread'[u]]
        /\ \A u \in Threads : u # t => thread'[u] = thread[u]
        /\ DOMAIN thread'[t] = Fields
        /\ \A f \in Fields : thread'[t][f] = IF f \in DOMAIN c THEN c[f] ELSE thread[t][f]
    BY <1>1, GoKeeps
  <1>5. /\ thread'[t].pc = "clock" /\ thread'[t].op = "plan" /\ thread'[t].read = thread[t].read
        /\ thread'[t].attempts = thread[t].attempts /\ thread'[t].pos \in Places("plan")
    BY <1>2, <1>3, <1>4 DEF Fields
  <1>6. ThreadIsSound(t)'
    BY <1>1, <1>4, <1>5 DEF ThreadIsSound, ThreadsAreSound, Steps, Calling
  <1>7. ThreadsAreSound'
    BY <1>1, <1>4, <1>6, OthersAreSound
  <1>8. \A q \in Rerankers : ~PastTest(t, q)'
    BY <1>5 DEF PastTest
  <1> QED
    BY <1>1, <1>4, <1>5, <1>7, <1>8, OnlyTheThread

\* The deadline of a plan records one attempt without tokens.
LEMMA PastDeadlineStep ==
  ASSUME IInv, NEW t \in Threads, PastDeadline(t)
  PROVE  IInv'
  <1> DEFINE r == [status |-> "fallback", tokens |-> 0]
             c == [attempts |-> Append(thread[t].attempts, r), pc |-> "ended"]
  <1>1. /\ Go(t, c) /\ ThreadsAreSound /\ thread[t].attempts \in Seq(Attempts)
        /\ Cardinality(Reported(thread[t].attempts)) \in Nat
        /\ UNCHANGED <<now, rankerVars, limiterVars, until, metricVars, slipped>>
    BY DEF PastDeadline, IInv, ThreadsAreSound, ThreadIsSound, UsageIsFresh, Numbers
  <1>2. DOMAIN c = {"attempts", "pc"} /\ c["pc"] = "ended"
        /\ c["attempts"] = Append(thread[t].attempts, r)
    OBVIOUS
  <1>3. r \in Attempts /\ r.tokens = 0
    BY DEF Attempts
  <1> HIDE DEF c
  <1>4. /\ thread' = [u \in Threads |-> thread'[u]]
        /\ \A u \in Threads : u # t => thread'[u] = thread[u]
        /\ DOMAIN thread'[t] = Fields
        /\ \A f \in Fields : thread'[t][f] = IF f \in DOMAIN c THEN c[f] ELSE thread[t][f]
    BY <1>1, GoKeeps
  <1>5. /\ thread'[t].pc = "ended" /\ thread'[t].op = thread[t].op
        /\ thread'[t].read = thread[t].read
        /\ thread'[t].attempts = Append(thread[t].attempts, r)
    BY <1>2, <1>4 DEF Fields
  <1>6. /\ thread'[t].attempts \in Seq(Attempts)
        /\ Cardinality(Reported(thread'[t].attempts)) = Cardinality(Reported(thread[t].attempts))
    BY <1>1, <1>3, <1>5, ReportedAfter
  <1>7. ThreadIsSound(t)'
    BY <1>1, <1>4, <1>5, <1>6 DEF ThreadIsSound, ThreadsAreSound, Steps, Calling
  <1>8. ThreadsAreSound'
    BY <1>1, <1>4, <1>7, OthersAreSound
  <1>9. \A q \in Rerankers : ~PastTest(t, q)'
    BY <1>5 DEF PastTest
  <1> QED
    BY <1>1, <1>4, <1>5, <1>6, <1>8, <1>9, OnlyTheThread

------------------------------------------------------------------------------
(* The limiters.                                                            *)

\* What a limiter's answer makes of the thread: refused, it is done with the
\* provider; admitted, it goes on to the next limiter or to the call.
LEMMA AfterTheLimiter ==
  ASSUME IInv, NEW t \in Threads, thread[t].pc \in {"clock", "allow"}, NEW l, NEW allowed,
         AfterAllow(t, l, allowed), UNCHANGED <<now, rankerVars, until, metricVars, slipped>>
  PROVE  ThreadsAreSound' /\ FewSlip' /\ UsageIsFresh' /\ LoadedOnce'
  <1>1. /\ ThreadsAreSound /\ Numbers /\ usage' = usage /\ billed' = billed
        /\ thread[t].pc \in Calling /\ thread[t].op \in {"plan", "rank"}
        /\ thread[t].pos \in Places(thread[t].op)
    BY DEF IInv, ThreadsAreSound, ThreadIsSound, Calling, metricVars
  <1>2. thread[t].op = "rank" => usage[t][Provider(t)] = 0
    BY DEF IInv, UsageIsFresh
  <1>3. LoadedOnce'
    BY DEF IInv, LoadedOnce, OneReranker, rankerVars
  <1>4. CASE ~allowed
    <2>1. Attempt(t, "fallback", 0)
      BY <1>1, <1>2, <1>4 DEF AfterAllow
    <2>2. /\ usage' \in [Threads -> [AllProviders -> {0, 1}]]
          /\ \A u \in Threads : u # t => usage'[u] = usage[u]
          /\ UNCHANGED <<now, rankerVars, billed>>
      BY <1>1 DEF Numbers
    <2>3. /\ ThreadsAreSound' /\ UsageIsFresh'
          /\ \A u \in Threads : u # t => thread'[u] = thread[u]
          /\ \A q \in Rerankers : ~PastTest(t, q)'
      BY <1>1, <2>1, <2>2, UnbilledStep
    <2>4. FewSlip'
      BY <2>3, SlipsOfOne DEF IInv
    <2> QED
      BY <1>3, <2>3, <2>4
  <1>5. CASE allowed
    <2> DEFINE c == [lim |-> l[2], read |-> 0,
                     pc |-> IF l[2] = Last(LimitersOf(t)) THEN "post" ELSE "clock"]
    <2>1. Go(t, c)
      BY <1>5 DEF AfterAllow
    <2>2. DOMAIN c = {"lim", "read", "pc"} /\ c["read"] = 0 /\ c["pc"] \in {"post", "clock"}
      OBVIOUS
    <2> HIDE DEF c
    <2>3. /\ thread' = [u \in Threads |-> thread'[u]]
          /\ \A u \in Threads : u # t => thread'[u] = thread[u]
          /\ DOMAIN thread'[t] = Fields
          /\ \A f \in Fields : thread'[t][f] = IF f \in DOMAIN c THEN c[f] ELSE thread[t][f]
      BY <1>1, <2>1, GoKeeps
    <2>4. /\ thread'[t].pc \in {"post", "clock"} /\ thread'[t].read = 0
          /\ thread'[t].op = thread[t].op /\ thread'[t].pos = thread[t].pos
          /\ thread'[t].attempts = thread[t].attempts
      BY <2>2, <2>3 DEF Fields
    <2>5. ThreadIsSound(t)'
      <3>1. thread'[t].pc \in Steps /\ thread'[t].read \in Nat
        BY <2>4 DEF Steps
      <3> QED
        BY <1>1, <2>3, <2>4, <3>1 DEF ThreadIsSound, ThreadsAreSound
    <2>6. ThreadsAreSound'
      BY <1>1, <2>3, <2>5, OthersAreSound
    <2>7. Provider(t)' = Provider(t)
      BY <2>4 DEF Provider
    <2>8. \A q \in Rerankers : PastTest(t, q)' => PastTest(t, q)
      BY <2>4, <2>7 DEF PastTest
    <2>9. FewSlip' /\ UsageIsFresh'
      <3>1. UNCHANGED <<now, until, metricVars, slipped>>
        OBVIOUS
      <3> QED
        BY <1>2, <2>3, <2>4, <2>7, <2>8, <3>1, ThreadStep
    <2> QED
      BY <1>3, <2>6, <2>9
  <1> QED
    BY <1>4, <1>5

\* Redis counts: the sorted set stays within the limit.
LEMMA RedisAllowsStep ==
  ASSUME IInv, NEW t \in Threads, RedisAllows(t)
  PROVE  IInv'
  <1>1. PICK l : l = <<Provider(t), NextLimiter(t)>>
    OBVIOUS
  <1>2. PICK kept : kept = Recent(shared[l], now - Window[l])
    OBVIOUS
  <1>3. PICK allowed : allowed = (Len(kept) < Limit[l])
    OBVIOUS
  <1>4. /\ shared' = [shared EXCEPT ![l] = IF allowed THEN Append(kept, now) ELSE kept]
        /\ AfterAllow(t, l, allowed)
        /\ thread[t].pc = "clock"
        /\ UNCHANGED <<now, rankerVars, requests, until, metricVars, stamps, latest, slipped>>
    BY <1>1, <1>2, <1>3 DEF RedisAllows
  <1>5. ThreadsAreSound' /\ FewSlip' /\ UsageIsFresh' /\ LoadedOnce'
    BY <1>4, AfterTheLimiter
  <1>6. Numbers /\ WithinLimits /\ DequesAreSuffixes /\ now \in Nat
        /\ shared \in [Limiters -> Seq(Nat)]
    BY TimesAssumption DEF IInv, Numbers
  <1>7. shared' \in [Limiters -> Seq(Nat)] /\ \A k \in Limiters : Len(shared'[k]) <= Limit[k]
    <2>1. CASE l \notin Limiters
      <3>1. shared' = shared
        BY <1>4, <1>6, <2>1
      <3> QED
        BY <1>6, <3>1 DEF WithinLimits
    <2>2. CASE l \in Limiters
      <3>1. shared[l] \in Seq(Nat) /\ Limit[l] \in Nat /\ now - Window[l] \in Int
            /\ Len(shared[l]) <= Limit[l]
        BY <1>6, <2>2, LimitsAssumption DEF WithinLimits
      <3>2. kept \in Seq(Nat) /\ Len(kept) <= Len(shared[l])
        BY <1>2, <3>1, RecentIsShorter
      <3>3. Append(kept, now) \in Seq(Nat) /\ Len(Append(kept, now)) = Len(kept) + 1
            /\ Len(kept) \in Nat /\ Len(shared[l]) \in Nat
        BY <1>6, <3>1, <3>2
      <3>4. PICK s : s = IF allowed THEN Append(kept, now) ELSE kept
        OBVIOUS
      <3>5. s \in Seq(Nat) /\ Len(s) <= Limit[l]
        <4>1. CASE allowed
          <5>1. Len(kept) < Limit[l]
            BY <1>3, <4>1
          <5>2. s = Append(kept, now)
            BY <3>4, <4>1
          <5> QED
            BY <3>1, <3>3, <5>1, <5>2
        <4>2. CASE ~allowed
          BY <3>1, <3>2, <3>3, <3>4, <4>2
        <4> QED
          BY <4>1, <4>2
      <3>6. shared' = [shared EXCEPT ![l] = s]
        BY <1>4, <3>4
      <3> QED
        BY <1>6, <2>2, <3>5, <3>6 DEF WithinLimits
    <2> QED
      BY <2>1, <2>2
  <1>8. WithinLimits'
    BY <1>4, <1>6, <1>7 DEF WithinLimits
  <1>9. DequesAreSuffixes'
    BY <1>4, <1>6 DEF DequesAreSuffixes, IsTheEnd
  <1>10. Numbers'
    BY <1>4, <1>6, <1>7 DEF Numbers, rankerVars, metricVars
  <1> QED
    BY <1>5, <1>8, <1>9, <1>10 DEF IInv

\* The clock is read before the lock is taken: the thread is as far past its test
\* as it was.
LEMMA ReadClockStep ==
  ASSUME IInv, NEW t \in Threads, ReadClock(t)
  PROVE  IInv'
  <1> DEFINE c == [pc |-> "allow", read |-> now]
  <1>1. /\ Go(t, c) /\ ThreadsAreSound /\ thread[t].pc = "clock" /\ now \in Nat
        /\ thread[t].op \in {"plan", "rank"} /\ thread[t].pos \in Places(thread[t].op)
        /\ UNCHANGED <<now, rankerVars, limiterVars, until, metricVars, slipped>>
    BY TimesAssumption DEF ReadClock, IInv, ThreadsAreSound, ThreadIsSound, Numbers, Calling
  <1>2. DOMAIN c = {"pc", "read"} /\ c["pc"] = "allow" /\ c["read"] = now
    OBVIOUS
  <1> HIDE DEF c
  <1>3. /\ thread' = [u \in Threads |-> thread'[u]]
        /\ \A u \in Threads : u # t => thread'[u] = thread[u]
        /\ DOMAIN thread'[t] = Fields
        /\ \A f \in Fields : thread'[t][f] = IF f \in DOMAIN c THEN c[f] ELSE thread[t][f]
    BY <1>1, GoKeeps
  <1>4. /\ thread'[t].pc = "allow" /\ thread'[t].read = now /\ thread'[t].op = thread[t].op
        /\ thread'[t].pos = thread[t].pos /\ thread'[t].attempts = thread[t].attempts
    BY <1>2, <1>3 DEF Fields
  <1>5. ThreadIsSound(t)'
    <2>1. thread'[t].pc \in Steps /\ thread'[t].read \in Nat
      BY <1>1, <1>4 DEF Steps
    <2> QED
      BY <1>1, <1>3, <1>4, <2>1 DEF ThreadIsSound, ThreadsAreSound
  <1>6. ThreadsAreSound'
    BY <1>1, <1>3, <1>5, OthersAreSound
  <1>7. Provider(t)' = Provider(t)
    BY <1>4 DEF Provider
  <1>8. \A q \in Rerankers : PastTest(t, q)' => PastTest(t, q)
    BY <1>1, <1>4, <1>7 DEF PastTest
  <1>9. thread[t].op = "rank" => usage[t][Provider(t)] = 0
    BY <1>1 DEF IInv, UsageIsFresh
  <1> QED
    BY <1>1, <1>3, <1>4, <1>6, <1>7, <1>8, <1>9, OnlyTheThread

\* The limiter of the process: what popleft drops is old at the latest time too,
\* whatever order the threads come in.
LEMMA AllowMemoryStep ==
  ASSUME IInv, NEW t \in Threads, AllowMemory(t)
  PROVE  IInv'
  <1>1. PICK l : l = <<Provider(t), NextLimiter(t)>>
    OBVIOUS
  <1>2. PICK read : read = thread[t].read
    OBVIOUS
  <1>3. PICK kept : kept = Popped(requests[l], read - Window[l])
    OBVIOUS
  <1>4. PICK allowed : allowed = (Len(kept) < Limit[l])
    OBVIOUS
  <1>5. /\ requests' = [requests EXCEPT ![l] = IF allowed THEN Append(kept, read) ELSE kept]
        /\ stamps' = [stamps EXCEPT ![l] = IF allowed THEN Append(@, read) ELSE @]
        /\ latest' = [latest EXCEPT ![l] = Max({@, read})]
        /\ AfterAllow(t, l, allowed)
        /\ thread[t].pc = "allow"
        /\ UNCHANGED <<now, rankerVars, shared, until, metricVars, slipped>>
    BY <1>1, <1>2, <1>3, <1>4 DEF AllowMemory
  <1>6. ThreadsAreSound' /\ FewSlip' /\ UsageIsFresh' /\ LoadedOnce'
    BY <1>5, AfterTheLimiter
  <1>7. /\ Numbers /\ WithinLimits /\ DequesAreSuffixes /\ read \in Nat
        /\ requests \in [Limiters -> Seq(Nat)] /\ stamps \in [Limiters -> Seq(Nat)]
        /\ latest \in [Limiters -> Nat]
    BY <1>2 DEF IInv, Numbers, ThreadsAreSound, ThreadIsSound
  <1>8. CASE l \notin Limiters
    <2>1. requests' = requests /\ stamps' = stamps /\ latest' = latest
      BY <1>5, <1>7, <1>8
    <2>2. UNCHANGED limiterVars
      BY <1>5, <2>1 DEF limiterVars
    <2>3. Numbers'
      BY <1>5, <1>7, <2>1 DEF Numbers, rankerVars, metricVars
    <2> QED
      BY <1>6, <1>7, <2>2, <2>3, LimitersStay DEF IInv
  <1>9. CASE l \in Limiters
    <2>1. PICK s \in Seq(Nat) : s = requests[l]
      BY <1>7, <1>9
    <2>2. PICK all \in Seq(Nat) : all = stamps[l]
      BY <1>7, <1>9
    <2>3. PICK w \in Nat : w = Window[l]
      BY <1>9, LimitsAssumption
    <2>4. PICK limit \in Nat : limit = Limit[l]
      BY <1>9, LimitsAssumption
    <2>5. PICK old \in Nat : old = latest[l]
      BY <1>7, <1>9
    <2>6. PICK new \in Nat : new = Max({old, read})
      BY <1>7, LaterOfTwo
    <2>7. new >= old /\ new >= read
      BY <1>7, <2>6, LaterOfTwo
    <2>8. /\ kept \in Seq(Nat) /\ Len(kept) =< Len(s)
          /\ \A i \in 1 .. Len(kept) : kept[i] = s[Len(s) - Len(kept) + i]
          /\ \A i \in 1 .. (Len(s) - Len(kept)) : s[i] =< read - w
      <3>1. read - w \in Int /\ kept = Popped(s, read - w)
        BY <1>3, <1>7, <2>1, <2>3
      <3> QED
        BY <3>1, PoppedIsTheEnd
    <2>9. /\ Len(s) =< Len(all) /\ Len(s) \in Nat /\ Len(all) \in Nat /\ Len(kept) \in Nat
          /\ \A i \in 1 .. Len(s) : s[i] = all[Len(all) - Len(s) + i]
          /\ \A i \in 1 .. (Len(all) - Len(s)) : all[i] <= old - w
          /\ Len(s) =< limit
      <3>1. Len(s) \in Nat /\ Len(all) \in Nat /\ Len(kept) \in Nat
        BY <2>8
      <3>2. Len(all) - Len(s) >= 0 /\ Len(s) =< limit
        BY <1>7, <1>9, <2>1, <2>2, <2>4 DEF DequesAreSuffixes, IsTheEnd, WithinLimits
      <3>3. /\ \A i \in 1 .. Len(s) : s[i] = all[Len(all) - Len(s) + i]
            /\ \A i \in 1 .. (Len(all) - Len(s)) : all[i] <= old - w
        BY <1>7, <1>9, <2>1, <2>2, <2>3, <2>5 DEF DequesAreSuffixes, IsTheEnd
      <3> QED
        BY <3>1, <3>2, <3>3
    <2>10. /\ \A i \in 1 .. Len(kept) : kept[i] = all[Len(all) - Len(kept) + i]
           /\ \A i \in 1 .. (Len(all) - Len(kept)) : all[i] <= new - w
      <3>1. \A i \in 1 .. Len(kept) : kept[i] = all[Len(all) - Len(kept) + i]
        <4> SUFFICES ASSUME NEW i \in 1 .. Len(kept)
                     PROVE  kept[i] = all[Len(all) - Len(kept) + i]
          OBVIOUS
        <4>1. PICK j \in 1 .. Len(s) : j = Len(s) - Len(kept) + i
          <5>1. Len(s) - Len(kept) + i \in 1 .. Len(s)
            BY <2>8, <2>9
          <5> QED
            BY <5>1
        <4>2. Len(all) - Len(s) + j = Len(all) - Len(kept) + i
          BY <2>9, <4>1
        <4>3. kept[i] = s[j] /\ s[j] = all[Len(all) - Len(s) + j]
          BY <2>8, <2>9, <4>1
        <4> QED
          BY <4>2, <4>3
      <3>2. \A i \in 1 .. (Len(all) - Len(kept)) : all[i] <= new - w
        <4> SUFFICES ASSUME NEW i \in 1 .. (Len(all) - Len(kept)) PROVE all[i] <= new - w
          OBVIOUS
        <4>1. i \in 1 .. Len(all) /\ all[i] \in Nat
          BY <2>9
        <4>2. CASE i =< Len(all) - Len(s)
          <5>1. all[i] <= old - w
            BY <2>9, <4>1, <4>2
          <5> QED
            BY <2>7, <4>1, <5>1
        <4>3. CASE ~(i =< Len(all) - Len(s))
          <5>1. PICK j \in 1 .. (Len(s) - Len(kept)) : i = Len(all) - Len(s) + j
            <6>1. i - (Len(all) - Len(s)) \in 1 .. (Len(s) - Len(kept))
              BY <2>8, <2>9, <4>1, <4>3
            <6>2. i = Len(all) - Len(s) + (i - (Len(all) - Len(s)))
              BY <2>9, <4>1
            <6> QED
              BY <6>1, <6>2
          <5>2. j \in 1 .. Len(s)
            BY <2>8, <2>9
          <5>3. s[j] =< read - w /\ s[j] = all[i]
            BY <2>8, <2>9, <5>1, <5>2
          <5> QED
            BY <1>7, <2>7, <4>1, <5>3
        <4> QED
          BY <4>2, <4>3
      <3> QED
        BY <3>1, <3>2
    <2>11. PICK s2, all2 : /\ s2 = IF allowed THEN Append(kept, read) ELSE kept
                           /\ all2 = IF allowed THEN Append(all, read) ELSE all
      OBVIOUS
    <2>12. /\ requests' = [requests EXCEPT ![l] = s2] /\ stamps' = [stamps EXCEPT ![l] = all2]
           /\ latest' = [latest EXCEPT ![l] = new]
      BY <1>5, <2>2, <2>5, <2>6, <2>11
    <2>13. /\ s2 \in Seq(Nat) /\ all2 \in Seq(Nat) /\ Len(s2) =< limit
           /\ Len(all2) - Len(s2) = Len(all) - Len(kept)
           /\ \A i \in 1 .. Len(s2) : s2[i] = all2[Len(all2) - Len(s2) + i]
           /\ \A i \in 1 .. (Len(all2) - Len(s2)) : all2[i] <= new - w
      <3>1. CASE ~allowed
        <4>1. s2 = kept /\ all2 = all
          BY <2>11, <3>1
        <4> QED
          BY <2>8, <2>9, <2>10, <4>1
      <3>2. CASE allowed
        <4>1. s2 = Append(kept, read) /\ all2 = Append(all, read)
          BY <2>11, <3>2
        <4>2. /\ s2 \in Seq(Nat) /\ Len(s2) = Len(kept) + 1 /\ s2[Len(kept) + 1] = read
              /\ \A i \in 1 .. Len(kept) : s2[i] = kept[i]
          BY <1>7, <2>8, <4>1
        <4>3. /\ all2 \in Seq(Nat) /\ Len(all2) = Len(all) + 1 /\ all2[Len(all) + 1] = read
              /\ \A i \in 1 .. Len(all) : all2[i] = all[i]
          BY <1>7, <4>1
        <4>4. Len(kept) < limit
          BY <1>4, <2>4, <3>2
        <4>5. Len(all2) - Len(s2) = Len(all) - Len(kept) /\ Len(s2) =< limit
          BY <2>9, <4>2, <4>3, <4>4
        <4>6. \A i \in 1 .. Len(s2) : s2[i] = all2[Len(all2) - Len(s2) + i]
          <5> SUFFICES ASSUME NEW i \in 1 .. Len(s2)
                       PROVE  s2[i] = all2[Len(all) - Len(kept) + i]
            BY <4>5
          <5>1. CASE i = Len(kept) + 1
            <6>1. Len(all) - Len(kept) + i = Len(all) + 1
              BY <2>9, <5>1
            <6> QED
              BY <4>2, <4>3, <5>1, <6>1
          <5>2. CASE i # Len(kept) + 1
            <6>1. i \in 1 .. Len(kept)
              BY <2>9, <4>2, <5>2
            <6>2. Len(all) - Len(kept) + i \in 1 .. Len(all)
              BY <2>8, <2>9, <6>1
            <6> QED
              BY <2>10, <4>2, <4>3, <6>1, <6>2
          <5> QED
            BY <5>1, <5>2
        <4>7. \A i \in 1 .. (Len(all2) - Len(s2)) : all2[i] <= new - w
          <5> SUFFICES ASSUME NEW i \in 1 .. (Len(all) - Len(kept)) PROVE all2[i] <= new - w
            BY <4>5
          <5>1. i \in 1 .. Len(all)
            BY <2>9
          <5> QED
            BY <2>10, <4>3, <5>1
        <4> QED
          BY <4>2, <4>3, <4>5, <4>6, <4>7
      <3> QED
        BY <3>1, <3>2
    <2>14. /\ requests' \in [Limiters -> Seq(Nat)] /\ stamps' \in [Limiters -> Seq(Nat)]
           /\ latest' \in [Limiters -> Nat]
           /\ requests'[l] = s2 /\ stamps'[l] = all2 /\ latest'[l] = new
           /\ \A k \in Limiters : k # l => /\ requests'[k] = requests[k]
                                           /\ stamps'[k] = stamps[k] /\ latest'[k] = latest[k]
      BY <1>7, <1>9, <2>12, <2>13
    <2>15. Numbers'
      BY <1>5, <1>7, <2>14 DEF Numbers, rankerVars, metricVars
    <2>16. WithinLimits'
      <3>1. Len(requests'[l]) <= Limit[l]
        BY <2>4, <2>13, <2>14
      <3>2. \A k \in Limiters : Len(requests'[k]) <= Limit[k]
        BY <1>7, <2>14, <3>1 DEF WithinLimits
      <3> QED
        BY <1>5, <1>7, <3>2 DEF WithinLimits
    <2>17. DequesAreSuffixes'
      <3>1. IsTheEnd(l)'
        <4>1. Len(all2) - Len(s2) >= 0
          BY <2>8, <2>9, <2>13
        <4> QED
          BY <2>3, <2>13, <2>14, <4>1 DEF IsTheEnd
      <3>2. \A k \in Limiters : k # l => IsTheEnd(k)'
        BY <1>7, <2>14 DEF DequesAreSuffixes, IsTheEnd
      <3> QED
        BY <3>1, <3>2 DEF DequesAreSuffixes
    <2> QED
      BY <1>6, <2>15, <2>16, <2>17 DEF IInv
  <1> QED
    BY <1>8, <1>9

------------------------------------------------------------------------------
(* The calls.                                                               *)

\* The steps that end an attempt without tokens and touch nothing else.
LEMMA PassedOver ==
  ASSUME IInv, NEW t \in Threads, thread[t].pc \in Calling, Attempt(t, "fallback", 0),
         usage' \in [Threads -> [AllProviders -> {0, 1}]],
         \A u \in Threads : u # t => usage'[u] = usage[u],
         UNCHANGED <<now, rankerVars, limiterVars, until, slipped, billed>>
  PROVE  IInv'
  <1>1. UNCHANGED <<now, rankerVars, billed>> /\ UNCHANGED <<now, until, slipped>>
        /\ UNCHANGED limiterVars
    OBVIOUS
  <1>2. /\ ThreadsAreSound' /\ UsageIsFresh' /\ LoadedOnce'
        /\ \A u \in Threads : u # t => thread'[u] = thread[u]
        /\ \A q \in Rerankers : ~PastTest(t, q)'
    BY <1>1, UnbilledStep
  <1>3. FewSlip'
    BY <1>1, <1>2, SlipsOfOne DEF IInv
  <1>4. WithinLimits' /\ DequesAreSuffixes'
    BY <1>1, LimitersStay DEF IInv
  <1>5. Numbers'
    BY <1>1 DEF IInv, Numbers, rankerVars, limiterVars
  <1> QED
    BY <1>2, <1>3, <1>4, <1>5 DEF IInv

\* The weighted token budget refuses.
LEMMA TokensRefusedStep ==
  ASSUME IInv, NEW t \in Threads, TokensRefused(t)
  PROVE  IInv'
  <1>1. /\ thread[t].pc \in Calling /\ Attempt(t, "fallback", 0)
        /\ UNCHANGED <<now, rankerVars, limiterVars, until, slipped, billed>>
    BY DEF TokensRefused, metricVars, Calling
  <1>2. /\ usage' \in [Threads -> [AllProviders -> {0, 1}]]
        /\ \A u \in Threads : u # t => usage'[u] = usage[u]
    BY DEF TokensRefused, metricVars, IInv, Numbers
  <1> QED
    BY <1>1, <1>2, PassedOver

\* A model without a key, or past the deadline, is not called.
LEMMA NotCalledStep ==
  ASSUME IInv, NEW t \in Threads, NotCalled(t)
  PROVE  IInv'
  <1>1. /\ thread[t].pc \in Calling /\ Attempt(t, "fallback", 0)
        /\ ThreadsAreSound /\ Numbers
        /\ UNCHANGED <<now, rankerVars, limiterVars, until, slipped, billed>>
    BY DEF NotCalled, Calling, IInv
  <1>2. PICK p \in AllProviders : p = Provider(t)
    BY <1>1, ProviderOfThread
  <1>3. usage' = [usage EXCEPT ![t][p] = 0]
    BY <1>2 DEF NotCalled
  <1>4. /\ usage' \in [Threads -> [AllProviders -> {0, 1}]]
        /\ \A u \in Threads : u # t => usage'[u] = usage[u]
    BY <1>1, <1>3, UsageIsWritten
  <1> QED
    BY <1>1, <1>4, PassedOver

\* A call begins: a thread past its test slips through a cooldown set since then,
\* and cannot be the one thread that neither has nor may.
LEMMA PostStep ==
  ASSUME IInv, NEW t \in Threads, Post(t)
  PROVE  IInv'
  <1>1. /\ ThreadsAreSound /\ Numbers /\ FewSlip /\ UsageIsFresh
        /\ thread[t].pc = "post" /\ Go(t, [pc |-> "waiting"])
        /\ thread[t].op \in {"plan", "rank"} /\ thread[t].pos \in Places(thread[t].op)
        /\ UNCHANGED <<now, rankerVars, limiterVars, until, metricVars>>
    BY DEF Post, IInv, ThreadsAreSound, ThreadIsSound, Calling
  <1>2. /\ thread' = [u \in Threads |-> thread'[u]]
        /\ \A u \in Threads : u # t => thread'[u] = thread[u]
        /\ DOMAIN thread'[t] = Fields
        /\ thread'[t].pc = "waiting" /\ thread'[t].op = thread[t].op
        /\ thread'[t].pos = thread[t].pos
        /\ thread'[t].read = thread[t].read /\ thread'[t].attempts = thread[t].attempts
    BY <1>1, GoTo
  <1>3. ThreadsAreSound'
    <2>1. ThreadIsSound(t)'
      BY <1>1, <1>2 DEF ThreadIsSound, ThreadsAreSound, Steps
    <2> QED
      BY <1>1, <1>2, <2>1, OthersAreSound
  <1>4. UsageIsFresh'
    <2>1. Provider(t)' = Provider(t) /\ usage' = usage /\ billed' = billed
      BY <1>1, <1>2 DEF Provider, metricVars
    <2>2. thread[t].op = "rank" => usage[t][Provider(t)] = 0
      BY <1>1 DEF UsageIsFresh
    <2>3. billed'[t] = Cardinality(Reported(thread'[t].attempts))
      BY <1>1, <1>2, <2>1 DEF UsageIsFresh
    <2> QED
      BY <1>1, <1>2, <2>1, <2>2, <2>3, FreshOfOne
  <1>5. WithinLimits' /\ DequesAreSuffixes' /\ LoadedOnce'
    <2>1. LoadedOnce'
      BY <1>1 DEF IInv, LoadedOnce, OneReranker, rankerVars
    <2> QED
      BY <1>1, <2>1, LimitersStay DEF IInv
  <1>6. \A p \in Rerankers : ~PastTest(t, p)'
    BY <1>2 DEF PastTest
  <1>7. CASE ~(thread[t].op = "rank" /\ until[Provider(t)] > now)
    <2>1. slipped' = slipped
      BY <1>7 DEF Post
    <2>2. FewSlip'
      BY <1>1, <1>2, <1>6, <2>1, SlipsOfOne
    <2>3. Numbers'
      BY <1>1, <2>1 DEF Numbers, rankerVars, limiterVars, metricVars
    <2> QED
      BY <1>3, <1>4, <1>5, <2>2, <2>3 DEF IInv
  <1>8. CASE thread[t].op = "rank" /\ until[Provider(t)] > now
    <2>1. PICK p \in Rerankers : p = Provider(t)
      BY <1>1, <1>8, ProviderOfThread DEF Calling
    <2>2. PastTest(t, p)
      BY <1>1, <1>8, <2>1 DEF PastTest
    <2>3. slipped[p][t] = 0 /\ slipped \in [Rerankers -> [Threads -> Nat]]
      BY <1>1, <1>8, <2>1, <2>2 DEF FewSlip, Numbers
    <2>4. slipped' = [slipped EXCEPT ![p][t] = 1]
      <3>1. slipped' = [slipped EXCEPT ![p][t] = @ + 1]
        BY <1>8, <2>1 DEF Post
      <3>2. slipped' = [slipped EXCEPT ![p] = [slipped[p] EXCEPT ![t] = slipped[p][t] + 1]]
        BY <3>1
      <3> QED
        BY <2>3, <3>2
    <2>5. slipped[p] \in [Threads -> Nat]
      BY <2>3
    <2>6. PICK row \in [Threads -> Nat] : row = [slipped[p] EXCEPT ![t] = 1]
      BY <2>5
    <2>7. row[t] = 1 /\ \A u \in Threads : u # t => row[u] = slipped[p][u]
      BY <2>5, <2>6
    <2>8. slipped' = [slipped EXCEPT ![p] = row]
      BY <2>4, <2>6
    <2>9. /\ slipped' \in [Rerankers -> [Threads -> Nat]] /\ slipped'[p] = row
          /\ \A q \in Rerankers : q # p => slipped'[q] = slipped[q]
      BY <2>3, <2>8
    <2>10. \A u \in Threads : u # t => \A q \in Rerankers : PastTest(u, q)' = PastTest(u, q)
      BY <1>2 DEF PastTest, Provider
    <2>11. FewSlip'
      <3> SUFFICES ASSUME NEW q \in Rerankers, until[q] > now
                   PROVE  /\ \A u \in Threads : slipped'[q][u] <= 1
                                                /\ (PastTest(u, q)' => slipped'[q][u] = 0)
                          /\ \E u \in Threads : slipped'[q][u] = 0 /\ ~PastTest(u, q)'
        BY <1>1 DEF FewSlip
      <3>1. \A u \in Threads : slipped[q][u] <= 1 /\ (PastTest(u, q) => slipped[q][u] = 0)
        BY <1>1 DEF FewSlip
      <3>2. PICK w \in Threads : slipped[q][w] = 0 /\ ~PastTest(w, q)
        BY <1>1 DEF FewSlip
      <3>3. \A u \in Threads : PastTest(u, q)' => PastTest(u, q) /\ u # t
        BY <1>6, <2>10
      <3>4. CASE q # p
        BY <2>9, <3>1, <3>2, <3>3, <3>4
      <3>5. CASE q = p
        <4>1. w # t
          BY <2>2, <3>2, <3>5
        <4>2. slipped'[q][w] = 0 /\ ~PastTest(w, q)'
          BY <2>7, <2>9, <3>2, <3>3, <3>5, <4>1
        <4>3. \A u \in Threads : slipped'[q][u] <= 1
          <5> SUFFICES ASSUME NEW u \in Threads PROVE slipped'[q][u] <= 1
            OBVIOUS
          <5>1. CASE u = t
            BY <2>7, <2>9, <3>5, <5>1
          <5>2. CASE u # t
            BY <2>7, <2>9, <3>1, <3>5, <5>2
          <5> QED
            BY <5>1, <5>2
        <4>4. \A u \in Threads : PastTest(u, q)' => slipped'[q][u] = 0
          BY <2>7, <2>9, <3>1, <3>3, <3>5
        <4> QED
          BY <4>2, <4>3, <4>4
      <3> QED
        BY <3>4, <3>5
    <2>12. Numbers'
      BY <1>1, <2>9 DEF Numbers, rankerVars, limiterVars, metricVars
    <2> QED
      BY <1>3, <1>4, <1>5, <2>11, <2>12 DEF IInv
  <1> QED
    BY <1>7, <1>8

\* A cooldown that begins has let nothing slip; one that is prolonged lets no
\* more slip than it did: the thread that sets it is itself not past its test.
LEMMA CooldownIsSet ==
  ASSUME IInv, NEW t \in Threads, NEW p \in Rerankers, NEW seconds \in Nat,
         SetCooldown(p, seconds), now' = now,
         \A u \in Threads : u # t => thread'[u] = thread[u],
         \A q \in Rerankers : ~PastTest(t, q)',
         thread[t].pc = "waiting"
  PROVE  /\ FewSlip' /\ until' \in [Rerankers -> Nat]
         /\ slipped' \in [Rerankers -> [Threads -> Nat]]
  <1>1. /\ FewSlip /\ now \in Nat /\ until \in [Rerankers -> Nat]
        /\ slipped \in [Rerankers -> [Threads -> Nat]]
    BY TimesAssumption DEF IInv, Numbers
  <1>2. PICK later \in Nat : later = Max({until[p], now + seconds})
    <2>1. until[p] \in Nat /\ now + seconds \in Nat
      BY <1>1
    <2> QED
      BY <2>1, LaterOfTwo
  <1>3. until' = [until EXCEPT ![p] = later]
    BY <1>2 DEF SetCooldown
  <1>4. until' \in [Rerankers -> Nat] /\ \A q \in Rerankers : q # p => until'[q] = until[q]
    BY <1>1, <1>3
  <1>5. \A u \in Threads, q \in Rerankers : PastTest(u, q)' => PastTest(u, q) /\ u # t
    BY DEF PastTest, Provider
  <1>6. \A q \in Rerankers : ~PastTest(t, q)
    BY DEF PastTest
  <1>7. slipped' = IF until[p] > now THEN slipped
                   ELSE [slipped EXCEPT ![p] = [u \in Threads |-> 0]]
    BY DEF SetCooldown
  <1>8. /\ slipped' \in [Rerankers -> [Threads -> Nat]]
        /\ \A q \in Rerankers : q # p => slipped'[q] = slipped[q]
        /\ until[p] > now => slipped'[p] = slipped[p]
        /\ ~(until[p] > now) => slipped'[p] = [u \in Threads |-> 0]
    <2>1. CASE until[p] > now
      BY <1>1, <1>7, <2>1
    <2>2. CASE ~(until[p] > now)
      <3>1. slipped' = [slipped EXCEPT ![p] = [u \in Threads |-> 0]]
        BY <1>7, <2>2
      <3>2. [u \in Threads |-> 0] \in [Threads -> Nat]
        OBVIOUS
      <3> QED
        BY <1>1, <2>2, <3>1, <3>2
    <2> QED
      BY <2>1, <2>2
  <1>9. FewSlip'
    <2> SUFFICES ASSUME NEW q \in Rerankers, until'[q] > now
                 PROVE  /\ \A u \in Threads : slipped'[q][u] <= 1
                                              /\ (PastTest(u, q)' => slipped'[q][u] = 0)
                        /\ \E u \in Threads : slipped'[q][u] = 0 /\ ~PastTest(u, q)'
      BY DEF FewSlip
    <2>1. CASE until[q] > now
      <3>1. slipped'[q] = slipped[q]
        BY <1>8, <2>1
      <3>2. \A u \in Threads : slipped[q][u] <= 1 /\ (PastTest(u, q) => slipped[q][u] = 0)
        BY <1>1, <2>1 DEF FewSlip
      <3>3. PICK w \in Threads : slipped[q][w] = 0 /\ ~PastTest(w, q)
        BY <1>1, <2>1 DEF FewSlip
      <3> QED
        BY <1>5, <3>1, <3>2, <3>3
    <2>2. CASE ~(until[q] > now)
      <3>1. q = p
        BY <1>4, <2>2
      <3>2. \A u \in Threads : slipped'[q][u] = 0
        BY <1>8, <2>2, <3>1
      <3> QED
        BY <3>2
    <2> QED
      BY <2>1, <2>2
  <1> QED
    BY <1>4, <1>8, <1>9

\* A call that fails sets the cooldown and is not billed.
LEMMA FailedCall ==
  ASSUME IInv, NEW t \in Threads, thread[t].pc = "waiting", thread[t].op = "rank",
         NEW seconds \in Nat, SetCooldown(Provider(t), seconds),
         Attempt(t, "fallback", usage[t][Provider(t)]),
         UNCHANGED <<now, rankerVars, limiterVars, metricVars>>
  PROVE  IInv'
  <1>1. /\ ThreadsAreSound /\ Numbers /\ thread[t].pc \in Calling
        /\ usage[t][Provider(t)] = 0 /\ usage' = usage /\ billed' = billed
        /\ UNCHANGED <<now, rankerVars, billed>> /\ UNCHANGED limiterVars
    BY DEF IInv, UsageIsFresh, Calling, metricVars
  <1>2. PICK p \in Rerankers : p = Provider(t)
    BY <1>1, ProviderOfThread
  <1>3. Attempt(t, "fallback", 0) /\ SetCooldown(p, seconds)
    BY <1>1, <1>2
  <1>4. /\ usage' \in [Threads -> [AllProviders -> {0, 1}]]
        /\ \A u \in Threads : u # t => usage'[u] = usage[u]
    BY <1>1 DEF Numbers
  <1>5. /\ ThreadsAreSound' /\ UsageIsFresh' /\ LoadedOnce'
        /\ \A u \in Threads : u # t => thread'[u] = thread[u]
        /\ \A q \in Rerankers : ~PastTest(t, q)'
    BY <1>1, <1>3, <1>4, UnbilledStep
  <1>6. /\ FewSlip' /\ until' \in [Rerankers -> Nat]
        /\ slipped' \in [Rerankers -> [Threads -> Nat]]
    BY <1>3, <1>5, CooldownIsSet
  <1>7. WithinLimits' /\ DequesAreSuffixes'
    BY <1>1, LimitersStay DEF IInv
  <1>8. Numbers'
    BY <1>1, <1>4, <1>6 DEF Numbers, rankerVars, limiterVars
  <1> QED
    BY <1>5, <1>6, <1>7, <1>8 DEF IInv

\* Status 429.
LEMMA RateLimitedStep ==
  ASSUME IInv, NEW t \in Threads, RateLimited(t)
  PROVE  IInv'
  <1>1. PICK after \in RetryAfters \union {0} :
            SetCooldown(Provider(t), IF after = 0 THEN RateCooldown ELSE after)
    BY DEF RateLimited
  <1>2. PICK seconds \in Nat : seconds = IF after = 0 THEN RateCooldown ELSE after
    BY CooldownsAssumption
  <1>3. SetCooldown(Provider(t), seconds)
    BY <1>1, <1>2
  <1>4. /\ thread[t].pc = "waiting" /\ thread[t].op = "rank"
        /\ Attempt(t, "fallback", usage[t][Provider(t)])
        /\ UNCHANGED <<now, rankerVars, limiterVars, metricVars>>
    BY DEF RateLimited
  <1> QED
    BY <1>3, <1>4, FailedCall

\* Any other failure that sets the cooldown.
LEMMA CallFailsStep ==
  ASSUME IInv, NEW t \in Threads, CallFails(t)
  PROVE  IInv'
  <1>1. FailCooldown \in Nat
    BY CooldownsAssumption
  <1>2. /\ thread[t].pc = "waiting" /\ thread[t].op = "rank"
        /\ SetCooldown(Provider(t), FailCooldown)
        /\ Attempt(t, "fallback", usage[t][Provider(t)])
        /\ UNCHANGED <<now, rankerVars, limiterVars, metricVars>>
    BY DEF CallFails
  <1> QED
    BY <1>1, <1>2, FailedCall

\* A failure that sets none.
LEMMA UnreadableStep ==
  ASSUME IInv, NEW t \in Threads, Unreadable(t)
  PROVE  IInv'
  <1>1. /\ thread[t].pc \in Calling /\ usage[t][Provider(t)] = 0
        /\ UNCHANGED <<now, rankerVars, limiterVars, until, slipped, billed>>
    BY DEF Unreadable, IInv, UsageIsFresh, Calling, metricVars
  <1>2. Attempt(t, "fallback", 0)
    BY <1>1 DEF Unreadable
  <1>3. /\ usage' \in [Threads -> [AllProviders -> {0, 1}]]
        /\ \A u \in Threads : u # t => usage'[u] = usage[u]
    BY DEF Unreadable, metricVars, IInv, Numbers
  <1> QED
    BY <1>1, <1>2, <1>3, PassedOver

\* An answer: its tokens are written, billed and recorded.
LEMMA AnsweredCall ==
  ASSUME IInv, NEW t \in Threads, thread[t].pc = "waiting",
         NEW status \in {"success", "fallback", "failed"}, NEW tokens \in {0, 1},
         usage' = [usage EXCEPT ![t][Provider(t)] = tokens],
         billed' = [billed EXCEPT ![t] = @ + tokens],
         Attempt(t, status, usage'[t][Provider(t)]),
         UNCHANGED <<now, rankerVars, limiterVars, until, slipped>>
  PROVE  IInv'
  <1>1. /\ ThreadsAreSound /\ Numbers /\ thread[t].pc \in Calling
        /\ UNCHANGED <<now, rankerVars>> /\ UNCHANGED limiterVars
        /\ UNCHANGED <<now, until, slipped>>
    BY DEF IInv, Calling
  <1>2. PICK p \in AllProviders : p = Provider(t)
    BY <1>1, ProviderOfThread
  <1>3. usage' = [usage EXCEPT ![t][p] = tokens]
    BY <1>2
  <1>4. /\ usage' \in [Threads -> [AllProviders -> {0, 1}]] /\ usage'[t][p] = tokens
        /\ \A u \in Threads : u # t => usage'[u] = usage[u]
    BY <1>1, <1>3, UsageIsWritten
  <1>5. Attempt(t, status, tokens)
    BY <1>2, <1>4
  <1>6. /\ ThreadsAreSound' /\ UsageIsFresh' /\ LoadedOnce'
        /\ billed' \in [Threads -> Nat]
        /\ \A u \in Threads : u # t => thread'[u] = thread[u]
        /\ \A q \in Rerankers : ~PastTest(t, q)'
    BY <1>1, <1>4, <1>5, AttemptStep
  <1>7. FewSlip'
    BY <1>1, <1>6, SlipsOfOne DEF IInv
  <1>8. WithinLimits' /\ DequesAreSuffixes'
    BY <1>1, LimitersStay DEF IInv
  <1>9. Numbers'
    BY <1>1, <1>4, <1>6 DEF Numbers, rankerVars, limiterVars
  <1> QED
    BY <1>6, <1>7, <1>8, <1>9 DEF IInv

\* Scores, of all documents or of some.
LEMMA ScoredStep ==
  ASSUME IInv, NEW t \in Threads, NEW complete \in BOOLEAN, Scored(t, complete)
  PROVE  IInv'
  <1>1. PICK status \in {"success", "fallback", "failed"} :
            status = IF complete THEN "success" ELSE "fallback"
    OBVIOUS
  <1>2. /\ thread[t].pc = "waiting" /\ 1 \in {0, 1}
        /\ usage' = [usage EXCEPT ![t][Provider(t)] = 1]
        /\ billed' = [billed EXCEPT ![t] = @ + 1]
        /\ UNCHANGED <<now, rankerVars, limiterVars, until, slipped>>
    BY DEF Scored
  <1>3. Attempt(t, status, usage'[t][Provider(t)])
    BY <1>1 DEF Scored
  <1> QED
    BY <1>2, <1>3, AnsweredCall

\* The answer of a chat model.
LEMMA ChatRepliesStep ==
  ASSUME IInv, NEW t \in Threads, NEW reply \in Replies, ChatReplies(t, reply)
  PROVE  IInv'
  <1>1. PICK status \in {"success", "fallback", "failed"} :
            status = IF Provider(t) = "groq" THEN GroqChat(reply) ELSE GeminiChat(reply)
    <2>1. GroqChat(reply) \in {"success", "fallback", "failed"}
      BY DEF GroqChat, http_status_error
    <2>2. GeminiChat(reply) \in {"success", "fallback", "failed"}
      BY DEF GeminiChat, http_status_error
    <2> QED
      BY <2>1, <2>2
  <1>2. PICK tokens \in {0, 1} : tokens = IF reply \in Billable THEN 1 ELSE 0
    OBVIOUS
  <1>3. /\ thread[t].pc = "waiting"
        /\ usage' = [usage EXCEPT ![t][Provider(t)] = tokens]
        /\ billed' = [billed EXCEPT ![t] = @ + tokens]
        /\ UNCHANGED <<now, rankerVars, limiterVars, until, slipped>>
    BY <1>2 DEF ChatReplies
  <1>4. Attempt(t, status, usage'[t][Provider(t)])
    BY <1>1 DEF ChatReplies
  <1> QED
    BY <1>3, <1>4, AnsweredCall

\* The call returns and the thread is idle.
LEMMA ReturnStep ==
  ASSUME IInv, NEW t \in Threads, Return(t)
  PROVE  IInv'
  <1>1. /\ ThreadsAreSound /\ Numbers /\ UsageIsFresh
        /\ thread' = [thread EXCEPT ![t] = Idle] /\ billed' = [billed EXCEPT ![t] = 0]
        /\ UNCHANGED <<now, rankerVars, limiterVars, until, usage, slipped>>
    BY DEF Return, IInv
  <1>2. /\ thread' = [u \in Threads |-> thread'[u]] /\ thread'[t] = Idle
        /\ \A u \in Threads : u # t => thread'[u] = thread[u]
    BY <1>1 DEF ThreadsAreSound
  <1>3. /\ DOMAIN Idle = Fields /\ Idle.pc = "idle" /\ Idle.op = "none" /\ Idle.read = 0
        /\ Idle.attempts = <<>>
    BY DEF Idle, Fields
  <1>4. ThreadIsSound(t)'
    BY <1>2, <1>3, NothingReported DEF ThreadIsSound, Steps, Calling
  <1>5. ThreadsAreSound'
    BY <1>1, <1>2, <1>4, OthersAreSound
  <1>6. \A q \in Rerankers : ~PastTest(t, q)'
    BY <1>2, <1>3 DEF PastTest
  <1>7. FewSlip'
    BY <1>1, <1>2, <1>6, SlipsOfOne DEF IInv
  <1>8. /\ billed' \in [Threads -> Nat] /\ billed'[t] = 0
        /\ \A u \in Threads : u # t => billed'[u] = billed[u]
    BY <1>1 DEF Numbers
  <1>9. UsageIsFresh'
    <2>1. billed'[t] = Cardinality(Reported(thread'[t].attempts))
      BY <1>2, <1>3, <1>8, NothingReported
    <2>2. thread'[t].op # "rank"
      BY <1>2, <1>3
    <2> QED
      BY <1>1, <1>2, <1>8, <2>1, <2>2, FreshOfOne
  <1>10. WithinLimits' /\ DequesAreSuffixes'
    BY <1>1, LimitersStay DEF IInv
  <1>11. LoadedOnce'
    BY <1>1 DEF IInv, LoadedOnce, OneReranker, rankerVars
  <1>12. Numbers'
    BY <1>1, <1>8 DEF Numbers, rankerVars, limiterVars
  <1> QED
    BY <1>5, <1>7, <1>9, <1>10, <1>11, <1>12 DEF IInv

\* Time only ends cooldowns.
LEMMA TickStep == ASSUME IInv, Tick PROVE IInv'
  <1>1. /\ now \in Nat /\ now < MaxTime /\ now' = now + 1 /\ MaxTime \in Nat
        /\ UNCHANGED <<rankerVars, limiterVars, until, metricVars, thread, slipped>>
    BY TimesAssumption DEF Tick, IInv, Numbers
  <1>2. Numbers'
    BY <1>1 DEF IInv, Numbers, rankerVars, limiterVars, metricVars
  <1>3. ThreadsAreSound' /\ LoadedOnce'
    BY <1>1 DEF IInv, ThreadsAreSound, ThreadIsSound, LoadedOnce, OneReranker, rankerVars
  <1>4. WithinLimits' /\ DequesAreSuffixes'
    BY <1>1, LimitersStay DEF IInv
  <1>5. UsageIsFresh'
    BY <1>1 DEF IInv, UsageIsFresh, Provider, metricVars
  <1>6. FewSlip'
    <2> SUFFICES ASSUME NEW p \in Rerankers, until[p] > now + 1
                 PROVE  /\ \A u \in Threads : slipped[p][u] <= 1
                                              /\ (PastTest(u, p)' => slipped[p][u] = 0)
                        /\ \E u \in Threads : slipped[p][u] = 0 /\ ~PastTest(u, p)'
      BY <1>1 DEF FewSlip
    <2>1. until[p] > now
      <3>1. until[p] \in Nat
        BY DEF IInv, Numbers
      <3> QED
        BY <1>1, <3>1
    <2>2. \A u \in Threads : PastTest(u, p)' = PastTest(u, p)
      BY <1>1 DEF PastTest, Provider
    <2> QED
      BY <2>1, <2>2 DEF IInv, FewSlip
  <1> QED
    BY <1>2, <1>3, <1>4, <1>5, <1>6 DEF IInv

\* Nothing has happened yet.
LEMMA IInvInit == Init => IInv
  <1> SUFFICES ASSUME Init PROVE IInv
    OBVIOUS
  <1>1. Numbers
    <2>1. /\ requests \in [Limiters -> Seq(Nat)] /\ shared \in [Limiters -> Seq(Nat)]
          /\ stamps \in [Limiters -> Seq(Nat)] /\ latest \in [Limiters -> Nat]
      BY DEF Init
    <2>2. usage \in [Threads -> [AllProviders -> {0, 1}]] /\ billed \in [Threads -> Nat]
      BY DEF Init, AllProviders
    <2>3. slipped \in [Rerankers -> [Threads -> Nat]] /\ until \in [Rerankers -> Nat]
      BY DEF Init
    <2>4. now \in 0 .. MaxTime /\ ranker \in {"none", "loaded"} /\ loads \in Nat
      BY TimesAssumption DEF Init
    <2> QED
      BY <2>1, <2>2, <2>3, <2>4 DEF Numbers
  <1>2. /\ DOMAIN Idle = Fields /\ Idle.pc = "idle" /\ Idle.op = "none" /\ Idle.read = 0
        /\ Idle.attempts = <<>>
    BY DEF Idle, Fields
  <1>3. \A t \in Threads : thread[t] = Idle
    BY DEF Init
  <1>4. ThreadsAreSound
    <2>1. \A t \in Threads : ThreadIsSound(t)
      <3> SUFFICES ASSUME NEW t \in Threads PROVE ThreadIsSound(t)
        OBVIOUS
      <3>1. thread[t] = Idle
        BY <1>3
      <3>2. <<>> \in Seq(Attempts)
        BY NothingReported
      <3> QED
        <4>1. /\ DOMAIN thread[t] = Fields /\ thread[t].pc = "idle" /\ thread[t].op = "none"
              /\ thread[t].read = 0 /\ thread[t].attempts = <<>>
          BY <1>2, <3>1
        <4>2. thread[t].pc \in Steps /\ thread[t].pc \notin Calling
          BY <4>1 DEF Steps, Calling
        <4> QED
          BY <3>2, <4>1, <4>2 DEF ThreadIsSound
    <2> QED
      BY <2>1 DEF Init, ThreadsAreSound
  <1>5. LoadedOnce
    BY DEF Init, LoadedOnce, OneReranker
  <1>6. WithinLimits
    <2> SUFFICES ASSUME NEW l \in Limiters
                 PROVE  Len(requests[l]) <= Limit[l] /\ Len(shared[l]) <= Limit[l]
      BY DEF WithinLimits
    <2>1. requests[l] = <<>> /\ shared[l] = <<>> /\ Len(<<>>) = 0 /\ Limit[l] \in Nat
      BY LimitsAssumption DEF Init
    <2> QED
      BY <2>1
  <1>7. DequesAreSuffixes
    <2> SUFFICES ASSUME NEW l \in Limiters PROVE IsTheEnd(l)
      BY DEF DequesAreSuffixes
    <2>1. Len(requests[l]) = 0 /\ Len(stamps[l]) = 0
      BY DEF Init
    <2> QED
      BY <2>1 DEF IsTheEnd
  <1>8. FewSlip
    <2>1. \A p \in Rerankers : ~(until[p] > now)
      BY DEF Init
    <2> QED
      BY <2>1 DEF FewSlip
  <1>9. UsageIsFresh
    <2>1. \A t \in Threads : billed[t] = 0
      BY DEF Init
    <2> QED
      BY <1>2, <1>3, <2>1, NothingReported DEF UsageIsFresh
  <1> QED
    BY <1>1, <1>4, <1>5, <1>6, <1>7, <1>8, <1>9 DEF IInv

\* Every step keeps the invariant.
LEMMA IInvStep == IInv /\ [Next]_vars => IInv'
  <1> SUFFICES ASSUME IInv, [Next]_vars PROVE IInv'
    OBVIOUS
  <1>1. CASE Tick
    BY <1>1, TickStep
  <1>2. ASSUME NEW t \in Threads, BeginRank(t) \/ BeginPlan(t) PROVE IInv'
    BY <1>2, BeginRankStep, BeginPlanStep
  <1>3. ASSUME NEW t \in Threads, Step(t) PROVE IInv'
    <2>1. CASE Ensure(t) \/ TakeLoadLock(t) \/ Load(t) \/ TestCooldown(t) \/ PastDeadline(t)
      BY <2>1, EnsureStep, TakeLoadLockStep, LoadStep, TestCooldownStep, PastDeadlineStep
    <2>2. CASE RedisAllows(t) \/ ReadClock(t) \/ AllowMemory(t)
      BY <2>2, RedisAllowsStep, ReadClockStep, AllowMemoryStep
    <2>3. CASE TokensRefused(t) \/ NotCalled(t) \/ Post(t)
      BY <2>3, TokensRefusedStep, NotCalledStep, PostStep
    <2>4. CASE (\E complete \in BOOLEAN : Scored(t, complete)) \/ RateLimited(t)
               \/ CallFails(t) \/ Unreadable(t)
      BY <2>4, ScoredStep, RateLimitedStep, CallFailsStep, UnreadableStep
    <2>5. CASE (\E reply \in Replies : ChatReplies(t, reply)) \/ Return(t)
      BY <2>5, ChatRepliesStep, ReturnStep
    <2> QED
      BY <1>3, <2>1, <2>2, <2>3, <2>4, <2>5 DEF Step
  <1>4. CASE UNCHANGED vars
    <2>1. UNCHANGED <<now, rankerVars, limiterVars, until, metricVars, slipped, thread>>
      BY <1>4 DEF vars, rankerVars, limiterVars, metricVars
    <2>2. Numbers' /\ LoadedOnce'
      BY <2>1 DEF IInv, Numbers, LoadedOnce, OneReranker, rankerVars, limiterVars, metricVars
    <2>3. ThreadsAreSound'
      BY <2>1 DEF IInv, ThreadsAreSound, ThreadIsSound
    <2>4. WithinLimits' /\ DequesAreSuffixes'
      BY <2>1, LimitersStay DEF IInv
    <2>5. UsageIsFresh' /\ FewSlip'
      BY <2>1 DEF IInv, UsageIsFresh, FewSlip, PastTest, Provider, metricVars
    <2> QED
      BY <2>2, <2>3, <2>4, <2>5 DEF IInv
  <1> QED
    BY <1>1, <1>2, <1>3, <1>4 DEF Next

\* The invariant holds in every behaviour.
LEMMA IInvHolds == Spec => []IInv
  BY IInvInit, IInvStep, PTL DEF Spec

\* Of what a limiter admitted, the rest of its deque holds all that is recent.
LEMMA BudgetFromDeques == IInv => WindowBudget
  <1> SUFFICES ASSUME IInv, NEW l \in Limiters
               PROVE  Cardinality({i \in DOMAIN stamps[l] :
                                      stamps[l][i] > latest[l] - Window[l]}) <= Limit[l]
    BY DEF WindowBudget
  <1>1. PICK s \in Seq(Nat) : s = stamps[l]
    BY DEF IInv, Numbers
  <1>2. PICK n \in Nat : n = Len(requests[l])
    BY DEF IInv, Numbers
  <1>3. PICK cut \in Int : cut = latest[l] - Window[l]
    <2>1. Window[l] \in Nat
      BY LimitsAssumption
    <2>2. latest[l] \in Int
      BY DEF IInv, Numbers
    <2> QED BY <2>1, <2>2
  <1>4. Len(s) \in Nat /\ DOMAIN s = 1 .. Len(s) /\ \A i \in 1 .. Len(s) : s[i] \in Nat
    BY <1>1
  <1>5. n <= Len(s) /\ n <= Limit[l] /\ Limit[l] \in Nat
        /\ \A i \in 1 .. (Len(s) - n) : s[i] <= cut
    <2>1. Len(s) - n >= 0 /\ \A i \in 1 .. (Len(s) - n) : s[i] <= cut
      BY <1>1, <1>2, <1>3 DEF IInv, DequesAreSuffixes, IsTheEnd
    <2>2. n <= Limit[l] /\ Limit[l] \in Nat
      BY <1>2, LimitsAssumption DEF IInv, WithinLimits
    <2> QED
      BY <1>4, <2>1, <2>2
  <1> DEFINE recent == {i \in DOMAIN s : s[i] > cut}
  <1>6. recent \in SUBSET ((Len(s) - n + 1) .. Len(s))
    <2> SUFFICES ASSUME NEW i \in 1 .. Len(s), s[i] > cut
                 PROVE  i \in (Len(s) - n + 1) .. Len(s)
      BY <1>4
    <2>1. ~(i \in 1 .. (Len(s) - n))
      BY <1>4, <1>5
    <2> QED
      BY <1>4, <1>5, <2>1
  <1>7. /\ IsFiniteSet((Len(s) - n + 1) .. Len(s))
        /\ Cardinality((Len(s) - n + 1) .. Len(s)) = n
    <2>1. PICK a \in Int : a = Len(s) - n + 1
      BY <1>4
    <2>2. /\ IsFiniteSet(a .. Len(s))
          /\ Cardinality(a .. Len(s)) = IF a > Len(s) THEN 0 ELSE Len(s) - a + 1
      BY <1>4, FS_Interval
    <2> QED
      BY <1>4, <1>5, <2>1, <2>2
  <1>8. Cardinality(recent) \in Nat /\ Cardinality(recent) <= n
    <2> HIDE DEF recent
    <2>1. IsFiniteSet(recent) /\ Cardinality(recent) <= n
      BY <1>6, <1>7, FS_Subset
    <2> QED
      BY <2>1, FS_CardinalityType
  <1> QED
    BY <1>1, <1>3, <1>5, <1>8

\* One reranker is loaded; the rolling budgets of the limiters hold although
\* threads read the clock before they take a limiter's lock; and a cooldown is
\* slipped through at most once by each thread, and not by all of them.
THEOREM FailoverHolds == Spec => []ProviderInv
  <1>1. IInv => TypeOK
    <2> SUFFICES ASSUME IInv PROVE TypeOK
      OBVIOUS
    <2>1. \A t \in Threads : /\ thread[t].pc \in Steps
                             /\ thread[t].pc \notin {"idle", "ensure", "load", "locked", "ended"}
                                   => thread[t].pos \in Places(thread[t].op)
      BY DEF IInv, ThreadsAreSound, ThreadIsSound, Steps, Calling
    <2> QED
      BY <2>1 DEF IInv, TypeOK, Numbers, WithinLimits
  <1>2. IInv => OneReranker
    BY DEF IInv, LoadedOnce
  <1>3. IInv => CooldownLeaksOnce
    BY DEF IInv, FewSlip, CooldownLeaksOnce
  <1>4. IInv => ProviderInv
    BY <1>1, <1>2, <1>3, BudgetFromDeques DEF ProviderInv
  <1> QED
    BY <1>4, IInvHolds, PTL

\* When a call ends, its attempts report what its providers billed: no usage of
\* an earlier call, and the answers that were of no use too.
THEOREM UsageHolds == Spec => []UsageIsWhatWasBilled
  <1>1. IInv => UsageIsWhatWasBilled
    BY DEF IInv, UsageIsFresh, UsageIsWhatWasBilled, Reported
  <1> QED
    BY <1>1, IInvHolds, PTL

(***************************************************************************)
(* Retrieval, which the rest of the module is about.                       *)
(***************************************************************************)

\* The order by three keys, the first that differs decides.
Lex(a, b, c, x, y) ==
    \/ a[x] < a[y]
    \/ a[x] = a[y] /\ b[x] < b[y]
    \/ a[x] = a[y] /\ b[x] = b[y] /\ c[x] < c[y]

AreKeys(a, b, c, S) ==
    /\ a \in [S -> Int] /\ b \in [S -> Int] /\ c \in [S -> Int]
    /\ \A x, y \in S : c[x] = c[y] => x = y

Ahead(a, b, c, S, x) == {y \in S : Lex(a, b, c, y, x)}

\* The k-th element of an order has k - 1 others before it.
InPlace(order, S, a, b, c) ==
    \A k \in 1 .. Cardinality(S) :
        order[k] \in S /\ Cardinality(Ahead(a, b, c, S, order[k])) = k - 1

EveryPlaceTaken(a, b, c, S) ==
    \A k \in 1 .. Cardinality(S) : \E x \in S : Cardinality(Ahead(a, b, c, S, x)) = k - 1

\* An element has fewer before it than what it is before.
LEMMA RankGrows ==
    ASSUME NEW S, IsFiniteSet(S), NEW a, NEW b, NEW c, AreKeys(a, b, c, S),
           NEW x \in S, NEW z \in S, Lex(a, b, c, x, z)
    PROVE  Cardinality(Ahead(a, b, c, S, x)) < Cardinality(Ahead(a, b, c, S, z))
  <1> DEFINE P == {y \in S : Lex(a, b, c, y, x)}
             Q == {y \in S : Lex(a, b, c, y, z)}
  <1>1. P \subseteq Q
    <2> SUFFICES ASSUME NEW y \in S, Lex(a, b, c, y, x) PROVE Lex(a, b, c, y, z)
      OBVIOUS
    <2>1. {a[x], a[y], a[z], b[x], b[y], b[z], c[x], c[y], c[z]} \subseteq Int
      BY DEF AreKeys
    <2> QED BY <2>1 DEF Lex
  <1>2. x \in Q /\ x \notin P
    <2>1. {a[x], b[x], c[x]} \subseteq Int
      BY DEF AreKeys
    <2> QED BY <2>1 DEF Lex
  <1>3. P \in SUBSET S /\ Q \in SUBSET S
    OBVIOUS
  <1> HIDE DEF P, Q
  <1>4. IsFiniteSet(P) /\ IsFiniteSet(Q) /\ Cardinality(P) \in Nat /\ Cardinality(Q) \in Nat
    <2>1. IsFiniteSet(P) /\ IsFiniteSet(Q)
      BY <1>3, FS_Subset
    <2> QED BY <2>1, FS_CardinalityType
  <1>5. Cardinality(P) <= Cardinality(Q) /\ (Cardinality(Q) = Cardinality(P) => Q = P)
    BY <1>1, <1>4, FS_Subset
  <1>6. Cardinality(P) < Cardinality(Q)
    BY <1>2, <1>4, <1>5
  <1> QED BY <1>6 DEF P, Q, Ahead

\* Every place of the order is taken.
LEMMA EveryPlace ==
    ASSUME NEW S, IsFiniteSet(S), NEW a, NEW b, NEW c, AreKeys(a, b, c, S)
    PROVE  EveryPlaceTaken(a, b, c, S)
  <1> DEFINE n == Cardinality(S)
             rank == [x \in S |-> Cardinality(Ahead(a, b, c, S, x))]
  <1>1. n \in Nat
    BY FS_CardinalityType
  <1>2. \A x \in S : rank[x] \in 0 .. (n - 1)
    <2> SUFFICES ASSUME NEW x \in S PROVE rank[x] \in 0 .. (n - 1)
      OBVIOUS
    <2> DEFINE P == {y \in S : Lex(a, b, c, y, x)}
    <2>1. x \notin P
      <3>1. {a[x], b[x], c[x]} \subseteq Int
        BY DEF AreKeys
      <3> QED BY <3>1 DEF Lex
    <2>2. P \in SUBSET (S \ {x})
      BY <2>1
    <2>3. IsFiniteSet(S \ {x}) /\ Cardinality(S \ {x}) = n - 1
      BY FS_RemoveElement
    <2>4. IsFiniteSet(P) /\ Cardinality(P) <= n - 1
      <3> HIDE DEF P
      <3> QED BY <2>2, <2>3, FS_Subset
    <2>5. Cardinality(P) \in Nat
      <3> HIDE DEF P
      <3> QED BY <2>4, FS_CardinalityType
    <2> QED BY <1>1, <2>4, <2>5 DEF Ahead
  <1>3. \A x, z \in S : rank[x] = rank[z] => x = z
    <2> SUFFICES ASSUME NEW x \in S, NEW z \in S, x # z PROVE rank[x] # rank[z]
      OBVIOUS
    <2>1. Lex(a, b, c, x, z) \/ Lex(a, b, c, z, x)
      <3>1. {a[x], a[z], b[x], b[z], c[x], c[z]} \subseteq Int /\ c[x] # c[z]
        BY DEF AreKeys
      <3> QED BY <3>1 DEF Lex
    <2>2. rank[x] < rank[z] \/ rank[z] < rank[x]
      BY <2>1, RankGrows
    <2> QED BY <1>1, <1>2, <2>2
  <1> HIDE DEF rank
  <1>4. rank \in Injection(S, 0 .. (n - 1))
    <2>1. rank \in [S -> 0 .. (n - 1)]
      BY <1>2 DEF rank
    <2> QED BY <1>3, <2>1 DEF Injection, IsInjective
  <1>5. IsFiniteSet(0 .. (n - 1)) /\ Cardinality(0 .. (n - 1)) = n
    <2>1. IsFiniteSet(0 .. (n - 1))
          /\ Cardinality(0 .. (n - 1)) = IF 0 > n - 1 THEN 0 ELSE (n - 1) - 0 + 1
      BY <1>1, FS_Interval
    <2> QED BY <1>1, <2>1
  <1>6. rank \in Surjection(S, 0 .. (n - 1))
    BY <1>4, <1>5, FS_Injection
  <1>7. \A r \in 0 .. (n - 1) : \E x \in S : rank[x] = r
    BY <1>6 DEF Surjection
  <1>8. ASSUME NEW k \in 1 .. n
        PROVE  \E x \in S : Cardinality(Ahead(a, b, c, S, x)) = k - 1
    <2>1. k - 1 \in 0 .. (n - 1)
      BY <1>1
    <2> QED BY <1>7, <2>1 DEF rank
  <1> QED BY <1>8 DEF EveryPlaceTaken

\* What is in its place is the whole set, once each, in the order of the keys.
LEMMA PlacesInOrder ==
    ASSUME NEW S, IsFiniteSet(S), NEW a, NEW b, NEW c, AreKeys(a, b, c, S),
           NEW order, InPlace(order, S, a, b, c)
    PROVE  /\ Cardinality(S) \in Nat
           /\ \A k \in 1 .. Cardinality(S) : order[k] \in S
           /\ \A x \in S : \E k \in 1 .. Cardinality(S) : order[k] = x
           /\ \A i, j \in 1 .. Cardinality(S) : i < j => Lex(a, b, c, order[i], order[j])
  <1> DEFINE n == Cardinality(S)
             PlaceOf(x) == Cardinality(Ahead(a, b, c, S, x))
  <1>1. n \in Nat
    BY FS_CardinalityType
  <1>2. \A k \in 1 .. n : order[k] \in S /\ PlaceOf(order[k]) = k - 1
    BY DEF InPlace
  <1>3. \A x, z \in S : Lex(a, b, c, x, z) => PlaceOf(x) < PlaceOf(z)
    BY RankGrows
  <1>4. \A x, z \in S : x # z => Lex(a, b, c, x, z) \/ Lex(a, b, c, z, x)
    <2> SUFFICES ASSUME NEW x \in S, NEW z \in S, x # z
                 PROVE Lex(a, b, c, x, z) \/ Lex(a, b, c, z, x)
      OBVIOUS
    <2>1. {a[x], a[z], b[x], b[z], c[x], c[z]} \subseteq Int /\ c[x] # c[z]
      BY DEF AreKeys
    <2> QED BY <2>1 DEF Lex
  <1> DEFINE f == [k \in 1 .. n |-> order[k]]
  <1>5. f \in Injection(1 .. n, S)
    <2>1. f \in [1 .. n -> S]
      BY <1>2
    <2>2. \A i, j \in 1 .. n : f[i] = f[j] => i = j
      <3> HIDE DEF PlaceOf
      <3>1. \A i, j \in 1 .. n : order[i] = order[j] => i - 1 = j - 1
        BY <1>2
      <3> QED BY <1>1, <3>1
    <2> HIDE DEF f
    <2> QED BY <2>1, <2>2 DEF Injection, IsInjective
  <1>6. Cardinality(1 .. n) = Cardinality(S)
    BY <1>1, FS_Interval
  <1>7. f \in Surjection(1 .. n, S)
    <2> HIDE DEF f
    <2> QED BY <1>5, <1>6, FS_Injection
  <1>8. \A x \in S : \E k \in 1 .. n : order[k] = x
    <2>1. \A x \in S : \E k \in 1 .. n : f[k] = x
      <3> HIDE DEF f
      <3> QED BY <1>7 DEF Surjection
    <2> QED BY <2>1
  <1>9. ASSUME NEW i \in 1 .. n, NEW j \in 1 .. n, i < j
        PROVE  Lex(a, b, c, order[i], order[j])
    <2>1. order[i] \in S /\ order[j] \in S /\ order[i] # order[j]
          /\ PlaceOf(order[i]) = i - 1 /\ PlaceOf(order[j]) = j - 1
      <3> HIDE DEF PlaceOf
      <3>1. order[i] = order[j] => i - 1 = j - 1
        BY <1>2
      <3> QED BY <1>1, <1>2, <1>9, <3>1
    <2>2. ~ (PlaceOf(order[j]) < PlaceOf(order[i]))
      <3> HIDE DEF PlaceOf
      <3> QED BY <1>1, <1>9, <2>1
    <2>3. ~Lex(a, b, c, order[j], order[i])
      <3> HIDE DEF PlaceOf
      <3> QED BY <1>3, <2>1, <2>2
    <2> QED BY <1>4, <2>1, <2>3
  <1> QED BY <1>1, <1>2, <1>8, <1>9

\* u is the part of s at the places P, in the order of s; f says where it is from.
Selects(f, u, s, P) ==
    /\ f \in [1 .. Len(u) -> P]
    /\ \A i \in 1 .. Len(u) : u[i] = s[f[i]]
    /\ \A i, j \in 1 .. Len(u) : i < j => f[i] < f[j]
    /\ \A m \in P : \E i \in 1 .. Len(u) : f[i] = m

\* The places at which s has an element of S.
PlacesOf(s, S) == {i \in DOMAIN s : s[i] \in S}

\* What Picked returns.
LEMMA PickedSelects ==
    ASSUME NEW T, NEW s \in Seq(T), NEW P \in SUBSET (1 .. Len(s))
    PROVE  /\ Picked(s, P) \in Seq(T)
           /\ Len(Picked(s, P)) = Cardinality(P)
           /\ \E f : Selects(f, Picked(s, P), s, P)
  <1> DEFINE n == Cardinality(P)
             zero == [x \in P |-> 0]
             self == [x \in P |-> x]
             order == Listed(P, LAMBDA i, j : i < j)
  <1>1. Len(s) \in Nat /\ \A i \in 1 .. Len(s) : s[i] \in T
    OBVIOUS
  <1>2. IsFiniteSet(P) /\ n \in Nat
    <2>1. IsFiniteSet(1 .. Len(s))
      BY <1>1, FS_Interval
    <2>2. IsFiniteSet(P)
      BY <2>1, FS_Subset
    <2> QED BY <2>2, FS_CardinalityType
  <1>3. AreKeys(zero, zero, self, P)
    <2>1. \A x \in P : x \in Int
      BY <1>1
    <2> QED BY <2>1 DEF AreKeys
  <1>4. \A x \in P : {y \in P : y < x} = Ahead(zero, zero, self, P, x)
    BY DEF Lex, Ahead
  <1>5. \A k \in 1 .. n : \E x \in P : Cardinality({y \in P : y < x}) = k - 1
    <2>1. \A k \in 1 .. n :
            \E x \in P : Cardinality(Ahead(zero, zero, self, P, x)) = k - 1
      <3> HIDE DEF zero, self, order
      <3>1. EveryPlaceTaken(zero, zero, self, P)
        BY <1>2, <1>3, EveryPlace
      <3> QED BY <3>1 DEF EveryPlaceTaken
    <2> QED BY <1>4, <2>1
  <1>6. DOMAIN order = 1 .. n
    BY DEF Listed
  <1>7. \A k \in 1 .. n : order[k] \in P /\ Cardinality({y \in P : y < order[k]}) = k - 1
    BY <1>5 DEF Listed
  <1> HIDE DEF order
  <1>8. InPlace(order, P, zero, zero, self)
    BY <1>4, <1>7 DEF InPlace
  <1>9. /\ \A k \in 1 .. n : order[k] \in P
        /\ \A x \in P : \E k \in 1 .. n : order[k] = x
        /\ \A i, j \in 1 .. n : i < j => Lex(zero, zero, self, order[i], order[j])
    <2> HIDE DEF zero, self
    <2> QED BY <1>2, <1>3, <1>8, PlacesInOrder
  <1>10. \A i, j \in 1 .. n : i < j => order[i] < order[j]
    <2>1. \A x, z \in P : Lex(zero, zero, self, x, z) => x < z
      BY DEF Lex
    <2> HIDE DEF zero, self
    <2> QED BY <1>9, <2>1
  <1> DEFINE u == [i \in 1 .. n |-> s[order[i]]]
  <1>11. Picked(s, P) = u
    BY <1>6 DEF Picked, order
  <1>12. u \in Seq(T) /\ Len(u) = n
    <2>1. \A i \in 1 .. n : s[order[i]] \in T
      BY <1>1, <1>9
    <2> QED BY <1>2, <2>1
  <1> HIDE DEF n
  <1> DEFINE g == [i \in 1 .. n |-> order[i]]
  <1>13. Selects(g, u, s, P)
    BY <1>9, <1>10, <1>12 DEF Selects
  <1> HIDE DEF g, u
  <1> QED BY <1>11, <1>12, <1>13 DEF n

\* What Among returns.
LEMMA AmongSelects ==
    ASSUME NEW T, NEW s \in Seq(T), NEW S
    PROVE  /\ Among(s, S) \in Seq(T \cap S)
           /\ Len(Among(s, S)) <= Len(s)
           /\ \E f : Selects(f, Among(s, S), s, PlacesOf(s, S))
  <1>1. Len(s) \in Nat /\ DOMAIN s = 1 .. Len(s) /\ \A i \in 1 .. Len(s) : s[i] \in T
    OBVIOUS
  <1>2. PlacesOf(s, S) \in SUBSET (1 .. Len(s)) /\ \A i \in PlacesOf(s, S) : s[i] \in S
    BY <1>1 DEF PlacesOf
  <1>3. Among(s, S) = Picked(s, PlacesOf(s, S))
    BY DEF Among, PlacesOf
  <1>4. /\ Among(s, S) \in Seq(T)
        /\ Len(Among(s, S)) = Cardinality(PlacesOf(s, S))
        /\ \E f : Selects(f, Among(s, S), s, PlacesOf(s, S))
    BY <1>2, <1>3, PickedSelects
  <1>5. PICK f : Selects(f, Among(s, S), s, PlacesOf(s, S))
    BY <1>4
  <1>6. \A i \in 1 .. Len(Among(s, S)) : Among(s, S)[i] \in T \cap S
    <2>1. \A i \in 1 .. Len(Among(s, S)) : Among(s, S)[i] = s[f[i]] /\ f[i] \in PlacesOf(s, S)
      BY <1>5 DEF Selects
    <2> QED BY <1>1, <1>2, <2>1
  <1>7. PICK u : u = Among(s, S)
    OBVIOUS
  <1>8. u \in Seq(T \cap S)
    BY <1>4, <1>6, <1>7
  <1>9. Cardinality(PlacesOf(s, S)) <= Len(s)
    <2>1. IsFiniteSet(1 .. Len(s)) /\ Cardinality(1 .. Len(s)) = Len(s)
      <3>1. IsFiniteSet(1 .. Len(s))
                /\ Cardinality(1 .. Len(s)) = IF 1 > Len(s) THEN 0 ELSE Len(s) - 1 + 1
        BY <1>1, FS_Interval
      <3> QED BY <1>1, <3>1
    <2> QED BY <1>2, <2>1, FS_Subset
  <1> QED BY <1>4, <1>7, <1>8, <1>9

\* The elements of a part of a sequence.
LEMMA AmongRange ==
    ASSUME NEW T, NEW s \in Seq(T), NEW S
    PROVE  Range(Among(s, S)) = Range(s) \cap S
  <1>1. DOMAIN s = 1 .. Len(s) /\ Among(s, S) \in Seq(T \cap S)
        /\ DOMAIN Among(s, S) = 1 .. Len(Among(s, S))
    BY AmongSelects
  <1>2. PICK f : Selects(f, Among(s, S), s, PlacesOf(s, S))
    BY AmongSelects
  <1>3. \A x \in Range(Among(s, S)) : x \in Range(s) /\ x \in S
    <2>1. \A i \in 1 .. Len(Among(s, S)) :
            Among(s, S)[i] = s[f[i]] /\ f[i] \in DOMAIN s /\ s[f[i]] \in S
      BY <1>2 DEF Selects, PlacesOf
    <2> QED BY <1>1, <2>1 DEF Range
  <1>4. ASSUME NEW x \in Range(s), x \in S PROVE x \in Range(Among(s, S))
    <2>1. PICK m \in DOMAIN s : s[m] = x
      BY DEF Range
    <2>2. m \in PlacesOf(s, S)
      BY <1>4, <2>1 DEF PlacesOf
    <2>3. PICK i \in 1 .. Len(Among(s, S)) : f[i] = m
      BY <1>2, <2>2 DEF Selects
    <2>4. Among(s, S)[i] = x
      BY <1>2, <2>1, <2>3 DEF Selects
    <2> QED BY <1>1, <2>4 DEF Range
  <1> QED BY <1>3, <1>4

\* The first elements of a sequence, and the others.
LEMMA TakeIsStart ==
    ASSUME NEW T, NEW s \in Seq(T), NEW n \in Int
    PROVE  /\ Take(s, n) \in Seq(T)
           /\ Len(Take(s, n)) = IF n < 0 THEN 0 ELSE IF n < Len(s) THEN n ELSE Len(s)
           /\ \A i \in 1 .. Len(Take(s, n)) : Take(s, n)[i] = s[i]
  <1>1. Len(s) \in Nat /\ \A i \in 1 .. Len(s) : s[i] \in T
    OBVIOUS
  <1>2. PICK m \in Int : m = IF n < Len(s) THEN n ELSE Len(s)
    BY <1>1
  <1>3. \A i \in 1 .. m : s[i] \in T
    BY <1>1, <1>2
  <1>4. /\ SubSeq(s, 1, m) \in Seq(T)
        /\ Len(SubSeq(s, 1, m)) = IF 1 <= m THEN m - 1 + 1 ELSE 0
        /\ \A i \in 1 .. (m - 1 + 1) : SubSeq(s, 1, m)[i] = s[1 + i - 1]
    BY <1>3, SubSeqProperties
  <1>5. Take(s, n) = SubSeq(s, 1, m)
    BY <1>2 DEF Take
  <1>6. Len(Take(s, n)) = IF n < 0 THEN 0 ELSE IF n < Len(s) THEN n ELSE Len(s)
    BY <1>1, <1>2, <1>4, <1>5
  <1>7. \A i \in 1 .. Len(Take(s, n)) : i \in 1 .. (m - 1 + 1) /\ 1 + i - 1 = i
    BY <1>1, <1>2, <1>4, <1>5
  <1> QED BY <1>4, <1>5, <1>6, <1>7

\* What is dropped is the start of a sequence.
LEMMA DropIsEnd ==
    ASSUME NEW T, NEW s \in Seq(T), NEW n \in Nat
    PROVE  /\ Drop(s, n) \in Seq(T)
           /\ Len(Drop(s, n)) = IF n < Len(s) THEN Len(s) - n ELSE 0
           /\ \A i \in 1 .. Len(Drop(s, n)) : Drop(s, n)[i] = s[n + i]
  <1>1. Len(s) \in Nat /\ \A i \in 1 .. Len(s) : s[i] \in T
    OBVIOUS
  <1>3. \A i \in (n + 1) .. Len(s) : s[i] \in T
    BY <1>1
  <1>4. /\ SubSeq(s, n + 1, Len(s)) \in Seq(T)
        /\ Len(SubSeq(s, n + 1, Len(s))) = IF n + 1 <= Len(s) THEN Len(s) - (n + 1) + 1 ELSE 0
        /\ \A i \in 1 .. (Len(s) - (n + 1) + 1) : SubSeq(s, n + 1, Len(s))[i] = s[n + 1 + i - 1]
    BY <1>1, <1>3, SubSeqProperties
  <1>5. Drop(s, n) = SubSeq(s, n + 1, Len(s))
    BY DEF Drop
  <1>6. Len(Drop(s, n)) = IF n < Len(s) THEN Len(s) - n ELSE 0
    BY <1>1, <1>4, <1>5
  <1>7. \A i \in 1 .. Len(Drop(s, n)) : i \in 1 .. (Len(s) - (n + 1) + 1) /\ n + 1 + i - 1 = n + i
    BY <1>1, <1>6
  <1> QED BY <1>4, <1>5, <1>6, <1>7

\* A nonempty set of numbers has a least one.
LEMMA LeastOf ==
    ASSUME NEW P, P \subseteq Nat, P # {}
    PROVE  \E n \in P : \A m \in P : n <= m
  <1> DEFINE less == OpToRel(<, Nat)
  <1>1. IsWellFoundedOn(less, Nat)
    BY NatLessThanWellFounded
  <1>2. \A x, y \in Nat : <<y, x>> \in less <=> y < x
    BY DEF OpToRel
  <1> HIDE DEF less
  <1>3. PICK x \in P : \A y \in P : <<y, x>> \notin less
    BY <1>1, WFMin
  <1>4. x \in Nat /\ \A y \in P : y \in Nat /\ ~(y < x)
    BY <1>2, <1>3
  <1> QED BY <1>4

\* The recursion of Scale up to n.
Products1(f, n) == f = [k \in 0 .. n |-> IF k = 0 THEN 1 ELSE f[k - 1] * (RRF_CONSTANT + k)]

\* The products RRF_CONSTANT + 1 .. RRF_CONSTANT + n are defined up to every n: the least
\* n without them would have them from the one before.
LEMMA ScaleExists == ASSUME NEW N \in Nat PROVE \E f : Products1(f, N)
  <1> DEFINE Bad == {n \in Nat : ~\E f : Products1(f, n)}
  <1>1. SUFFICES ASSUME Bad # {} PROVE FALSE
    OBVIOUS
  <1>2. Bad \subseteq Nat
    OBVIOUS
  <1> HIDE DEF Bad
  <1>3. PICK n \in Bad : \A m \in Bad : n <= m
    BY <1>1, <1>2, LeastOf
  <1>4. n \in Nat /\ ~\E f : Products1(f, n)
    BY <1>3 DEF Bad
  <1>5. CASE n = 0
    <2>1. Products1([k \in 0 .. 0 |-> 1], 0)
      BY DEF Products1
    <2> QED BY <1>4, <1>5, <2>1
  <1>6. CASE n # 0
    <2>1. n - 1 \in Nat /\ ~(n <= n - 1)
      BY <1>4, <1>6
    <2>2. PICK h : Products1(h, n - 1)
      BY <1>3, <2>1 DEF Bad
    <2> DEFINE last == h[n - 1] * (RRF_CONSTANT + n)
               g == [k \in 0 .. n |-> IF k = n THEN last ELSE h[k]]
    <2>3. \A k \in 0 .. (n - 1) : h[k] = IF k = 0 THEN 1 ELSE h[k - 1] * (RRF_CONSTANT + k)
      BY <2>2 DEF Products1
    <2>4. \A k \in 0 .. n : k # 0 => k - 1 \in 0 .. n /\ k - 1 # n /\ g[k - 1] = h[k - 1]
      BY <1>4
    <2>5. \A k \in 0 .. n : k # n => k \in 0 .. (n - 1)
      BY <1>4
    <2>6. ASSUME NEW k \in 0 .. n
          PROVE  g[k] = IF k = 0 THEN 1 ELSE g[k - 1] * (RRF_CONSTANT + k)
      <3>1. CASE k = n
        BY <1>6, <2>4, <3>1
      <3>2. CASE k # n
        BY <2>3, <2>4, <2>5, <3>2
      <3> QED BY <3>1, <3>2
    <2> HIDE DEF last
    <2>7. Products1(g, n)
      BY <2>6 DEF Products1
    <2> QED BY <1>4, <2>7
  <1> QED BY <1>5, <1>6

\* The unit of the reciprocal ranks is a number.
LEMMA ScaleIsANumber == Scale \in Nat
  <1> DEFINE N == Cardinality(Products)
  <1>1. N \in Nat
    BY RetrievalAssumption, FS_CardinalityType
  <1>2. Scale = (CHOOSE f : Products1(f, N))[N]
    BY DEF Scale, Products1
  <1>3. PICK f : Products1(f, N) /\ Scale = f[N]
    BY <1>1, <1>2, ScaleExists
  <1>4. \A k \in 0 .. N : f[k] = IF k = 0 THEN 1 ELSE f[k - 1] * (RRF_CONSTANT + k)
    BY <1>3 DEF Products1
  <1> DEFINE Bad == {k \in 0 .. N : f[k] \notin Nat}
  <1> HIDE DEF N
  <1>5. SUFFICES ASSUME Bad # {} PROVE FALSE
    BY <1>1, <1>3
  <1>6. Bad \subseteq Nat
    BY <1>1
  <1>7. PICK n \in Bad : \A m \in Bad : n <= m
    <2> HIDE DEF Bad
    <2> QED BY <1>5, <1>6, LeastOf
  <1>8. n \in 0 .. N /\ f[n] \notin Nat
    OBVIOUS
  <1>9. n # 0
    BY <1>4, <1>8
  <1>10. n - 1 \in 0 .. N /\ ~(n <= n - 1)
    BY <1>1, <1>8, <1>9
  <1>11. f[n - 1] \in Nat
    BY <1>7, <1>10
  <1>12. RRF_CONSTANT + n \in Nat
    BY <1>1, <1>8, RetrievalAssumption
  <1>13. f[n - 1] * (RRF_CONSTANT + n) \in Nat
    BY <1>11, <1>12
  <1> QED BY <1>4, <1>8, <1>9, <1>13

\* The scores of the fusion are numbers.
LEMMA ShareIsANumber ==
    ASSUME NEW results \in Seq(Products), NEW p, NEW weight \in Int
    PROVE  Share(results, p, weight) \in Int
  <1>1. CASE \E i \in DOMAIN results : results[i] = p
    <2> DEFINE place == CHOOSE i \in DOMAIN results : results[i] = p
    <2>1. place \in Nat /\ place >= 1
      <3>1. place \in DOMAIN results
        BY <1>1
      <3>2. DOMAIN results = 1 .. Len(results) /\ Len(results) \in Nat
        OBVIOUS
      <3> HIDE DEF place
      <3> QED BY <3>1, <3>2
    <2> HIDE DEF place
    <2>2. RRF_CONSTANT + place \in Nat \ {0}
      BY <2>1, RetrievalAssumption
    <2>3. Scale \div (RRF_CONSTANT + place) \in Int
      BY <2>2, ScaleIsANumber
    <2>4. Share(results, p, weight) = weight * (Scale \div (RRF_CONSTANT + place))
      BY <1>1 DEF Share, place
    <2> QED BY <2>3, <2>4
  <1>2. CASE ~\E i \in DOMAIN results : results[i] = p
    BY <1>2 DEF Share
  <1> QED BY <1>1, <1>2

\* A search has ended and named products, or failed.
HasResults(out) == out \in {Failed} \union Seq(Products)

\* The fused score of a product is an integer.
LEMMA FusionScoreIsANumber ==
    ASSUME HasResults(vectorOut), HasResults(lexicalOut), NEW p
    PROVE  FusionScore(p) \in Int
  <1>1. Fetched(vectorOut) \in Seq(Products) /\ Fetched(lexicalOut) \in Seq(Products)
    BY DEF Fetched, HasResults
  <1>2. Share(Fetched(vectorOut), p, VECTOR_WEIGHT) \in Int
        /\ Share(Fetched(lexicalOut), p, BM25_WEIGHT) \in Int
    BY <1>1, ShareIsANumber, RetrievalAssumption
  <1>3. Boosts(p) \in Nat
    <2> DEFINE L == {l \in Levels : req.inferred[l] # None /\ Row[p].cat[l] = req.inferred[l]}
    <2>1. L \in SUBSET Levels /\ IsFiniteSet(Levels)
      BY RetrievalAssumption
    <2> HIDE DEF L
    <2>2. IsFiniteSet(L)
      BY <2>1, FS_Subset
    <2>3. Cardinality(L) \in Nat
      BY <2>2, FS_CardinalityType
    <2> QED BY <2>3 DEF Boosts, L
  <1>4. SOFT_CATEGORY_BOOST * Boosts(p) \in Int
    BY <1>3, RetrievalAssumption
  <1> QED BY <1>2, <1>4 DEF FusionScore

\* ---------------------------------------------------------------- sorting
Ident(n) == [i \in 1 .. n |-> i]
Zeros(n) == [i \in 1 .. n |-> 0]

\* u is s in another order, by the keys of the places; f says where it is from.
Reorders(f, u, s, a, b) ==
    /\ Len(u) = Len(s)
    /\ f \in [1 .. Len(s) -> 1 .. Len(s)]
    /\ \A i \in 1 .. Len(s) : u[i] = s[f[i]]
    /\ \A m \in 1 .. Len(s) : \E i \in 1 .. Len(s) : f[i] = m
    /\ \A i, j \in 1 .. Len(s) : i < j => Lex(a, b, Ident(Len(s)), f[i], f[j])

\* A sequence read in an order of its places is a reordering of it by that order.
LEMMA PlacesReorder ==
    ASSUME NEW T, NEW s \in Seq(T), NEW a \in [1 .. Len(s) -> Int],
           NEW b \in [1 .. Len(s) -> Int],
           NEW order, InPlace(order, 1 .. Len(s), a, b, Ident(Len(s)))
    PROVE  /\ [i \in DOMAIN s |-> s[order[i]]] \in Seq(T)
           /\ \E f : Reorders(f, [i \in DOMAIN s |-> s[order[i]]], s, a, b)
  <1>1. Len(s) \in Nat /\ DOMAIN s = 1 .. Len(s) /\ \A i \in 1 .. Len(s) : s[i] \in T
    OBVIOUS
  <1>2. PICK S, c : S = 1 .. Len(s) /\ c = Ident(Len(s))
    OBVIOUS
  <1>3. IsFiniteSet(S) /\ Cardinality(S) = Len(s)
    <2>1. IsFiniteSet(S) /\ Cardinality(S) = IF 1 > Len(s) THEN 0 ELSE Len(s) - 1 + 1
      BY <1>1, <1>2, FS_Interval
    <2> QED BY <1>1, <2>1
  <1>4. AreKeys(a, b, c, S)
    BY <1>1, <1>2 DEF AreKeys, Ident
  <1>5. /\ \A k \in 1 .. Len(s) : order[k] \in S
        /\ \A x \in S : \E k \in 1 .. Len(s) : order[k] = x
        /\ \A i, j \in 1 .. Len(s) : i < j => Lex(a, b, c, order[i], order[j])
    <2>1. /\ \A k \in 1 .. Cardinality(S) : order[k] \in S
          /\ \A x \in S : \E k \in 1 .. Cardinality(S) : order[k] = x
          /\ \A i, j \in 1 .. Cardinality(S) : i < j => Lex(a, b, c, order[i], order[j])
      <3>1. InPlace(order, S, a, b, c)
        BY <1>2
      <3> QED BY <1>3, <1>4, <3>1, PlacesInOrder
    <2> QED BY <1>3, <2>1
  <1>6. PICK u : u = [i \in DOMAIN s |-> s[order[i]]]
    OBVIOUS
  <1>7. u \in Seq(T) /\ Len(u) = Len(s)
    BY <1>1, <1>2, <1>5, <1>6
  <1> DEFINE f == [i \in 1 .. Len(s) |-> order[i]]
  <1>8. Reorders(f, u, s, a, b)
    BY <1>1, <1>2, <1>5, <1>6, <1>7 DEF Reorders
  <1> HIDE DEF f
  <1> QED BY <1>6, <1>7, <1>8

\* A sequence has as many places as its length says.
LEMMA LengthIsCardinality ==
    ASSUME NEW T, NEW s \in Seq(T)
    PROVE  /\ Len(s) \in Nat /\ DOMAIN s = 1 .. Len(s)
           /\ IsFiniteSet(1 .. Len(s)) /\ Cardinality(DOMAIN s) = Len(s)
  <1>1. Len(s) \in Nat /\ DOMAIN s = 1 .. Len(s)
    OBVIOUS
  <1>2. IsFiniteSet(1 .. Len(s))
        /\ Cardinality(1 .. Len(s)) = IF 1 > Len(s) THEN 0 ELSE Len(s) - 1 + 1
    BY <1>1, FS_Interval
  <1> QED BY <1>1, <1>2

\* The places of a sequence can be put in the order of any keys.
LEMMA PlacesHaveKeys ==
    ASSUME NEW n \in Nat, NEW a \in [1 .. n -> Int], NEW b \in [1 .. n -> Int]
    PROVE  EveryPlaceTaken(a, b, Ident(n), 1 .. n)
  <1>1. PICK S, c : S = 1 .. n /\ c = Ident(n)
    OBVIOUS
  <1>2. IsFiniteSet(S)
    BY <1>1, FS_Interval
  <1>3. AreKeys(a, b, c, S)
    BY <1>1 DEF AreKeys, Ident
  <1> QED BY <1>1, <1>2, <1>3, EveryPlace

\* The results by the score of the fusion.
LEMMA FusionOrders ==
    ASSUME HasResults(vectorOut), HasResults(lexicalOut), NEW s \in Seq(Products)
    PROVE  /\ Ordered(s, LAMBDA p, q : FusionScore(p) > FusionScore(q)) \in Seq(Products)
           /\ \E f : Reorders(f, Ordered(s, LAMBDA p, q : FusionScore(p) > FusionScore(q)), s,
                               [i \in 1 .. Len(s) |-> -FusionScore(s[i])], Zeros(Len(s)))
  <1> DEFINE order == Listed(DOMAIN s, LAMBDA i, j :
                 \/ FusionScore(s[i]) > FusionScore(s[j])
                 \/ ~(FusionScore(s[j]) > FusionScore(s[i])) /\ i < j)
  <1> DEFINE Precedes(i, j) ==
                 \/ FusionScore(s[i]) > FusionScore(s[j])
                 \/ ~(FusionScore(s[j]) > FusionScore(s[i])) /\ i < j
  <1>1. Len(s) \in Nat /\ DOMAIN s = 1 .. Len(s) /\ Cardinality(DOMAIN s) = Len(s)
        /\ IsFiniteSet(1 .. Len(s))
    BY LengthIsCardinality
  <1> DEFINE a == [i \in 1 .. Len(s) |-> -FusionScore(s[i])]
             b == Zeros(Len(s))
  <1>2. a \in [1 .. Len(s) -> Int] /\ b \in [1 .. Len(s) -> Int]
    <2>1. \A p : FusionScore(p) \in Int
      BY FusionScoreIsANumber
    <2> QED BY <2>1 DEF Zeros
  <1>3. \A x \in DOMAIN s :
          {y \in DOMAIN s : Precedes(y, x)}
            = Ahead(a, b, Ident(Len(s)), 1 .. Len(s), x)
    <2> SUFFICES ASSUME NEW x \in 1 .. Len(s), NEW y \in 1 .. Len(s)
                 PROVE  Precedes(y, x) <=> Lex(a, b, Ident(Len(s)), y, x)
      BY <1>1 DEF Ahead
    <2>1. {x, y, a[x], a[y], b[x], b[y]} \subseteq Int
      BY <1>2
    <2> QED BY <2>1, FusionScoreIsANumber DEF Lex, Ident, Zeros
  <1>4. \A k \in 1 .. Len(s) : \E x \in DOMAIN s :
          Cardinality({y \in DOMAIN s : Precedes(y, x)}) = k - 1
    <2> HIDE DEF a, b
    <2>1. EveryPlaceTaken(a, b, Ident(Len(s)), 1 .. Len(s))
      BY <1>1, <1>2, PlacesHaveKeys
    <2> HIDE DEF order
    <2> QED BY <1>1, <1>3, <2>1 DEF EveryPlaceTaken
  <1>5. \A k \in 1 .. Len(s) : order[k] \in DOMAIN s /\
          Cardinality({y \in DOMAIN s : Precedes(y, order[k])}) = k - 1
    BY <1>1, <1>4 DEF Listed
  <1> HIDE DEF order, a, b
  <1>6. InPlace(order, 1 .. Len(s), a, b, Ident(Len(s)))
    BY <1>1, <1>3, <1>5 DEF InPlace
  <1>7. Ordered(s, LAMBDA p, q : FusionScore(p) > FusionScore(q)) = [i \in DOMAIN s |-> s[order[i]]]
    BY DEF order, Ordered
  <1>8. /\ [i \in DOMAIN s |-> s[order[i]]] \in Seq(Products)
        /\ \E f : Reorders(f, [i \in DOMAIN s |-> s[order[i]]], s, a, b)
    BY <1>1, <1>2, <1>6, PlacesReorder
  <1> QED BY <1>7, <1>8 DEF a, b

\* The score by which the fused results are sorted.
Adjusted(p) == FusionScore(p) + req.adjust[p]

\* The results by the score that the policy adjusted.
LEMMA AdjustedOrders ==
    ASSUME HasResults(vectorOut), HasResults(lexicalOut), req \in Requests, NEW s \in Seq(Products)
    PROVE  LET sorted == Ordered(s, LAMBDA p, q : FusionScore(p) + req.adjust[p]
                                                    > FusionScore(q) + req.adjust[q])
               keys == [i \in 1 .. Len(s) |-> -(FusionScore(s[i]) + req.adjust[s[i]])]
           IN  sorted \in Seq(Products) /\ \E f : Reorders(f, sorted, s, keys, Zeros(Len(s)))
  <1> DEFINE order == Listed(DOMAIN s, LAMBDA i, j :
                 \/ FusionScore(s[i]) + req.adjust[s[i]] > FusionScore(s[j]) + req.adjust[s[j]]
                 \/ ~(FusionScore(s[j]) + req.adjust[s[j]]
                         > FusionScore(s[i]) + req.adjust[s[i]]) /\ i < j)
  <1> DEFINE Precedes(i, j) ==
                 \/ FusionScore(s[i]) + req.adjust[s[i]] > FusionScore(s[j]) + req.adjust[s[j]]
                 \/ ~(FusionScore(s[j]) + req.adjust[s[j]]
                         > FusionScore(s[i]) + req.adjust[s[i]]) /\ i < j
  <1>1. Len(s) \in Nat /\ DOMAIN s = 1 .. Len(s) /\ Cardinality(DOMAIN s) = Len(s)
        /\ IsFiniteSet(1 .. Len(s))
    BY LengthIsCardinality
  <1> DEFINE a == [i \in 1 .. Len(s) |-> -(FusionScore(s[i]) + req.adjust[s[i]])]
             b == Zeros(Len(s))
  <1>2. a \in [1 .. Len(s) -> Int] /\ b \in [1 .. Len(s) -> Int]
    <2>1. \A p : FusionScore(p) \in Int
      BY FusionScoreIsANumber
    <2>2. \A p \in Products : req.adjust[p] \in Int
      BY DataAssumption
    <2> QED BY <2>1, <2>2 DEF Zeros
  <1>3. \A x \in DOMAIN s :
          {y \in DOMAIN s : Precedes(y, x)}
            = Ahead(a, b, Ident(Len(s)), 1 .. Len(s), x)
    <2> SUFFICES ASSUME NEW x \in 1 .. Len(s), NEW y \in 1 .. Len(s)
                 PROVE  Precedes(y, x) <=> Lex(a, b, Ident(Len(s)), y, x)
      BY <1>1 DEF Ahead
    <2>1. {x, y, a[x], a[y], b[x], b[y]} \subseteq Int
      BY <1>2
    <2>2. \A i \in 1 .. Len(s) : s[i] \in Products
      OBVIOUS
    <2>3. {FusionScore(s[x]), FusionScore(s[y]), req.adjust[s[x]], req.adjust[s[y]]} \subseteq Int
      BY <2>2, FusionScoreIsANumber, DataAssumption
    <2>4. PICK m \in Int, n \in Int : /\ m = FusionScore(s[x]) + req.adjust[s[x]]
                                     /\ n = FusionScore(s[y]) + req.adjust[s[y]]
      BY <2>3
    <2>5. a[x] = -m /\ a[y] = -n /\ b[x] = 0 /\ b[y] = 0
      BY <2>4 DEF Zeros
    <2>6. Precedes(y, x) <=> (n > m \/ (~(m > n) /\ y < x))
      BY <2>4
    <2> HIDE DEF a, b, Precedes
    <2> QED BY <2>1, <2>5, <2>6 DEF Lex, Ident
  <1>4. \A k \in 1 .. Len(s) : \E x \in DOMAIN s :
          Cardinality({y \in DOMAIN s : Precedes(y, x)}) = k - 1
    <2> HIDE DEF a, b
    <2>1. EveryPlaceTaken(a, b, Ident(Len(s)), 1 .. Len(s))
      BY <1>1, <1>2, PlacesHaveKeys
    <2> HIDE DEF order
    <2> QED BY <1>1, <1>3, <2>1 DEF EveryPlaceTaken
  <1>5. \A k \in 1 .. Len(s) : order[k] \in DOMAIN s /\
          Cardinality({y \in DOMAIN s : Precedes(y, order[k])}) = k - 1
    BY <1>1, <1>4 DEF Listed
  <1> HIDE DEF order, a, b
  <1>6. InPlace(order, 1 .. Len(s), a, b, Ident(Len(s)))
    BY <1>1, <1>3, <1>5 DEF InPlace
  <1>7. Ordered(s, LAMBDA p, q : FusionScore(p) + req.adjust[p] > FusionScore(q) + req.adjust[q])
          = [i \in DOMAIN s |-> s[order[i]]]
    BY DEF order, Ordered
  <1>8. /\ [i \in DOMAIN s |-> s[order[i]]] \in Seq(Products)
        /\ \E f : Reorders(f, [i \in DOMAIN s |-> s[order[i]]], s, a, b)
    BY <1>1, <1>2, <1>6, PlacesReorder
  <1> QED BY <1>7, <1>8 DEF a, b

\* The results of products, with their scores.
ResultsOf(S) == [id : S, score : Int]

\* What a result is made of.
LEMMA ResultFields ==
    ASSUME NEW S, NEW s \in Seq(ResultsOf(S))
    PROVE  \A i \in 1 .. Len(s) : s[i] \in ResultsOf(S) /\ s[i].id \in S /\ s[i].score \in Int
  <1>1. \A i \in 1 .. Len(s) : s[i] \in ResultsOf(S)
    OBVIOUS
  <1>2. \A r \in ResultsOf(S) : r.id \in S /\ r.score \in Int
    BY DEF ResultsOf
  <1> QED BY <1>1, <1>2

\* The results by the score of the reranker.
LEMMA ScoresOrder ==
    ASSUME NEW S, NEW s \in Seq(ResultsOf(S))
    PROVE  /\ ByScore(s) \in Seq(ResultsOf(S))
           /\ \E f : Reorders(f, ByScore(s), s, [i \in 1 .. Len(s) |-> -(s[i].score)],
                         Zeros(Len(s)))
  <1> DEFINE order == Listed(DOMAIN s, LAMBDA i, j :
                 \/ s[i].score > s[j].score
                 \/ ~(s[j].score > s[i].score) /\ i < j)
  <1> DEFINE Precedes(i, j) ==
                 \/ s[i].score > s[j].score
                 \/ ~(s[j].score > s[i].score) /\ i < j
  <1>1. Len(s) \in Nat /\ DOMAIN s = 1 .. Len(s) /\ Cardinality(DOMAIN s) = Len(s)
        /\ IsFiniteSet(1 .. Len(s))
    BY LengthIsCardinality
  <1> DEFINE a == [i \in 1 .. Len(s) |-> -(s[i].score)]
             b == Zeros(Len(s))
  <1>2. a \in [1 .. Len(s) -> Int] /\ b \in [1 .. Len(s) -> Int]
    <2> QED BY <1>1, ResultFields DEF Zeros
  <1>3. \A x \in DOMAIN s :
          {y \in DOMAIN s : Precedes(y, x)}
            = Ahead(a, b, Ident(Len(s)), 1 .. Len(s), x)
    <2> SUFFICES ASSUME NEW x \in 1 .. Len(s), NEW y \in 1 .. Len(s)
                 PROVE  Precedes(y, x) <=> Lex(a, b, Ident(Len(s)), y, x)
      BY <1>1 DEF Ahead
    <2>1. {x, y, a[x], a[y], b[x], b[y]} \subseteq Int
      BY <1>2
    <2> QED BY <2>1, <1>1, ResultFields DEF Lex, Ident, Zeros
  <1>4. \A k \in 1 .. Len(s) : \E x \in DOMAIN s :
          Cardinality({y \in DOMAIN s : Precedes(y, x)}) = k - 1
    <2> HIDE DEF a, b
    <2>1. EveryPlaceTaken(a, b, Ident(Len(s)), 1 .. Len(s))
      BY <1>1, <1>2, PlacesHaveKeys
    <2> HIDE DEF order
    <2> QED BY <1>1, <1>3, <2>1 DEF EveryPlaceTaken
  <1>5. \A k \in 1 .. Len(s) : order[k] \in DOMAIN s /\
          Cardinality({y \in DOMAIN s : Precedes(y, order[k])}) = k - 1
    BY <1>1, <1>4 DEF Listed
  <1> HIDE DEF order, a, b
  <1>6. InPlace(order, 1 .. Len(s), a, b, Ident(Len(s)))
    BY <1>1, <1>3, <1>5 DEF InPlace
  <1>7. ByScore(s) = [i \in DOMAIN s |-> s[order[i]]]
    BY DEF order, ByScore, Ordered
  <1>8. /\ [i \in DOMAIN s |-> s[order[i]]] \in Seq(ResultsOf(S))
        /\ \E f : Reorders(f, [i \in DOMAIN s |-> s[order[i]]], s, a, b)
    BY <1>1, <1>2, <1>6, PlacesReorder
  <1> QED BY <1>7, <1>8 DEF a, b

\* The start of the band of every row, by what the row before has.
IsBandStart(f, s, n) ==
    f = [i \in 1 .. n |->
          IF i = 1 THEN 1
          ELSE LET b == f[i-1]
               IN  IF 20 * (s[b].score - s[i].score) <= Abs(s[b].score) THEN b ELSE i]

\* Bands begin somewhere in every list of results.
LEMMA BandStartExists ==
    ASSUME NEW s, NEW N \in Nat
    PROVE  \E f : IsBandStart(f, s, N)
  <1> DEFINE Bad == {n \in Nat : ~\E f : IsBandStart(f, s, n)}
  <1>1. SUFFICES ASSUME Bad # {} PROVE FALSE
    OBVIOUS
  <1>2. Bad \subseteq Nat
    OBVIOUS
  <1> HIDE DEF Bad
  <1>3. PICK n \in Bad : \A m \in Bad : n <= m
    BY <1>1, <1>2, LeastOf
  <1>4. n \in Nat /\ ~\E f : IsBandStart(f, s, n)
    BY <1>3 DEF Bad
  <1>5. CASE n = 0
    <2>1. IsBandStart([i \in 1 .. 0 |-> 1], s, 0)
      BY DEF IsBandStart
    <2> QED BY <1>4, <1>5, <2>1
  <1>6. CASE n # 0
    <2>1. n - 1 \in Nat /\ ~(n <= n - 1)
      BY <1>4, <1>6
    <2>2. PICK h : IsBandStart(h, s, n - 1)
      BY <1>3, <2>1 DEF Bad
    <2> DEFINE Next1(f, i) ==
                 IF i = 1 THEN 1
                 ELSE IF 20 * (s[f[i-1]].score - s[i].score) <= Abs(s[f[i-1]].score)
                      THEN f[i-1] ELSE i
               g == [i \in 1 .. n |-> IF i = n THEN Next1(h, n) ELSE h[i]]
    <2>3. \A i \in 1 .. (n - 1) : h[i] = Next1(h, i)
      BY <2>2 DEF IsBandStart
    <2>4. \A i \in 1 .. n : i # 1 => i - 1 \in 1 .. n /\ i - 1 # n /\ g[i - 1] = h[i - 1]
      BY <1>4
    <2>5. \A i \in 1 .. n : i # n => i \in 1 .. (n - 1)
      BY <1>4
    <2>6. ASSUME NEW i \in 1 .. n PROVE g[i] = Next1(g, i)
      <3>1. Next1(g, i) = Next1(h, i)
        <4>1. CASE i = 1
          BY <4>1
        <4>2. CASE i # 1
          <5>1. g[i - 1] = h[i - 1]
            BY <2>4, <4>2
          <5> HIDE DEF g
          <5> QED BY <5>1
        <4> QED BY <4>1, <4>2
      <3>2. g[i] = Next1(h, i)
        <4>1. i # n => h[i] = Next1(h, i)
          BY <2>3, <2>5
        <4> HIDE DEF Next1
        <4> QED BY <4>1
      <3> HIDE DEF Next1, g
      <3> QED BY <3>1, <3>2
    <2> HIDE DEF g, Next1
    <2>7. g = [i \in 1 .. n |-> Next1(g, i)]
      <3>1. DOMAIN g = 1 .. n /\ g = [i \in 1 .. n |-> g[i]]
        BY DEF g
      <3> QED BY <2>6, <3>1
    <2>8. IsBandStart(g, s, n)
      BY <2>7 DEF IsBandStart, Next1
    <2> QED BY <1>4, <2>8
  <1> QED BY <1>5, <1>6

\* Where the band of each row begins: at the first of its band.
LEMMA BandsBegin ==
    ASSUME NEW T, NEW s \in Seq(T)
    PROVE  /\ IsBandStart(BandStart(s), s, Len(s))
           /\ BandStart(s) \in [1 .. Len(s) -> Int]
           /\ \A i \in 1 .. Len(s) : BandStart(s)[i] \in 1 .. i
  <1>1. Len(s) \in Nat /\ DOMAIN s = 1 .. Len(s)
    OBVIOUS
  <1>2. BandStart(s) = CHOOSE f : IsBandStart(f, s, Len(s))
    BY <1>1 DEF BandStart, IsBandStart
  <1>3. PICK f : f = BandStart(s) /\ IsBandStart(f, s, Len(s))
    BY <1>1, <1>2, BandStartExists
  <1>4. \A i \in 1 .. Len(s) : f[i] = i \/ (i # 1 /\ f[i] = f[i - 1])
    BY <1>3 DEF IsBandStart
  <1> DEFINE Bad == {i \in 1 .. Len(s) : f[i] \notin 1 .. i}
  <1>5. Bad = {}
    <2> SUFFICES ASSUME Bad # {} PROVE FALSE
      OBVIOUS
    <2>1. Bad \subseteq Nat
      BY <1>1
    <2>2. PICK n \in Bad : \A m \in Bad : n <= m
      <3> HIDE DEF Bad
      <3> QED BY <2>1, LeastOf
    <2>3. n \in 1 .. Len(s) /\ f[n] \notin 1 .. n
      OBVIOUS
    <2>4. n # 1 /\ f[n] = f[n - 1]
      BY <1>1, <1>4, <2>3
    <2>5. n - 1 \in 1 .. Len(s) /\ ~(n <= n - 1)
      BY <1>1, <2>3, <2>4
    <2>6. f[n - 1] \in 1 .. (n - 1)
      BY <2>2, <2>5
    <2> QED BY <1>1, <2>3, <2>4, <2>6
  <1>6. \A i \in 1 .. Len(s) : f[i] \in 1 .. i
    BY <1>5
  <1>7. f \in [1 .. Len(s) -> Int]
    <2>1. f = [i \in 1 .. Len(s) |-> f[i]]
      BY <1>3 DEF IsBandStart
    <2>2. \A i \in 1 .. Len(s) : f[i] \in Int
      BY <1>1, <1>6
    <2> QED BY <2>1, <2>2
  <1> QED BY <1>3, <1>6, <1>7

\* The verified ones first within their bands.
LEMMA VerifiedOrders ==
    ASSUME NEW S \in SUBSET Products, NEW s \in Seq(ResultsOf(S))
    PROVE  /\ VerifiedFirst(s) \in Seq(ResultsOf(S))
           /\ \E f : Reorders(f, VerifiedFirst(s), s, BandStart(s),
                         [i \in 1 .. Len(s) |-> IF Row[s[i].id].verified THEN 0 ELSE 1])
  <1> DEFINE order == Listed(DOMAIN s, LAMBDA i, j :
                 \/ BandStart(s)[i] < BandStart(s)[j]
                 \/ /\ BandStart(s)[i] = BandStart(s)[j]
                    /\ \/ Row[s[i].id].verified /\ ~Row[s[j].id].verified
                       \/ Row[s[i].id].verified = Row[s[j].id].verified /\ i < j)
  <1> DEFINE Precedes(i, j) ==
                 \/ BandStart(s)[i] < BandStart(s)[j]
                 \/ /\ BandStart(s)[i] = BandStart(s)[j]
                    /\ \/ Row[s[i].id].verified /\ ~Row[s[j].id].verified
                       \/ Row[s[i].id].verified = Row[s[j].id].verified /\ i < j
  <1>1. Len(s) \in Nat /\ DOMAIN s = 1 .. Len(s) /\ Cardinality(DOMAIN s) = Len(s)
        /\ IsFiniteSet(1 .. Len(s))
    BY LengthIsCardinality
  <1> DEFINE a == BandStart(s)
             b == [i \in 1 .. Len(s) |-> IF Row[s[i].id].verified THEN 0 ELSE 1]
  <1>2. a \in [1 .. Len(s) -> Int] /\ b \in [1 .. Len(s) -> Int]
    BY BandsBegin
  <1>3. \A x \in DOMAIN s :
          {y \in DOMAIN s : Precedes(y, x)}
            = Ahead(a, b, Ident(Len(s)), 1 .. Len(s), x)
    <2> SUFFICES ASSUME NEW x \in 1 .. Len(s), NEW y \in 1 .. Len(s)
                 PROVE  Precedes(y, x) <=> Lex(a, b, Ident(Len(s)), y, x)
      BY <1>1 DEF Ahead
    <2>1. {x, y, a[x], a[y], b[x], b[y]} \subseteq Int
      BY <1>2
    <2>2. Row[s[x].id].verified \in BOOLEAN /\ Row[s[y].id].verified \in BOOLEAN
      BY DataAssumption, ResultFields
    <2> QED BY <2>1, <2>2 DEF Lex, Ident
  <1>4. \A k \in 1 .. Len(s) : \E x \in DOMAIN s :
          Cardinality({y \in DOMAIN s : Precedes(y, x)}) = k - 1
    <2> HIDE DEF a, b
    <2>1. EveryPlaceTaken(a, b, Ident(Len(s)), 1 .. Len(s))
      BY <1>1, <1>2, PlacesHaveKeys
    <2> HIDE DEF order
    <2> QED BY <1>1, <1>3, <2>1 DEF EveryPlaceTaken
  <1>5. \A k \in 1 .. Len(s) : order[k] \in DOMAIN s /\
          Cardinality({y \in DOMAIN s : Precedes(y, order[k])}) = k - 1
    BY <1>1, <1>4 DEF Listed
  <1> HIDE DEF order, a, b
  <1>6. InPlace(order, 1 .. Len(s), a, b, Ident(Len(s)))
    BY <1>1, <1>3, <1>5 DEF InPlace
  <1>7. VerifiedFirst(s) = [i \in DOMAIN s |-> s[order[i]]]
    BY DEF order, VerifiedFirst
  <1>8. /\ [i \in DOMAIN s |-> s[order[i]]] \in Seq(ResultsOf(S))
        /\ \E f : Reorders(f, [i \in DOMAIN s |-> s[order[i]]], s, a, b)
    BY <1>1, <1>2, <1>6, PlacesReorder
  <1> QED BY <1>7, <1>8 DEF a, b

\* The rows a search by price sorts.
Rows(S) == [id : S, tier : {"ranked", "related"}, fee : Int \union {None}]

\* What a row is made of.
LEMMA RowFields ==
    ASSUME NEW S, NEW s \in Seq(Rows(S))
    PROVE  \A i \in 1 .. Len(s) :
             /\ s[i].id \in S /\ s[i].tier \in {"ranked", "related"}
             /\ s[i].fee \in Int \union {None}
  <1>1. \A i \in 1 .. Len(s) : s[i] \in Rows(S)
    OBVIOUS
  <1>2. \A r \in Rows(S) : r.id \in S /\ r.tier \in {"ranked", "related"}
                              /\ r.fee \in Int \union {None}
    BY DEF Rows
  <1> QED BY <1>1, <1>2

\* The order of a page in numbers: the tier and whether there is a price, then the fee.
TierKey(x) == (IF x.tier = "ranked" THEN 0 ELSE 2) + (IF Priced(x.fee) THEN 0 ELSE 1)
FeeKey(x) ==
    IF x.fee = None THEN 0
    ELSE IF Priced(x.fee) /\ req.sort = "price_desc" THEN -x.fee ELSE x.fee

\* PriceBefore compares two numbers of a row, one after the other.
LEMMA PriceKeys ==
    ASSUME NEW S, NEW x \in Rows(S), NEW y \in Rows(S)
    PROVE  /\ TierKey(x) \in Int /\ FeeKey(x) \in Int
           /\ PriceBefore(x, y) <=>
                TierKey(x) < TierKey(y) \/ (TierKey(x) = TierKey(y) /\ FeeKey(x) < FeeKey(y))
  <1>1. /\ x.fee \in Int \union {None} /\ y.fee \in Int \union {None}
        /\ x.tier \in {"ranked", "related"} /\ y.tier \in {"ranked", "related"}
    BY DEF Rows
  <1>2. None \notin Int /\ UNPRICED_RENTAL_FEE_CEILING \in Int
    BY ValueAssumption, RetrievalAssumption
  <1>3. TierKey(x) \in Int /\ FeeKey(x) \in Int /\ TierKey(y) \in Int /\ FeeKey(y) \in Int
    BY <1>1, <1>2 DEF TierKey, FeeKey
  <1>4. TierKey(x) = TierKey(y) <=> x.tier = y.tier /\ (Priced(x.fee) <=> Priced(y.fee))
    BY <1>1 DEF TierKey
  <1>5. TierKey(x) < TierKey(y) <=>
          (x.tier = "ranked" /\ y.tier # "ranked")
          \/ (x.tier = y.tier /\ Priced(x.fee) /\ ~Priced(y.fee))
    BY <1>1 DEF TierKey
  <1>6. ASSUME x.tier = y.tier, Priced(x.fee), Priced(y.fee)
        PROVE  PriceBefore(x, y) <=> FeeKey(x) < FeeKey(y)
    BY <1>1, <1>2, <1>6 DEF PriceBefore, FeeKey, Priced
  <1>7. ASSUME x.tier = y.tier, ~Priced(x.fee), ~Priced(y.fee)
        PROVE  PriceBefore(x, y) <=> FeeKey(x) < FeeKey(y)
    BY <1>1, <1>2, <1>7 DEF PriceBefore, FeeKey
  <1>8. ASSUME x.tier # y.tier \/ ~(Priced(x.fee) <=> Priced(y.fee))
        PROVE  PriceBefore(x, y) <=> TierKey(x) < TierKey(y)
    BY <1>1, <1>5, <1>8 DEF PriceBefore
  <1> QED BY <1>3, <1>4, <1>5, <1>6, <1>7, <1>8

\* The rows of a page by the fee they show, within each tier.
LEMMA PriceOrders ==
    ASSUME NEW S, NEW s \in Seq(Rows(S))
    PROVE  /\ Ordered(s, PriceBefore) \in Seq(Rows(S))
           /\ \E f : Reorders(f, Ordered(s, PriceBefore), s,
                         [i \in 1 .. Len(s) |-> TierKey(s[i])],
                         [i \in 1 .. Len(s) |-> FeeKey(s[i])])
  <1> DEFINE order == Listed(DOMAIN s, LAMBDA i, j :
                 \/ PriceBefore(s[i], s[j])
                 \/ ~PriceBefore(s[j], s[i]) /\ i < j)
  <1> DEFINE Precedes(i, j) ==
                 \/ PriceBefore(s[i], s[j])
                 \/ ~PriceBefore(s[j], s[i]) /\ i < j
  <1>1. Len(s) \in Nat /\ DOMAIN s = 1 .. Len(s) /\ Cardinality(DOMAIN s) = Len(s)
        /\ IsFiniteSet(1 .. Len(s))
    BY LengthIsCardinality
  <1> DEFINE a == [i \in 1 .. Len(s) |-> TierKey(s[i])]
             b == [i \in 1 .. Len(s) |-> FeeKey(s[i])]
  <1>2. a \in [1 .. Len(s) -> Int] /\ b \in [1 .. Len(s) -> Int]
    <2>1. \A i \in 1 .. Len(s) : s[i] \in Rows(S)
      OBVIOUS
    <2> QED BY <2>1, PriceKeys
  <1>3. \A x \in DOMAIN s :
          {y \in DOMAIN s : Precedes(y, x)}
            = Ahead(a, b, Ident(Len(s)), 1 .. Len(s), x)
    <2> SUFFICES ASSUME NEW x \in 1 .. Len(s), NEW y \in 1 .. Len(s)
                 PROVE  Precedes(y, x) <=> Lex(a, b, Ident(Len(s)), y, x)
      BY <1>1 DEF Ahead
    <2>1. {x, y, a[x], a[y], b[x], b[y]} \subseteq Int
      BY <1>2
    <2>2. s[x] \in Rows(S) /\ s[y] \in Rows(S)
      BY <1>1
    <2>3. (PriceBefore(s[x], s[y]) <=> a[x] < a[y] \/ (a[x] = a[y] /\ b[x] < b[y]))
          /\ (PriceBefore(s[y], s[x]) <=> a[y] < a[x] \/ (a[y] = a[x] /\ b[y] < b[x]))
      BY <2>2, PriceKeys
    <2> HIDE DEF a, b
    <2> QED BY <2>1, <2>3 DEF Lex, Ident
  <1>4. \A k \in 1 .. Len(s) : \E x \in DOMAIN s :
          Cardinality({y \in DOMAIN s : Precedes(y, x)}) = k - 1
    <2> HIDE DEF a, b
    <2>1. EveryPlaceTaken(a, b, Ident(Len(s)), 1 .. Len(s))
      BY <1>1, <1>2, PlacesHaveKeys
    <2> HIDE DEF order
    <2> QED BY <1>1, <1>3, <2>1 DEF EveryPlaceTaken
  <1>5. \A k \in 1 .. Len(s) : order[k] \in DOMAIN s /\
          Cardinality({y \in DOMAIN s : Precedes(y, order[k])}) = k - 1
    BY <1>1, <1>4 DEF Listed
  <1> HIDE DEF order, a, b
  <1>6. InPlace(order, 1 .. Len(s), a, b, Ident(Len(s)))
    BY <1>1, <1>3, <1>5 DEF InPlace
  <1>7. Ordered(s, PriceBefore) = [i \in DOMAIN s |-> s[order[i]]]
    BY DEF order, Ordered
  <1>8. /\ [i \in DOMAIN s |-> s[order[i]]] \in Seq(Rows(S))
        /\ \E f : Reorders(f, [i \in DOMAIN s |-> s[order[i]]], s, a, b)
    BY <1>1, <1>2, <1>6, PlacesReorder
  <1> QED BY <1>7, <1>8 DEF a, b

\* The rows whose title comes first, as rerank takes them.
Fresh(s) == {i \in DOMAIN s :
              \/ Row[s[i].id].title = None
              \/ \A j \in 1..(i-1) : Row[s[j].id].title # Row[s[i].id].title}
First(s, k) == {i \in Fresh(s) : Cardinality({j \in Fresh(s) : j < i}) < k}

\* The rows with the fresh titles first.
Reshuffled(s, first) ==
    LET order == Listed(DOMAIN s, LAMBDA i, j :
                 \/ i \in first /\ j \notin first
                 \/ (i \in first <=> j \in first) /\ i < j)
    IN  [i \in DOMAIN s |-> s[order[i]]]

\* Diverse puts the first rows with a fresh title first and cuts the list.
LEMMA DiverseIs == ASSUME NEW s, NEW k PROVE Diverse(s, k) = Take(Reshuffled(s, First(s, k)), k)
    BY DEF Diverse, Reshuffled, First, Fresh

\* The rows with fresh titles come first, in their order.
LEMMA TitlesReorder ==
    ASSUME NEW T, NEW s \in Seq(T), NEW first
    PROVE  /\ Reshuffled(s, first) \in Seq(T)
           /\ \E f : Reorders(f, Reshuffled(s, first), s,
                         [i \in 1 .. Len(s) |-> IF i \in first THEN 0 ELSE 1], Zeros(Len(s)))
  <1> DEFINE order == Listed(DOMAIN s, LAMBDA i, j :
                 \/ i \in first /\ j \notin first
                 \/ (i \in first <=> j \in first) /\ i < j)
  <1> DEFINE Precedes(i, j) ==
                 \/ i \in first /\ j \notin first
                 \/ (i \in first <=> j \in first) /\ i < j
  <1>1. Len(s) \in Nat /\ DOMAIN s = 1 .. Len(s) /\ Cardinality(DOMAIN s) = Len(s)
        /\ IsFiniteSet(1 .. Len(s))
    BY LengthIsCardinality
  <1> DEFINE a == [i \in 1 .. Len(s) |-> IF i \in first THEN 0 ELSE 1]
             b == Zeros(Len(s))
  <1>2. a \in [1 .. Len(s) -> Int] /\ b \in [1 .. Len(s) -> Int]
    BY DEF Zeros
  <1>3. \A x \in DOMAIN s :
          {y \in DOMAIN s : Precedes(y, x)}
            = Ahead(a, b, Ident(Len(s)), 1 .. Len(s), x)
    <2> SUFFICES ASSUME NEW x \in 1 .. Len(s), NEW y \in 1 .. Len(s)
                 PROVE  Precedes(y, x) <=> Lex(a, b, Ident(Len(s)), y, x)
      BY <1>1 DEF Ahead
    <2>1. {x, y, a[x], a[y], b[x], b[y]} \subseteq Int
      BY <1>2
    <2> QED BY <2>1 DEF Lex, Ident, Zeros
  <1>4. \A k \in 1 .. Len(s) : \E x \in DOMAIN s :
          Cardinality({y \in DOMAIN s : Precedes(y, x)}) = k - 1
    <2> HIDE DEF a, b
    <2>1. EveryPlaceTaken(a, b, Ident(Len(s)), 1 .. Len(s))
      BY <1>1, <1>2, PlacesHaveKeys
    <2> HIDE DEF order
    <2> QED BY <1>1, <1>3, <2>1 DEF EveryPlaceTaken
  <1>5. \A k \in 1 .. Len(s) : order[k] \in DOMAIN s /\
          Cardinality({y \in DOMAIN s : Precedes(y, order[k])}) = k - 1
    BY <1>1, <1>4 DEF Listed
  <1> HIDE DEF order, a, b
  <1>6. InPlace(order, 1 .. Len(s), a, b, Ident(Len(s)))
    BY <1>1, <1>3, <1>5 DEF InPlace
  <1>7. Reshuffled(s, first) = [i \in DOMAIN s |-> s[order[i]]]
    BY DEF order, Reshuffled
  <1>8. /\ [i \in DOMAIN s |-> s[order[i]]] \in Seq(T)
        /\ \E f : Reorders(f, [i \in DOMAIN s |-> s[order[i]]], s, a, b)
    BY <1>1, <1>2, <1>6, PlacesReorder
  <1> QED BY <1>7, <1>8 DEF a, b

\* The order of browse in numbers.
BrowseFirst(p) ==
    IF req.sort = None THEN IF Row[p].verified THEN 0 ELSE 1
    ELSE IF Priced(Row[p].fee) THEN 0 ELSE IF Row[p].fee # None THEN 1 ELSE 2
BrowseSecond(p) ==
    IF req.sort = None \/ Row[p].fee = None THEN 0
    ELSE IF req.sort = "price_asc" THEN Row[p].fee ELSE -Row[p].fee

\* The order of the keyword index compares two numbers of a product, and then its rowid.
LEMMA BrowseKeys ==
    ASSUME NEW p \in Products, NEW q \in Products
    PROVE  /\ BrowseFirst(p) \in Int /\ BrowseSecond(p) \in Int
           /\ BrowsedBefore(p, q) <=>
                \/ BrowseFirst(p) < BrowseFirst(q)
                \/ BrowseFirst(p) = BrowseFirst(q) /\ BrowseSecond(p) < BrowseSecond(q)
                \/ BrowseFirst(p) = BrowseFirst(q) /\ BrowseSecond(p) = BrowseSecond(q) /\ p > q
  <1>1. /\ Row[p].fee \in Int \union {None} /\ Row[q].fee \in Int \union {None}
        /\ Row[p].verified \in BOOLEAN /\ Row[q].verified \in BOOLEAN
    BY DataAssumption
  <1>2. None \notin Int /\ UNPRICED_RENTAL_FEE_CEILING \in Int
    BY ValueAssumption, RetrievalAssumption
  <1>3. BrowseFirst(p) \in Int /\ BrowseSecond(p) \in Int
    BY <1>1, <1>2 DEF BrowseFirst, BrowseSecond
  <1>4. CASE req.sort = None
    BY <1>1, <1>4 DEF BrowsedBefore, BrowseFirst, BrowseSecond
  <1>5. CASE req.sort # None
    <2>1. CASE ~(Priced(Row[p].fee) <=> Priced(Row[q].fee))
      <3>1. BrowsedBefore(p, q) <=> Priced(Row[p].fee)
        BY <1>5, <2>1 DEF BrowsedBefore
      <3>2. BrowseFirst(p) < BrowseFirst(q) <=> Priced(Row[p].fee)
        BY <1>5, <2>1 DEF BrowseFirst
      <3>3. BrowseFirst(p) # BrowseFirst(q)
        BY <1>5, <2>1 DEF BrowseFirst
      <3> QED BY <1>3, <3>1, <3>2, <3>3
    <2>2. CASE (Priced(Row[p].fee) <=> Priced(Row[q].fee))
                   /\ ~(Row[p].fee = None <=> Row[q].fee = None)
      <3>1. ~Priced(Row[p].fee) /\ ~Priced(Row[q].fee)
        BY <2>2 DEF Priced
      <3>2. BrowsedBefore(p, q) <=> Row[p].fee # None
        BY <1>5, <2>2, <3>1 DEF BrowsedBefore
      <3>3. BrowseFirst(p) < BrowseFirst(q) <=> Row[p].fee # None
        BY <1>5, <2>2, <3>1 DEF BrowseFirst
      <3>4. BrowseFirst(p) # BrowseFirst(q)
        BY <1>5, <2>2, <3>1 DEF BrowseFirst
      <3> QED BY <1>3, <3>2, <3>3, <3>4
    <2>3. CASE (Priced(Row[p].fee) <=> Priced(Row[q].fee))
                   /\ (Row[p].fee = None <=> Row[q].fee = None)
      BY <1>1, <1>2, <1>5, <2>3 DEF BrowsedBefore, BrowseFirst, BrowseSecond
    <2> QED BY <2>1, <2>2, <2>3
  <1> QED BY <1>3, <1>4, <1>5

\* What browse lists: the set, each once, in the order of the keys.
LEMMA Browsed ==
    ASSUME NEW S \in SUBSET Products
    PROVE  LET rows == Listed(S, BrowsedBefore)
           IN  /\ rows \in Seq(S)
               /\ \A p \in S : \E i \in 1 .. Len(rows) : rows[i] = p
               /\ \A i, j \in 1 .. Len(rows) : rows[i] = rows[j] => i = j
  <1> DEFINE rows == Listed(S, BrowsedBefore)
             a == [p \in S |-> BrowseFirst(p)]
             b == [p \in S |-> BrowseSecond(p)]
             c == [p \in S |-> -p]
  <1> HIDE DEF rows, a, b, c
  <1>1. IsFiniteSet(S) /\ S \subseteq Int
    <2>1. IsFiniteSet(Products) /\ Products \subseteq Nat
      BY RetrievalAssumption
    <2>2. IsFiniteSet(S)
      BY <2>1, FS_Subset
    <2> QED BY <2>1, <2>2
  <1>2. Cardinality(S) \in Nat
    BY <1>1, FS_CardinalityType
  <1>3. AreKeys(a, b, c, S)
    BY <1>1, BrowseKeys DEF AreKeys, a, b, c
  <1>4. \A x \in S : {y \in S : BrowsedBefore(y, x)} = Ahead(a, b, c, S, x)
    <2> SUFFICES ASSUME NEW x \in S, NEW y \in S
                 PROVE  BrowsedBefore(y, x) <=> Lex(a, b, c, y, x)
      BY DEF Ahead
    <2> QED BY <1>1, BrowseKeys DEF Lex, a, b, c
  <1>5. \A k \in 1 .. Cardinality(S) : \E x \in S :
          Cardinality({y \in S : BrowsedBefore(y, x)}) = k - 1
    <2>1. EveryPlaceTaken(a, b, c, S)
      BY <1>1, <1>3, EveryPlace
    <2> QED BY <1>4, <2>1 DEF EveryPlaceTaken
  <1>6. \A k \in 1 .. Cardinality(S) : rows[k] \in S /\
          Cardinality({y \in S : BrowsedBefore(y, rows[k])}) = k - 1
    BY <1>5 DEF Listed, rows
  <1>7. rows = [k \in 1 .. Cardinality(S) |-> rows[k]]
    <2> DEFINE At(k) == CHOOSE x \in S : Cardinality({y \in S : BrowsedBefore(y, x)}) = k - 1
    <2>1. rows = [k \in 1 .. Cardinality(S) |-> At(k)]
      BY DEF Listed, rows
    <2> HIDE DEF At
    <2> QED BY <2>1
  <1>8. InPlace(rows, S, a, b, c)
    BY <1>4, <1>6 DEF InPlace
  <1>9. /\ \A x \in S : \E k \in 1 .. Cardinality(S) : rows[k] = x
        /\ \A i, j \in 1 .. Cardinality(S) : i < j => Lex(a, b, c, rows[i], rows[j])
    BY <1>1, <1>3, <1>8, PlacesInOrder
  <1>10. rows \in Seq(S) /\ Len(rows) = Cardinality(S)
    <2>1. PICK n \in Nat : n = Cardinality(S)
      BY <1>2
    <2>2. rows = [k \in 1 .. n |-> rows[k]] /\ \A k \in 1 .. n : rows[k] \in S
      BY <1>6, <1>7, <2>1
    <2>3. rows \in [1 .. n -> S]
      BY <2>2
    <2> QED BY <2>1, <2>3
  <1>11. \A i, j \in 1 .. Cardinality(S) : rows[i] = rows[j] => i = j
    <2>1. \A x \in S : ~Lex(a, b, c, x, x)
      <3> SUFFICES ASSUME NEW x \in S PROVE ~Lex(a, b, c, x, x)
        OBVIOUS
      <3>1. {a[x], b[x], c[x]} \subseteq Int
        BY <1>3 DEF AreKeys
      <3> QED BY <3>1 DEF Lex
    <2>2. \A k \in 1 .. Cardinality(S) : rows[k] \in S
      BY <1>6
    <2> SUFFICES ASSUME NEW i \in 1 .. Cardinality(S), NEW j \in 1 .. Cardinality(S),
                        rows[i] = rows[j], i # j
                 PROVE  FALSE
      OBVIOUS
    <2>3. i < j \/ j < i
      BY <1>2
    <2>4. Lex(a, b, c, rows[i], rows[i])
      BY <1>9, <2>3
    <2> QED BY <2>1, <2>2, <2>4
  <1> QED BY <1>9, <1>10, <1>11 DEF rows

\* What the searches may return: the hard filters without the type of the ad.
Suits(p) ==
    /\ \A l \in Levels : req.filter[l] \in {None, Row[p].cat[l]}
    /\ HasPriceFilter => IF Priced(Row[p].fee) THEN WithinBounds(Row[p].fee)
                         ELSE req.types = {"wanted"}
Suiting == {p \in Products : Suits(p)}
Fitting == {p \in Products : Fits(p)}

PageRows(S) == [id : S, tier : {"filtered", "ranked", "related"}, fee : Int \union {None}]

Stages == {"retrieve", "rank", "tail", "catalogue", "hydrate", "served", "failed"}

\* The inductive invariant: whatever is handed on fits.
PathsInv ==
    /\ req \in Requests
    /\ stage \in Stages
    /\ indexed \subseteq Products
    /\ price \in [Products -> Int \union {None, Deleted}]
    /\ vectorOut \in {None, Failed} \union Seq(Suiting)
    /\ lexicalOut \in {None, Failed} \union Seq(Suiting)
    /\ stage = "rank" => vectorOut # None /\ lexicalOut # None
    /\ candidates \in Seq(Fitting) /\ fusedRest \in Seq(Fitting)
    /\ ranked \in Seq(ResultsOf(Fitting))
    /\ hybrid \in Seq(Fitting) /\ spare \in Seq(Fitting) /\ related \in Seq(Fitting)
    /\ offset \in Nat
    /\ page \in Seq(PageRows(Fitting))

\* Both translations of the filters select what suits.
LEMMA MetadataSuits == ASSUME NEW p \in Products, MetadataMatches(p) PROVE p \in Suiting
  <1>1. Row[p].fee \in Int \union {None} /\ None \notin Int /\ UNPRICED_RENTAL_FEE_CEILING \in Int
    BY DataAssumption, ValueAssumption, RetrievalAssumption
  <1>2. \A l \in Levels : req.filter[l] \in {None, Row[p].cat[l]}
    BY DEF MetadataMatches, CategoriesMatch
  <1>3. ASSUME HasPriceFilter
        PROVE  IF Priced(Row[p].fee) THEN WithinBounds(Row[p].fee) ELSE IncludeUnpriced
    <2>1. CASE Row[p].fee = None
      BY <1>3, <2>1 DEF MetadataMatches, Priced
    <2>2. CASE Row[p].fee # None
      <3>1. Priced(Row[p].fee) <=> ~(Row[p].fee <= UNPRICED_RENTAL_FEE_CEILING)
        BY <1>1, <2>2 DEF Priced
      <3>2. IF Row[p].fee <= UNPRICED_RENTAL_FEE_CEILING THEN IncludeUnpriced
            ELSE WithinBounds(Row[p].fee)
        BY <1>3, <2>2 DEF MetadataMatches
      <3> QED BY <3>1, <3>2
    <2> QED BY <2>1, <2>2
  <1> QED BY <1>2, <1>3 DEF Suiting, Suits, IncludeUnpriced

\* A row the keyword index finds suits the request.
LEMMA LexicalSuits == ASSUME NEW p \in Products, LexicalMatches(p) PROVE p \in Suiting
  <1>1. \A l \in Levels : req.filter[l] \in {None, Row[p].cat[l]}
    BY DEF LexicalMatches, CategoriesMatch
  <1>2. HasPriceFilter => IF Priced(Row[p].fee) THEN WithinBounds(Row[p].fee) ELSE IncludeUnpriced
    BY DEF LexicalMatches
  <1> QED BY <1>1, <1>2 DEF Suiting, Suits, IncludeUnpriced

\* What suits and has the type of an ad that was asked for fits.
LEMMA TypedFits == ASSUME NEW p \in Suiting, TypeFits(p) PROVE p \in Fitting
  BY DEF Suiting, Suits, TypeFits, Fitting, Fits

\* What suits a request depends on nothing but the request.
LEMMA FittingStays ==
    ASSUME UNCHANGED req
    PROVE  Suiting' = Suiting /\ Fitting' = Fitting
  BY DEF Suiting, Suits, Fitting, Fits, HasPriceFilter, WithinBounds, Priced

\* The windows are numbers.
LEMMA WindowsAreNumbers ==
    ASSUME req \in Requests
    PROVE  /\ PrimaryLimit \in Nat /\ Requested \in Nat /\ RecallWindow \in Nat
           /\ Deep(VECTOR_TOP_K) \in Nat /\ Deep(BM25_TOP_K) \in Nat
           /\ HybridTopK \in Nat /\ NResults \in Nat /\ PostFilterWindow \in Nat
           /\ Deep(VECTOR_TOP_K) <= NResults /\ PostFilterWindow <= NResults
  <1>1. req.limit \in Nat \union {None} /\ req.window \in Nat \union {None} /\ None \notin Int
    BY DataAssumption, ValueAssumption
  <1>2. \A x, y \in Nat : Least(x, y) \in Nat /\ Least(x, y) <= y
                            /\ Largest(x, y) \in Nat /\ Largest(x, y) >= y
    BY DEF Least, Largest
  <1>3. /\ {VECTOR_POST_FILTER_OVERFETCH_FACTOR, VECTOR_POST_FILTER_MAX_CANDIDATES, VECTOR_TOP_K,
            BM25_TOP_K, VECTOR_CANDIDATE_K, HYBRID_CANDIDATE_K, RETRIEVAL_OVERFETCH_FACTOR,
            RERANK_TOP_K, RERANK_CANDIDATE_K, PRIMARY_RANKED_K} \subseteq Nat
    BY WindowAssumption
  <1>4. PrimaryLimit \in Nat
    BY <1>1, <1>2, <1>3 DEF PrimaryLimit
  <1>5. RerankCandidateLimit \in Nat \union {None}
    BY <1>1, <1>2, <1>3, <1>4 DEF RerankCandidateLimit
  <1>6. Requested \in Nat
    BY <1>3, <1>5 DEF Requested
  <1>7. RecallWindow \in Nat
    BY <1>2, <1>3, <1>6 DEF RecallWindow
  <1>8. RecallWindow * RETRIEVAL_OVERFETCH_FACTOR \in Nat
    BY <1>3, <1>7
  <1>9. Deep(VECTOR_TOP_K) \in Nat /\ Deep(BM25_TOP_K) \in Nat
    BY <1>2, <1>3, <1>8 DEF Deep
  <1>10. HybridTopK \in Nat
    BY <1>6, <1>7 DEF HybridTopK
  <1>11. NResults \in Nat /\ Deep(VECTOR_TOP_K) <= NResults
    BY <1>2, <1>3, <1>9 DEF NResults
  <1>12. NResults * VECTOR_POST_FILTER_OVERFETCH_FACTOR \in Nat
    BY <1>3, <1>11
  <1>13. PostFilterWindow \in Nat /\ PostFilterWindow <= NResults
    BY <1>2, <1>3, <1>11, <1>12 DEF PostFilterWindow
  <1> QED BY <1>4, <1>6, <1>7, <1>9, <1>10, <1>11, <1>13

\* Another order of the same elements.
LEMMA ReorderedKeeps ==
    ASSUME NEW S, NEW s \in Seq(S), NEW T, NEW u \in Seq(T), NEW f, NEW a, NEW b,
           Reorders(f, u, s, a, b)
    PROVE  u \in Seq(S) /\ Range(u) = Range(s)
  <1>1. Len(s) \in Nat /\ DOMAIN s = 1 .. Len(s) /\ DOMAIN u = 1 .. Len(s) /\ Len(u) = Len(s)
    BY DEF Reorders
  <1>2. \A i \in 1 .. Len(s) : f[i] \in 1 .. Len(s) /\ u[i] = s[f[i]]
    BY DEF Reorders
  <1>3. \A i \in 1 .. Len(u) : u[i] \in S
    BY <1>1, <1>2
  <1>4. u \in Seq(S)
    BY <1>3
  <1>5. \A x \in Range(s) : x \in Range(u)
    <2> SUFFICES ASSUME NEW m \in 1 .. Len(s) PROVE s[m] \in Range(u)
      BY <1>1 DEF Range
    <2>1. PICK i \in 1 .. Len(s) : f[i] = m
      BY DEF Reorders
    <2> QED BY <1>1, <1>2, <2>1 DEF Range
  <1>6. \A x \in Range(u) : x \in Range(s)
    BY <1>1, <1>2 DEF Range
  <1> QED BY <1>4, <1>5, <1>6

\* A sequence of a part is one of the whole.
LEMMA SeqWidens == ASSUME NEW S, NEW T, S \subseteq T, NEW s \in Seq(S) PROVE s \in Seq(T)
  BY SeqMonotonic

\* What a search has found, if it failed nothing.
LEMMA FetchedIn ==
    ASSUME NEW S \in SUBSET Products, NEW out \in {Failed} \union Seq(S)
    PROVE  Fetched(out) \in Seq(S) /\ HasResults(out)
  <1>1. Seq(S) \subseteq Seq(Products)
    BY SeqWidens
  <1> QED BY <1>1 DEF Fetched, HasResults

\* The fusion gives no product that neither search gave.
LEMMA MergedIn ==
    ASSUME req \in Requests, NEW S \in SUBSET Products,
           vectorOut \in {Failed} \union Seq(S), lexicalOut \in {Failed} \union Seq(S)
    PROVE  Merged \in Seq(S)
  <1>1. /\ Fetched(vectorOut) \in Seq(S) /\ Fetched(lexicalOut) \in Seq(S)
        /\ HasResults(vectorOut) /\ HasResults(lexicalOut)
    BY FetchedIn
  <1>2. PICK rest : rest = Among(Fetched(lexicalOut), Products \ Range(Fetched(vectorOut)))
    OBVIOUS
  <1>3. rest \in Seq(S)
    <2>1. rest \in Seq(S \cap (Products \ Range(Fetched(vectorOut))))
      BY <1>1, <1>2, AmongSelects
    <2> QED BY <2>1, SeqWidens
  <1>4. PICK all : all = Fetched(vectorOut) \o rest
    OBVIOUS
  <1>5. all \in Seq(S) /\ all \in Seq(Products)
    <2>1. all \in Seq(S)
      BY <1>1, <1>3, <1>4
    <2> QED BY <2>1, SeqWidens
  <1>6. PICK fused : fused = Ordered(all, LAMBDA p, q : FusionScore(p) > FusionScore(q))
    OBVIOUS
  <1>7. fused \in Seq(S) /\ fused \in Seq(Products)
    <2>1. fused \in Seq(Products)
          /\ \E f : Reorders(f, fused, all, [i \in 1 .. Len(all) |-> -FusionScore(all[i])],
                             Zeros(Len(all)))
      BY <1>1, <1>5, <1>6, FusionOrders
    <2> QED BY <1>5, <2>1, ReorderedKeeps
  <1>8. PICK u : u = Ordered(fused, LAMBDA p, q :
                       FusionScore(p) + req.adjust[p] > FusionScore(q) + req.adjust[q])
    OBVIOUS
  <1>9. u \in Seq(S)
    <2>1. u \in Seq(Products)
          /\ \E f : Reorders(f, u, fused,
                             [i \in 1 .. Len(fused) |->
                                -(FusionScore(fused[i]) + req.adjust[fused[i]])],
                             Zeros(Len(fused)))
      BY <1>1, <1>7, <1>8, AdjustedOrders
    <2> QED BY <1>7, <2>1, ReorderedKeeps
  <1>10. Merged = u
    BY <1>2, <1>4, <1>6, <1>8 DEF Merged
  <1> QED BY <1>9, <1>10

\* Of the rows a query gives, the vector search keeps those that match.
LEMMA KeptIn ==
    ASSUME req \in Requests, NEW rows \in Seq(Products)
    PROVE  Kept(rows) \in Seq(Suiting)
  <1>1. PICK s : s = Among(rows, {p \in Products : MetadataMatches(p)})
    OBVIOUS
  <1>2. s \in Seq(Suiting)
    <2>1. {p \in Products : MetadataMatches(p)} \subseteq Suiting
      BY MetadataSuits
    <2>2. s \in Seq(Products \cap {p \in Products : MetadataMatches(p)})
      BY <1>1, AmongSelects
    <2> QED BY <2>1, <2>2, SeqWidens
  <1>3. Kept(rows) = Take(s, Deep(VECTOR_TOP_K))
    BY <1>1 DEF Kept
  <1> QED BY <1>2, <1>3, TakeIsStart, WindowsAreNumbers

\* What the queries of the vector index give are products.
LEMMA RowsAreProducts ==
    ASSUME req \in Requests
    PROVE  /\ Reached \in Seq(Products) /\ LegacyRows \in Seq(Products)
           /\ OptimizedRows \in Seq(Products)
  <1>1. req.near \in Seq(Products)
    BY DataAssumption
  <1>2. \A s \in Seq(Products) : \A S : Among(s, S) \in Seq(Products)
    <2> SUFFICES ASSUME NEW s \in Seq(Products), NEW S PROVE Among(s, S) \in Seq(Products)
      OBVIOUS
    <2>1. Among(s, S) \in Seq(Products \cap S)
      BY AmongSelects
    <2> QED BY <2>1, SeqWidens
  <1>3. Reached \in Seq(Products) /\ Nearest \in Seq(Products)
    BY <1>1, <1>2 DEF Reached, Nearest
  <1>4. Filtered(Reached) \in Seq(Products) /\ Filtered(Nearest) \in Seq(Products)
    BY <1>2, <1>3 DEF Filtered
  <1>5. \A s \in Seq(Products) : \A n \in Nat : Take(s, n) \in Seq(Products)
    BY TakeIsStart
  <1>6. NResults \in Nat /\ PostFilterWindow \in Nat /\ Largest(NResults, PostFilterWindow) \in Nat
    BY WindowsAreNumbers DEF Largest
  <1>7. LegacyRows \in Seq(Products)
    BY <1>3, <1>4, <1>5, <1>6 DEF LegacyRows
  <1>8. OptimizedRows \in Seq(Products)
    BY <1>3, <1>4, <1>5, <1>6 DEF OptimizedRows
  <1> QED BY <1>3, <1>7, <1>8

\* The vector search hands on what suits.
LEMMA VectorStep ==
    ASSUME PathsInv, VectorSearch \/ VectorFails
    PROVE  PathsInv'
  <1>1. Suiting' = Suiting /\ Fitting' = Fitting /\ Stages = Stages
    BY FittingStays DEF VectorSearch, VectorFails
  <1>2. vectorOut' \in {None, Failed} \union Seq(Suiting)
    BY KeptIn, RowsAreProducts DEF PathsInv, VectorSearch, VectorFails
  <1> QED BY <1>1, <1>2 DEF PathsInv, VectorSearch, VectorFails, tail, ResultsOf, PageRows

\* The keyword search hands on what suits.
LEMMA LexicalStep ==
    ASSUME PathsInv, LexicalSearch \/ LexicalFails
    PROVE  PathsInv'
  <1>1. Suiting' = Suiting /\ Fitting' = Fitting
    BY FittingStays DEF LexicalSearch, LexicalFails
  <1>2. lexicalOut' \in {None, Failed} \union Seq(Suiting)
    <2>1. CASE LexicalFails
      BY <2>1 DEF LexicalFails
    <2>2. CASE LexicalSearch
      <3>1. req.words \in Seq(Products) /\ Deep(BM25_TOP_K) \in Nat
        BY DataAssumption, WindowsAreNumbers DEF PathsInv
      <3>2. {p \in indexed : LexicalMatches(p)} \subseteq Suiting
        BY LexicalSuits DEF PathsInv
      <3>3. PICK s : s = Among(req.words, {p \in indexed : LexicalMatches(p)})
        OBVIOUS
      <3>4. s \in Seq(Suiting)
        <4>1. s \in Seq(Products \cap {p \in indexed : LexicalMatches(p)})
          BY <3>1, <3>3, AmongSelects
        <4> QED BY <3>2, <4>1, SeqWidens
      <3>5. Take(s, Deep(BM25_TOP_K)) \in Seq(Suiting)
        BY <3>1, <3>4, TakeIsStart
      <3> QED BY <2>2, <3>3, <3>5 DEF LexicalSearch
    <2> QED BY <2>1, <2>2
  <1> QED BY <1>1, <1>2 DEF PathsInv, LexicalSearch, LexicalFails, tail, ResultsOf, PageRows

\* Fusion hands on what fits, because it drops what has the wrong type.
LEMMA FuseStep == ASSUME PathsInv, Fuse PROVE PathsInv'
  <1>1. Suiting' = Suiting /\ Fitting' = Fitting
    BY FittingStays DEF Fuse
  <1>2. Merged \in Seq(Suiting)
    <2>1. Suiting \in SUBSET Products
      BY DEF Suiting
    <2>2. vectorOut \in {Failed} \union Seq(Suiting) /\ lexicalOut \in {Failed} \union Seq(Suiting)
      BY DEF Fuse, PathsInv
    <2> QED BY <2>1, <2>2, MergedIn DEF PathsInv
  <1>3. PICK eligible : eligible = Among(Merged, {p \in Products : TypeFits(p)})
    OBVIOUS
  <1>4. eligible \in Seq(Fitting)
    <2>1. eligible \in Seq(Suiting \cap {p \in Products : TypeFits(p)})
      BY <1>2, <1>3, AmongSelects
    <2>2. Suiting \cap {p \in Products : TypeFits(p)} \subseteq Fitting
      BY TypedFits
    <2> QED BY <2>1, <2>2, SeqWidens
  <1>5. HybridTopK \in Nat
    BY WindowsAreNumbers DEF PathsInv
  <1>6. candidates' \in Seq(Fitting) /\ fusedRest' \in Seq(Fitting)
    BY <1>3, <1>4, <1>5, TakeIsStart, DropIsEnd DEF Fuse
  <1> QED BY <1>1, <1>6 DEF PathsInv, Fuse, found, tail, ResultsOf, PageRows, Stages

\* The results of the reranker are among those it is given.
LEMMA RankedIn ==
    ASSUME NEW S \in SUBSET Products, NEW s \in Seq(ResultsOf(S)), NEW k \in Nat
    PROVE  /\ ByScore(s) \in Seq(ResultsOf(S)) /\ VerifiedFirst(s) \in Seq(ResultsOf(S))
           /\ Diverse(s, k) \in Seq(ResultsOf(S)) /\ AboveFloors(s) \in Seq(ResultsOf(S))
  <1>1. ByScore(s) \in Seq(ResultsOf(S))
    BY ScoresOrder
  <1>2. VerifiedFirst(s) \in Seq(ResultsOf(S))
    BY VerifiedOrders
  <1>3. Diverse(s, k) \in Seq(ResultsOf(S))
    <2>1. Reshuffled(s, First(s, k)) \in Seq(ResultsOf(S))
      BY TitlesReorder
    <2> QED BY <2>1, DiverseIs, TakeIsStart
  <1>4. AboveFloors(s) \in Seq(ResultsOf(S))
    <2>1. \A A : Among(s, A) \in Seq(ResultsOf(S))
      <3> SUFFICES ASSUME NEW A PROVE Among(s, A) \in Seq(ResultsOf(S))
        OBVIOUS
      <3>1. Among(s, A) \in Seq(ResultsOf(S) \cap A)
        BY AmongSelects
      <3> QED BY <3>1, SeqWidens
    <2> QED BY <2>1 DEF AboveFloors
  <1> QED BY <1>1, <1>2, <1>3, <1>4

\* The candidates with their scores.
LEMMA WithScoresIn ==
    ASSUME NEW S, candidates \in Seq(S), NEW score, \A p \in S : score[p] \in Int
    PROVE  WithScores(score) \in Seq(ResultsOf(S)) /\ Len(WithScores(score)) = Len(candidates)
  <1>1. Len(candidates) \in Nat /\ DOMAIN candidates = 1 .. Len(candidates)
        /\ \A i \in 1 .. Len(candidates) : candidates[i] \in S
    OBVIOUS
  <1>2. \A i \in 1 .. Len(candidates) :
          [id |-> candidates[i], score |-> score[candidates[i]]] \in ResultsOf(S)
    BY <1>1 DEF ResultsOf
  <1> QED BY <1>1, <1>2 DEF WithScores

\* Ranking hands on candidates.
LEMMA RankStep == ASSUME PathsInv, Rank \/ RankFallsBack PROVE PathsInv'
  <1>1. Suiting' = Suiting /\ Fitting' = Fitting
    BY FittingStays DEF Rank, RankFallsBack
  <1>2. Fitting \in SUBSET Products /\ PrimaryLimit \in Nat /\ candidates \in Seq(Fitting)
    BY WindowsAreNumbers DEF PathsInv, Fitting
  <1>3. ranked' \in Seq(ResultsOf(Fitting))
    <2>1. CASE Rank
      <3>1. PICK score \in Scorings :
              ranked' = AboveFloors(Diverse(VerifiedFirst(ByScore(WithScores(score))),
                  PrimaryLimit))
        BY <2>1 DEF Rank
      <3>2. WithScores(score) \in Seq(ResultsOf(Fitting))
        BY <1>2, WithScoresIn, DataAssumption
      <3>3. ByScore(WithScores(score)) \in Seq(ResultsOf(Fitting))
        BY <1>2, <3>2, RankedIn
      <3>4. VerifiedFirst(ByScore(WithScores(score))) \in Seq(ResultsOf(Fitting))
        BY <1>2, <3>3, RankedIn
      <3>5. Diverse(VerifiedFirst(ByScore(WithScores(score))), PrimaryLimit)
              \in Seq(ResultsOf(Fitting))
        BY <1>2, <3>4, RankedIn
      <3> QED BY <1>2, <3>1, <3>5, RankedIn
    <2>2. CASE RankFallsBack
      <3> DEFINE score == [p \in Products |-> FusionScore(p) + req.adjust[p]]
      <3>1. HasResults(vectorOut) /\ HasResults(lexicalOut)
        <4>1. vectorOut \in {Failed} \union Seq(Suiting)
                  /\ lexicalOut \in {Failed} \union Seq(Suiting)
          BY <2>2 DEF RankFallsBack, PathsInv
        <4> QED BY <4>1, FetchedIn DEF Suiting
      <3>2. \A p \in Fitting : score[p] \in Int
        BY <1>2, <3>1, FusionScoreIsANumber, DataAssumption DEF PathsInv
      <3>3. ranked' = Take(VerifiedFirst(WithScores(score)), PrimaryLimit)
        BY <2>2 DEF RankFallsBack
      <3> HIDE DEF score
      <3>4. WithScores(score) \in Seq(ResultsOf(Fitting))
        BY <1>2, <3>2, WithScoresIn
      <3>5. VerifiedFirst(WithScores(score)) \in Seq(ResultsOf(Fitting))
        BY <1>2, <3>4, RankedIn
      <3> QED BY <1>2, <3>3, <3>5, TakeIsStart
    <2> QED BY <2>1, <2>2
  <1> QED BY <1>1, <1>3 DEF PathsInv, Rank, RankFallsBack, found, tail, ResultsOf, PageRows, Stages

\* The room the tail has is a natural number.
LEMMA TailLimitIsANumber ==
    ASSUME req \in Requests, NEW S, ranked \in Seq(S)
    PROVE  TailLimit \in Nat
  <1>1. req.limit \in Nat \union {None} /\ None \notin Int /\ Len(ranked) \in Nat
    BY DataAssumption, ValueAssumption
  <1> QED BY <1>1 DEF TailLimit, Largest

\* A part of a sequence has its elements.
LEMMA AmongIn ==
    ASSUME NEW T, NEW s \in Seq(T), NEW S
    PROVE  Among(s, S) \in Seq(T)
  <1>1. Among(s, S) \in Seq(T \cap S)
    BY AmongSelects
  <1> QED BY <1>1, SeqWidens

\* The first part of the tail is of the fused results.
LEMMA HybridTailStep == ASSUME PathsInv, HybridTail PROVE PathsInv'
  <1>1. Suiting' = Suiting /\ Fitting' = Fitting
    BY FittingStays DEF HybridTail
  <1>2. TailLimit \in Nat /\ fusedRest \in Seq(Fitting)
    BY TailLimitIsANumber DEF PathsInv
  <1> DEFINE a == AnchorFrom(IF ranked = <<>> THEN None ELSE ranked[1].id)
             rest == Among(fusedRest, Products \ Range(Primary))
             keeping == {p \in Products : HasAnchor(a) /\ MatchesAnchor(p, a)}
             near == Among(rest, keeping)
             far == Among(rest, Products \ keeping)
  <1>3. /\ IF TailAllowed /\ TailLimit > 0
           THEN /\ hybrid' = Take(IF HasAnchor(a) THEN near ELSE far, TailLimit)
                /\ spare' = IF HasAnchor(a) THEN far ELSE <<>>
           ELSE UNCHANGED <<hybrid, spare>>
        /\ stage' \in {"catalogue", "hydrate"}
    BY DEF HybridTail
  <1>4. rest \in Seq(Fitting)
    BY <1>2, AmongIn
  <1>5. near \in Seq(Fitting) /\ far \in Seq(Fitting)
    <2> HIDE DEF rest, keeping
    <2> QED BY <1>4, AmongIn
  <1> HIDE DEF a, near, far
  <1>6. hybrid' \in Seq(Fitting) /\ spare' \in Seq(Fitting)
    <2>1. \A s \in Seq(Fitting) : Take(s, TailLimit) \in Seq(Fitting)
      BY <1>2, TakeIsStart
    <2>2. <<>> \in Seq(Fitting) /\ hybrid \in Seq(Fitting) /\ spare \in Seq(Fitting)
      BY DEF PathsInv
    <2> QED BY <1>3, <1>5, <2>1, <2>2
  <1> QED BY <1>1, <1>3, <1>6 DEF PathsInv, HybridTail, found, ResultsOf, PageRows, Stages

\* The room the pages of the keyword index have is an integer.
LEMMA CatalogueLimitIsANumber ==
    ASSUME PathsInv
    PROVE  CatalogueLimit \in Int
  <1>1. req.limit \in Nat \union {None} /\ Len(hybrid) \in Nat /\ RERANK_TOP_K \in Nat
            /\ TailLimit \in Nat
    BY DataAssumption, WindowAssumption, TailLimitIsANumber DEF PathsInv
  <1> QED BY <1>1 DEF CatalogueLimit

\* A page of the keyword index hands on what fits.
LEMMA BrowseStep == ASSUME PathsInv, BrowsePage \/ BrowseNothing PROVE PathsInv'
  <1>1. Suiting' = Suiting /\ Fitting' = Fitting
    BY FittingStays DEF BrowsePage, BrowseNothing, tail
  <1>2. CASE BrowseNothing
    BY <1>1, <1>2 DEF PathsInv, BrowseNothing, found, tail, ResultsOf, PageRows, Stages
  <1>3. CASE BrowsePage
    <2> DEFINE rows == Take(Drop(Listed(InCatalogue, BrowsedBefore), offset), PAGE_SIZE)
               fresh == Among(rows, {p \in Products \ Range(related) : TypeFits(p)})
    <2>1. /\ related' = Take(related \o fresh, CatalogueLimit)
          /\ offset' = offset + Len(rows)
          /\ stage' \in {"hydrate", "catalogue"}
      BY <1>3 DEF BrowsePage
    <2>2. InCatalogue \in SUBSET Products /\ InCatalogue \subseteq Suiting
      BY LexicalSuits DEF InCatalogue, PathsInv
    <2>3. PICK all : all = Listed(InCatalogue, BrowsedBefore)
      OBVIOUS
    <2>4. all \in Seq(InCatalogue)
      BY <2>2, <2>3, Browsed
    <2>5. Drop(all, offset) \in Seq(InCatalogue)
      BY <2>4, DropIsEnd DEF PathsInv
    <2>6. rows \in Seq(InCatalogue) /\ Len(rows) \in Nat
      <3>1. Take(Drop(all, offset), PAGE_SIZE) \in Seq(InCatalogue)
        BY <2>5, TakeIsStart, RetrievalAssumption
      <3>2. rows = Take(Drop(all, offset), PAGE_SIZE)
        BY <2>3
      <3> HIDE DEF rows
      <3> QED BY <3>1, <3>2
    <2>7. fresh \in Seq(Fitting)
      <3> HIDE DEF rows
      <3>1. fresh \in Seq(InCatalogue \cap {p \in Products \ Range(related) : TypeFits(p)})
        BY <2>6, AmongSelects
      <3>2. InCatalogue \cap {p \in Products \ Range(related) : TypeFits(p)} \subseteq Fitting
        BY <2>2, TypedFits
      <3> HIDE DEF fresh
      <3> QED BY <3>1, <3>2, SeqWidens
    <2> HIDE DEF fresh, rows
    <2>8. related' \in Seq(Fitting)
      <3>1. related \o fresh \in Seq(Fitting)
        BY <2>7 DEF PathsInv
      <3> QED BY <2>1, <3>1, CatalogueLimitIsANumber, TakeIsStart
    <2>9. offset' \in Nat
      BY <2>1, <2>6 DEF PathsInv
    <2> QED BY <1>1, <1>3, <2>1, <2>8, <2>9
                   DEF PathsInv, BrowsePage, found, ResultsOf, PageRows, Stages
  <1> QED BY <1>2, <1>3

\* What is put together for the page fits.
LEMMA ProductIdsIn ==
    ASSUME PathsInv
    PROVE  ProductIds \in Seq(Fitting)
  <1>1. Len(ranked) \in Nat /\ DOMAIN ranked = 1 .. Len(ranked)
        /\ \A i \in 1 .. Len(ranked) : ranked[i].id \in Fitting
    BY ResultFields DEF PathsInv
  <1>2. Primary \in Seq(Fitting)
    BY <1>1 DEF Primary
  <1>3. Largest(TailLimit - Len(hybrid) - Len(related), 0) \in Int
    <2>1. TailLimit \in Int /\ Len(hybrid) \in Int /\ Len(related) \in Int
      BY TailLimitIsANumber DEF PathsInv
    <2> QED BY <2>1 DEF Largest
  <1>4. RelatedAndSpare \in Seq(Fitting)
    <2>1. Take(spare, Largest(TailLimit - Len(hybrid) - Len(related), 0)) \in Seq(Fitting)
      BY <1>3, TakeIsStart DEF PathsInv
    <2> QED BY <2>1 DEF RelatedAndSpare, PathsInv
  <1>5. PICK s : s = Primary \o hybrid \o RelatedAndSpare
    OBVIOUS
  <1>6. s \in Seq(Fitting)
    BY <1>2, <1>4, <1>5 DEF PathsInv
  <1>7. {i \in DOMAIN s : \A j \in 1..(i-1) : s[j] # s[i]} \in SUBSET (1 .. Len(s))
    BY <1>6
  <1>8. FirstOf(s) \in Seq(Fitting)
    BY <1>6, <1>7, PickedSelects DEF FirstOf
  <1> QED BY <1>5, <1>8 DEF ProductIds

\* The page shows what was handed on.
LEMMA HydrateStep == ASSUME PathsInv, Hydrate PROVE PathsInv'
  <1>1. Suiting' = Suiting /\ Fitting' = Fitting
    BY FittingStays DEF Hydrate
  <1> DEFINE ids == Among(ProductIds, {p \in Products : price[p] # Deleted})
             rows == [i \in DOMAIN ids |-> [id |-> ids[i], tier |-> Tier(ids[i]),
                                           fee |-> price[ids[i]]]]
  <1>2. ids \in Seq(Fitting \cap {p \in Products : price[p] # Deleted})
    BY ProductIdsIn, AmongSelects
  <1>3. page' = IF req.sort # None /\ ~req.browseOnly THEN Ordered(rows, PriceBefore) ELSE rows
    BY DEF Hydrate
  <1> HIDE DEF ids
  <1>4. /\ Len(ids) \in Nat /\ DOMAIN ids = 1 .. Len(ids)
        /\ \A i \in 1 .. Len(ids) : ids[i] \in Fitting /\ price[ids[i]] \in Int \union {None}
    <2>1. \A p \in Fitting \cap {p \in Products : price[p] # Deleted} :
              price[p] \in Int \union {None}
      BY DEF PathsInv
    <2>2. \A i \in 1 .. Len(ids) : ids[i] \in Fitting \cap {p \in Products : price[p] # Deleted}
      BY <1>2
    <2> QED BY <1>2, <2>1, <2>2
  <1>5. rows \in Seq(PageRows(Fitting))
    <2>1. \A i \in 1 .. Len(ids) : [id |-> ids[i], tier |-> Tier(ids[i]), fee |-> price[ids[i]]]
                                     \in PageRows(Fitting)
      BY <1>4 DEF PageRows, Tier
    <2> QED BY <1>4, <2>1
  <1>6. ASSUME ~req.browseOnly PROVE rows \in Seq(Rows(Fitting))
    <2>1. \A i \in 1 .. Len(ids) : [id |-> ids[i], tier |-> Tier(ids[i]), fee |-> price[ids[i]]]
                                     \in Rows(Fitting)
      BY <1>4, <1>6 DEF Rows, Tier
    <2> QED BY <1>4, <2>1
  <1> HIDE DEF rows
  <1>7. page' \in Seq(PageRows(Fitting))
    <2>1. CASE req.sort # None /\ ~req.browseOnly
      <3>1. Ordered(rows, PriceBefore) \in Seq(Rows(Fitting))
        BY <1>6, <2>1, PriceOrders
      <3>2. Rows(Fitting) \subseteq PageRows(Fitting)
        BY DEF Rows, PageRows
      <3> QED BY <1>3, <2>1, <3>1, <3>2, SeqWidens
    <2>2. CASE ~(req.sort # None /\ ~req.browseOnly)
      BY <1>3, <1>5, <2>2
    <2> QED BY <2>1, <2>2
  <1> QED BY <1>1, <1>7 DEF PathsInv, Hydrate, found, tail, ResultsOf, PageRows, Stages

\* A search that fails shows nothing.
LEMMA FailsStep == ASSUME PathsInv, SearchFails PROVE PathsInv'
  <1>1. Suiting' = Suiting /\ Fitting' = Fitting
    BY FittingStays DEF SearchFails
  <1> QED BY <1>1 DEF PathsInv, SearchFails, found, tail, ResultsOf, PageRows, Stages

\* A change of the catalogue changes nothing of what was handed on.
LEMMA ChangeStep == ASSUME PathsInv, Change PROVE PathsInv'
  <1>1. Suiting' = Suiting /\ Fitting' = Fitting
    BY FittingStays DEF Change
  <1>2. indexed' \subseteq Products
    BY DEF PathsInv, Change
  <1>3. price' \in [Products -> Int \union {None, Deleted}]
    <2>1. Prices \subseteq Int
      BY DataAssumption
    <2> QED BY <2>1 DEF PathsInv, Change
  <1> QED BY <1>1, <1>2, <1>3 DEF PathsInv, Change, found, tail, ResultsOf, PageRows, Stages

\* A search that has begun has nothing to hand on.
LEMMA PathsStart == RetrievalInit => PathsInv
  <1> SUFFICES ASSUME RetrievalInit PROVE PathsInv
    OBVIOUS
  <1>1. price \in [Products -> Int \union {None, Deleted}]
    BY DataAssumption DEF RetrievalInit
  <1>2. \A S : <<>> \in Seq(S)
    OBVIOUS
  <1> QED BY <1>1, <1>2 DEF RetrievalInit, PathsInv, Stages

\* Every step of a search hands on what fits.
LEMMA PathsNext == PathsInv /\ [RetrievalNext]_retrievalVars => PathsInv'
  <1> SUFFICES ASSUME PathsInv, [RetrievalNext]_retrievalVars PROVE PathsInv'
    OBVIOUS
  <1>1. CASE UNCHANGED retrievalVars
    <2>1. Suiting' = Suiting /\ Fitting' = Fitting
      BY <1>1, FittingStays DEF retrievalVars
    <2> QED BY <1>1, <2>1 DEF PathsInv, retrievalVars, ResultsOf, PageRows
  <1> QED
    BY <1>1, VectorStep, LexicalStep, FuseStep, RankStep, HybridTailStep, BrowseStep,
       HydrateStep, FailsStep, ChangeStep DEF RetrievalNext

\* Whatever a search hands on fits, always.
LEMMA PathsHold == RetrievalSpec => []PathsInv
  BY PathsStart, PathsNext, PTL DEF RetrievalSpec

\* What is handed on fits, so every path filters.
LEMMA PathsFilter == PathsInv => EveryPathFilters
  <1> SUFFICES ASSUME PathsInv, NEW i \in DOMAIN page PROVE Fits(page[i].id)
    BY DEF EveryPathFilters, Shown
  <1>1. page[i] \in PageRows(Fitting)
    BY DEF PathsInv
  <1> QED BY <1>1 DEF PageRows, Fitting

\* Whatever path a product takes into a page, by the vectors, the keywords or the pages of
\* the keyword index, it has the categories, the price and the type that were asked for
\* (ProductSearchEngine.retrieve, .search and ._filtered_search), while the index and the
\* database change.
THEOREM FiltersHold == RetrievalSpec => []EveryPathFilters
  BY PathsHold, PathsFilter, PTL

\* There is one way to take the elements at some places in their order.
LEMMA OneSelection ==
    ASSUME NEW s, NEW P \in SUBSET Nat, NEW T, NEW u \in Seq(T), NEW w \in Seq(T), NEW f, NEW g,
           Selects(f, u, s, P), Selects(g, w, s, P)
    PROVE  u = w
  <1>1. Len(u) \in Nat /\ Len(w) \in Nat
    OBVIOUS
  <1>2. /\ \A i \in 1 .. Len(u) : f[i] \in P /\ f[i] \in Nat
        /\ \A i \in 1 .. Len(w) : g[i] \in P /\ g[i] \in Nat
    BY DEF Selects
  <1> DEFINE Bad == {i \in Nat : i \in 1 .. Len(u) /\ i \in 1 .. Len(w) /\ f[i] # g[i]}
  <1>3. Bad = {}
    <2> SUFFICES ASSUME Bad # {} PROVE FALSE
      OBVIOUS
    <2>1. PICK i \in Bad : \A m \in Bad : i <= m
      <3>1. Bad \subseteq Nat
        OBVIOUS
      <3> HIDE DEF Bad
      <3> QED BY <3>1, LeastOf
    <2>2. i \in 1 .. Len(u) /\ i \in 1 .. Len(w) /\ f[i] # g[i]
      OBVIOUS
    <2>3. \A j \in 1 .. (i - 1) : f[j] = g[j]
      <3> SUFFICES ASSUME NEW j \in 1 .. (i - 1), f[j] # g[j] PROVE FALSE
        OBVIOUS
      <3>1. j \in Bad /\ ~(i <= j)
        BY <1>1, <2>2
      <3> QED BY <2>1, <3>1
    <2>4. PICK j \in 1 .. Len(w) : g[j] = f[i]
      BY <1>2, <2>2 DEF Selects
    <2>5. PICK k \in 1 .. Len(u) : f[k] = g[i]
      BY <1>2, <2>2 DEF Selects
    <2>6. j > i
      <3>1. j # i
        BY <2>2, <2>4
      <3>2. ~(j < i)
        <4> SUFFICES ASSUME j < i PROVE FALSE
          OBVIOUS
        <4>1. j \in 1 .. (i - 1) /\ j \in 1 .. Len(u)
          BY <1>1, <2>2
        <4>2. f[j] = f[i] /\ f[j] < f[i]
          BY <2>2, <2>3, <2>4, <4>1 DEF Selects
        <4> QED BY <1>2, <2>2, <4>2
      <3> QED BY <2>2, <3>1, <3>2
    <2>7. k > i
      <3>1. k # i
        BY <2>2, <2>5
      <3>2. ~(k < i)
        <4> SUFFICES ASSUME k < i PROVE FALSE
          OBVIOUS
        <4>1. k \in 1 .. (i - 1) /\ k \in 1 .. Len(w)
          BY <1>1, <2>2
        <4>2. g[k] = g[i] /\ g[k] < g[i]
          BY <2>2, <2>3, <2>5, <4>1 DEF Selects
        <4> QED BY <1>2, <2>2, <4>2
      <3> QED BY <2>2, <3>1, <3>2
    <2>8. g[i] < g[j] /\ f[i] < f[k]
      BY <2>2, <2>4, <2>5, <2>6, <2>7 DEF Selects
    <2> QED BY <1>2, <2>2, <2>4, <2>5, <2>8
  <1>4. Len(u) = Len(w)
    <2>1. ~(Len(u) < Len(w))
      <3> SUFFICES ASSUME Len(u) < Len(w) PROVE FALSE
        OBVIOUS
      <3> DEFINE l == Len(u) + 1
      <3>1. l \in 1 .. Len(w)
        BY <1>1
      <3>2. PICK j \in 1 .. Len(u) : f[j] = g[l]
        BY <1>2, <3>1 DEF Selects
      <3>3. j \in 1 .. Len(w) /\ j < l /\ f[j] = g[j]
        BY <1>1, <1>3
      <3>4. g[j] < g[l]
        BY <3>1, <3>3 DEF Selects
      <3> QED BY <1>2, <3>1, <3>2, <3>3, <3>4
    <2>2. ~(Len(w) < Len(u))
      <3> SUFFICES ASSUME Len(w) < Len(u) PROVE FALSE
        OBVIOUS
      <3> DEFINE l == Len(w) + 1
      <3>1. l \in 1 .. Len(u)
        BY <1>1
      <3>2. PICK j \in 1 .. Len(w) : g[j] = f[l]
        BY <1>2, <3>1 DEF Selects
      <3>3. j \in 1 .. Len(u) /\ j < l /\ f[j] = g[j]
        BY <1>1, <1>3
      <3>4. f[j] < f[l]
        BY <3>1, <3>3 DEF Selects
      <3> QED BY <1>2, <3>1, <3>2, <3>3, <3>4
    <2> QED BY <1>1, <2>1, <2>2
  <1>5. \A i \in 1 .. Len(u) : u[i] = w[i]
    <2>1. \A i \in 1 .. Len(u) : f[i] = g[i]
      BY <1>1, <1>3, <1>4
    <2> QED BY <1>4, <2>1 DEF Selects
  <1> QED BY <1>4, <1>5, SeqEqual

\* What is selected of a selection.
LEMMA SelectsTwice ==
    ASSUME NEW T, NEW s \in Seq(T), NEW A, NEW B, \A x \in T : x \in B => x \in A,
           NEW u \in Seq(T), NEW f, Selects(f, u, s, PlacesOf(s, A)),
           NEW w \in Seq(T), NEW g, Selects(g, w, u, PlacesOf(u, B))
    PROVE  \E h : Selects(h, w, s, PlacesOf(s, B))
  <1>1. /\ Len(s) \in Nat /\ Len(u) \in Nat /\ Len(w) \in Nat
        /\ DOMAIN s = 1 .. Len(s) /\ DOMAIN u = 1 .. Len(u)
    OBVIOUS
  <1> DEFINE h == [i \in 1 .. Len(w) |-> f[g[i]]]
  <1>2. ASSUME NEW i \in 1 .. Len(w)
        PROVE  g[i] \in 1 .. Len(u) /\ u[g[i]] \in B /\ w[i] = u[g[i]]
    BY <1>1 DEF Selects, PlacesOf
  <1>3. ASSUME NEW j \in 1 .. Len(u)
        PROVE  f[j] \in 1 .. Len(s) /\ u[j] = s[f[j]]
    BY <1>1 DEF Selects, PlacesOf
  <1>4. ASSUME NEW i \in 1 .. Len(w)
        PROVE  h[i] \in PlacesOf(s, B) /\ w[i] = s[h[i]]
    <2>1. g[i] \in 1 .. Len(u) /\ u[g[i]] \in B /\ w[i] = u[g[i]]
      BY <1>2
    <2>2. f[g[i]] \in 1 .. Len(s) /\ u[g[i]] = s[f[g[i]]]
      BY <1>3, <2>1
    <2> QED BY <1>1, <2>1, <2>2 DEF PlacesOf
  <1>5. ASSUME NEW i \in 1 .. Len(w), NEW j \in 1 .. Len(w), i < j
        PROVE  h[i] < h[j]
    <2>1. g[i] < g[j] /\ g[i] \in 1 .. Len(u) /\ g[j] \in 1 .. Len(u)
      BY <1>2, <1>5 DEF Selects
    <2> QED BY <2>1 DEF Selects
  <1>6. ASSUME NEW m \in PlacesOf(s, B)
        PROVE  \E i \in 1 .. Len(w) : h[i] = m
    <2>1. m \in 1 .. Len(s) /\ s[m] \in B /\ s[m] \in T
      BY <1>1 DEF PlacesOf
    <2>2. m \in PlacesOf(s, A)
      BY <1>1, <2>1 DEF PlacesOf
    <2>3. PICK j \in 1 .. Len(u) : f[j] = m
      BY <2>2 DEF Selects
    <2>4. j \in PlacesOf(u, B)
      BY <1>1, <1>3, <2>1, <2>3 DEF PlacesOf
    <2>5. PICK i \in 1 .. Len(w) : g[i] = j
      BY <2>4 DEF Selects
    <2> QED BY <2>3, <2>5
  <1>7. h \in [1 .. Len(w) -> PlacesOf(s, B)]
    BY <1>4
  <1> HIDE DEF h
  <1>8. Selects(h, w, s, PlacesOf(s, B))
    BY <1>4, <1>5, <1>6, <1>7 DEF Selects
  <1> QED BY <1>8

\* A looser filter before a stricter one makes no difference.
LEMMA AmongTwice ==
    ASSUME NEW T, NEW s \in Seq(T), NEW A, NEW B, \A x \in T : x \in B => x \in A
    PROVE  Among(Among(s, A), B) = Among(s, B)
  <1>1. PICK u, f : u \in Seq(T) /\ u = Among(s, A) /\ Selects(f, u, s, PlacesOf(s, A))
    BY AmongSelects, AmongIn
  <1>2. PICK w, g : w \in Seq(T) /\ w = Among(u, B) /\ Selects(g, w, u, PlacesOf(u, B))
    <2>1. u \in Seq(T)
      BY <1>1
    <2>2. Among(u, B) \in Seq(T) /\ \E g : Selects(g, Among(u, B), u, PlacesOf(u, B))
      BY <2>1, AmongSelects, AmongIn
    <2> QED BY <2>2
  <1>3. PICK v, k : v \in Seq(T) /\ v = Among(s, B) /\ Selects(k, v, s, PlacesOf(s, B))
    BY AmongSelects, AmongIn
  <1>4. PICK h : Selects(h, w, s, PlacesOf(s, B))
    BY <1>1, <1>2, SelectsTwice
  <1>5. PlacesOf(s, B) \in SUBSET Nat
    BY DEF PlacesOf
  <1>6. w = v
    <2>1. w \in Seq(T) /\ v \in Seq(T)
      BY <1>2, <1>3
    <2>2. Selects(h, w, s, PlacesOf(s, B)) /\ Selects(k, v, s, PlacesOf(s, B))
      BY <1>3, <1>4
    <2> QED BY <1>5, <2>1, <2>2, OneSelection
  <1> QED BY <1>1, <1>2, <1>3, <1>6

\* Taking no less than there is takes all.
LEMMA TakeAll ==
    ASSUME NEW T, NEW s \in Seq(T), NEW n \in Nat, Len(s) <= n
    PROVE  Take(s, n) = s
  <1>1. Take(s, n) \in Seq(T) /\ Len(Take(s, n)) = Len(s)
        /\ \A i \in 1 .. Len(Take(s, n)) : Take(s, n)[i] = s[i]
    BY TakeIsStart
  <1> QED BY <1>1, SeqEqual

\* The rows that match pass the clause of the database.
LEMMA MatchesWhere == ASSUME NEW p \in Products, MetadataMatches(p) PROVE WhereMatches(p)
  <1>1. CategoriesMatch(p)
    BY DEF MetadataMatches
  <1>2. ASSUME ~IncludeUnpriced, HasPriceFilter
        PROVE  Row[p].fee # None /\ WithinBounds(Row[p].fee)
    BY <1>2 DEF MetadataMatches
  <1> QED BY <1>1, <1>2 DEF WhereMatches

\* Equal rows leave equal results.
LEMMA EqualRowsEqualResults ==
    ASSUME req \in Requests, RowsEquivalent(ShadowRows, OptimizedRows)
    PROVE  Kept(OptimizedRows) = Kept(LegacyRows)
  <1>1. ShadowRows = OptimizedRows
    BY DEF RowsEquivalent
  <1>2. CASE ~LegacyPostFilter
    BY <1>1, <1>2 DEF ShadowRows
  <1>3. CASE LegacyPostFilter
    <2> DEFINE Where == {p \in Products : WhereMatches(p)}
               Match == {p \in Products : MetadataMatches(p)}
    <2>1. PICK rows : rows = LegacyRows
      OBVIOUS
    <2>2. rows \in Seq(Products) /\ Len(rows) <= NResults /\ NResults \in Nat
      <3>1. NResults \in Nat /\ Largest(NResults, PostFilterWindow) = NResults
        BY WindowsAreNumbers DEF Largest
      <3>2. rows = Take(Reached, NResults)
        BY <1>3, <2>1, <3>1 DEF LegacyRows, LegacyPostFilter
      <3> QED BY <3>1, <3>2, RowsAreProducts, TakeIsStart
    <2>3. PICK passed : passed = Among(rows, Where)
      OBVIOUS
    <2>4. passed \in Seq(Products) /\ Len(passed) <= NResults
      <3> HIDE DEF Where
      <3>1. passed \in Seq(Products) /\ Len(passed) <= Len(rows)
        BY <2>2, <2>3, AmongIn, AmongSelects
      <3>2. Len(passed) \in Nat /\ Len(rows) \in Nat
        BY <2>2, <3>1
      <3> QED BY <2>2, <3>1, <3>2
    <2>5. OptimizedRows = passed
      <3>1. OptimizedRows = Take(passed, NResults)
        BY <1>1, <1>3, <2>1, <2>3 DEF ShadowRows
      <3> QED BY <2>2, <2>4, <3>1, TakeAll
    <2>6. Among(passed, Match) = Among(rows, Match)
      <3>1. \A p \in Products : p \in Match => p \in Where
        BY MatchesWhere
      <3> HIDE DEF Match, Where
      <3> QED BY <2>2, <2>3, <3>1, AmongTwice
    <2> QED BY <2>1, <2>5, <2>6 DEF Kept
  <1> QED BY <1>2, <1>3

\* The comparison has not reported before the vector search has ended.
ShadowInv == PathsInv /\ (vectorOut = None => shadowEqual # "equal") /\ ShadowEqualIsSafe

\* Every step of a search keeps what the comparison has reported.
LEMMA ShadowNext == ShadowInv /\ [RetrievalNext]_retrievalVars => ShadowInv'
  <1> SUFFICES ASSUME ShadowInv, [RetrievalNext]_retrievalVars PROVE ShadowInv'
    OBVIOUS
  <1>1. PathsInv /\ PathsInv'
    BY PathsNext DEF ShadowInv
  <1>2. CASE VectorSearch
    <2>1. vectorOut' # None
      <3>1. \A rows \in Seq(Products) : Kept(rows) \in Seq(Products)
        <4>1. \A rows \in Seq(Products) : Kept(rows) \in Seq(Suiting)
          BY <1>1, KeptIn DEF PathsInv
        <4>2. Suiting \subseteq Products
          BY DEF Suiting
        <4> QED BY <4>1, <4>2, SeqWidens
      <3> QED BY <1>1, <1>2, <3>1, RowsAreProducts, ValueAssumption DEF VectorSearch, PathsInv
    <2>2. shadowEqual' = "equal" => optimizedOut' = vectorOut'
      <3> SUFFICES ASSUME shadowEqual' = "equal" PROVE optimizedOut' = vectorOut'
        OBVIOUS
      <3>1. shadowEqual # "equal"
        BY <1>2 DEF VectorSearch, ShadowInv
      <3>2. CASE req.mode = "shadow"
        <4>1. RowsEquivalent(ShadowRows, OptimizedRows) /\ optimizedOut' = Kept(OptimizedRows)
              /\ vectorOut' = Kept(LegacyRows)
          BY <1>2, <3>2 DEF VectorSearch
        <4> QED BY <1>1, <4>1, EqualRowsEqualResults DEF PathsInv
      <3>3. CASE req.mode # "shadow"
        BY <1>2, <3>1, <3>3 DEF VectorSearch
      <3> QED BY <3>2, <3>3
    <2> QED BY <1>1, <2>1, <2>2 DEF ShadowInv, ShadowEqualIsSafe
  <1>3. CASE VectorFails
    BY <1>1, <1>3, ValueAssumption DEF VectorFails, ShadowInv, ShadowEqualIsSafe
  <1>4. CASE UNCHANGED <<vectorOut, shadowEqual, optimizedOut>>
    BY <1>1, <1>4 DEF ShadowInv, ShadowEqualIsSafe
  <1> QED
    BY <1>2, <1>3, <1>4 DEF RetrievalNext, LexicalSearch, LexicalFails, Fuse, Rank, RankFallsBack,
       HybridTail, BrowsePage, BrowseNothing, Hydrate, SearchFails, Change, retrievalVars, found

\* Where the shadow comparison reports equal rows, the optimized query would have given the
\* search the same results (PgVectorCollection.query in its shadow mode).
THEOREM ShadowHolds == RetrievalSpec => []ShadowEqualIsSafe
  <1>1. RetrievalInit => ShadowInv
    BY PathsStart DEF RetrievalInit, ShadowInv, ShadowEqualIsSafe
  <1>2. ShadowInv => ShadowEqualIsSafe
    BY DEF ShadowInv
  <1> QED BY <1>1, <1>2, ShadowNext, PTL DEF RetrievalSpec

\* A sequence names nothing twice.
Distinct(s) == \A i, j \in 1 .. Len(s) : s[i] = s[j] => i = j

\* Parts and other orders of a sequence without repetition have none.
LEMMA AmongDistinct ==
    ASSUME NEW T, NEW s \in Seq(T), NEW S, Distinct(s)
    PROVE  Distinct(Among(s, S))
  <1>1. PICK u, f : u \in Seq(T) /\ u = Among(s, S) /\ Selects(f, u, s, PlacesOf(s, S))
    BY AmongSelects, AmongIn
  <1>2. Len(u) \in Nat /\ DOMAIN s = 1 .. Len(s) /\ Len(s) \in Nat
    OBVIOUS
  <1>3. \A i \in 1 .. Len(u) : f[i] \in 1 .. Len(s) /\ u[i] = s[f[i]]
    BY <1>1, <1>2 DEF Selects, PlacesOf
  <1>4. ASSUME NEW i \in 1 .. Len(u), NEW j \in 1 .. Len(u), u[i] = u[j] PROVE i = j
    <2>1. f[i] = f[j]
      BY <1>3, <1>4 DEF Distinct
    <2>2. ~(i < j) /\ ~(j < i)
      BY <1>1, <1>2, <1>3, <2>1 DEF Selects
    <2> QED BY <1>2, <2>2
  <1> QED BY <1>1, <1>4 DEF Distinct

\* Cut in two, a sequence without repetition has none in its parts, and none between them.
LEMMA TakeDistinct ==
    ASSUME NEW T, NEW s \in Seq(T), NEW n \in Nat, Distinct(s)
    PROVE  /\ Distinct(Take(s, n)) /\ Distinct(Drop(s, n))
           /\ Range(Take(s, n)) \cap Range(Drop(s, n)) = {}
           /\ Range(Take(s, n)) \union Range(Drop(s, n)) = Range(s)
  <1>1. PICK a \in Seq(T) : a = Take(s, n) /\ Len(a) = (IF n < Len(s) THEN n ELSE Len(s))
                            /\ \A i \in 1 .. Len(a) : a[i] = s[i]
    <2>1. Len(s) \in Nat
      OBVIOUS
    <2> QED BY <2>1, TakeIsStart
  <1>2. PICK b \in Seq(T) : b = Drop(s, n) /\ Len(b) = (IF n < Len(s) THEN Len(s) - n ELSE 0)
                            /\ \A i \in 1 .. Len(b) : b[i] = s[n + i]
    BY DropIsEnd
  <1>3. Len(s) \in Nat /\ DOMAIN a = 1 .. Len(a) /\ DOMAIN b = 1 .. Len(b) /\ DOMAIN s = 1 .. Len(s)
    OBVIOUS
  <1>4. \A i \in 1 .. Len(a) : i \in 1 .. Len(s)
    BY <1>1, <1>3
  <1>5. \A i \in 1 .. Len(b) : n + i \in 1 .. Len(s)
    BY <1>2, <1>3
  <1>6. Distinct(a)
    BY <1>1, <1>4 DEF Distinct
  <1>7. Distinct(b)
    <2> SUFFICES ASSUME NEW i \in 1 .. Len(b), NEW j \in 1 .. Len(b), b[i] = b[j] PROVE i = j
      BY DEF Distinct
    <2>1. n + i = n + j
      BY <1>2, <1>5 DEF Distinct
    <2>2. i \in Int /\ j \in Int
      OBVIOUS
    <2> QED BY <2>1, <2>2
  <1>8. Range(a) \cap Range(b) = {}
    <2> SUFFICES ASSUME NEW i \in 1 .. Len(a), NEW j \in 1 .. Len(b), a[i] = b[j] PROVE FALSE
      BY <1>3 DEF Range
    <2>1. i = n + j
      BY <1>1, <1>2, <1>4, <1>5 DEF Distinct
    <2>2. Len(a) \in Nat /\ Len(a) <= n
      BY <1>1, <1>3
    <2>3. i \in Int /\ j \in Int /\ i <= Len(a) /\ j >= 1
      BY <2>2
    <2> QED BY <2>1, <2>2, <2>3
  <1>9. Range(a) \union Range(b) = Range(s)
    <2>1. \A x \in Range(a) : x \in Range(s)
      BY <1>1, <1>3, <1>4 DEF Range
    <2>2. \A x \in Range(b) : x \in Range(s)
      BY <1>2, <1>3, <1>5 DEF Range
    <2>3. ASSUME NEW m \in 1 .. Len(s) PROVE s[m] \in Range(a) \union Range(b)
      <3>1. CASE m <= n
        <4>1. m \in 1 .. Len(a)
          BY <1>1, <1>3, <3>1
        <4> QED BY <1>1, <1>3, <4>1 DEF Range
      <3>2. CASE ~(m <= n)
        <4>1. m - n \in 1 .. Len(b) /\ n + (m - n) = m
          <5>1. m \in Int /\ m <= Len(s) /\ n < m /\ n < Len(s) /\ Len(s) \in Int
            BY <1>3, <3>2
          <5>2. Len(b) = Len(s) - n
            BY <1>2, <5>1
          <5> QED BY <5>1, <5>2
        <4>2. b[m - n] = s[m]
          BY <1>2, <4>1
        <4> QED BY <1>3, <4>1, <4>2 DEF Range
      <3> QED BY <3>1, <3>2
    <2>4. \A x \in Range(s) : x \in Range(a) \union Range(b)
      BY <1>3, <2>3 DEF Range
    <2> QED BY <2>1, <2>2, <2>4
  <1> QED BY <1>1, <1>2, <1>6, <1>7, <1>8, <1>9

\* A reordering uses every place once.
LEMMA ReorderInjective ==
    ASSUME NEW T, NEW s \in Seq(T), NEW u, NEW f, NEW a \in [1 .. Len(s) -> Int],
           NEW b \in [1 .. Len(s) -> Int], Reorders(f, u, s, a, b)
    PROVE  \A i, j \in 1 .. Len(s) : f[i] = f[j] => i = j
  <1>1. Len(s) \in Nat
    OBVIOUS
  <1> SUFFICES ASSUME NEW i \in 1 .. Len(s), NEW j \in 1 .. Len(s), f[i] = f[j], i # j PROVE FALSE
    OBVIOUS
  <1>2. i < j \/ j < i
    BY <1>1
  <1>3. Lex(a, b, Ident(Len(s)), f[i], f[i]) /\ f[i] \in 1 .. Len(s)
    BY <1>2 DEF Reorders
  <1>4. {a[f[i]], b[f[i]], f[i]} \subseteq Int
    BY <1>1, <1>3
  <1> QED BY <1>3, <1>4 DEF Lex, Ident

\* Reordered, a sequence without repetition has none.
LEMMA ReorderedDistinct ==
    ASSUME NEW T, NEW s \in Seq(T), NEW u, NEW f, NEW a \in [1 .. Len(s) -> Int],
           NEW b \in [1 .. Len(s) -> Int], Reorders(f, u, s, a, b), Distinct(s)
    PROVE  Distinct(u)
  <1>1. \A i, j \in 1 .. Len(s) : f[i] = f[j] => i = j
    <2> HIDE DEF Reorders
    <2> QED BY ReorderInjective
  <1>2. Len(u) = Len(s) /\ \A i \in 1 .. Len(s) : f[i] \in 1 .. Len(s) /\ u[i] = s[f[i]]
    BY DEF Reorders
  <1> SUFFICES ASSUME NEW i \in 1 .. Len(s), NEW j \in 1 .. Len(s), u[i] = u[j] PROVE i = j
    BY <1>2 DEF Distinct
  <1>3. f[i] \in 1 .. Len(s) /\ f[j] \in 1 .. Len(s) /\ s[f[i]] = s[f[j]]
    BY <1>2
  <1>4. f[i] = f[j]
    BY <1>3 DEF Distinct
  <1> QED BY <1>1, <1>4

\* Two sequences without repetition that share nothing make one.
LEMMA ConcatDistinct ==
    ASSUME NEW T, NEW s \in Seq(T), NEW t \in Seq(T), Distinct(s), Distinct(t),
           Range(s) \cap Range(t) = {}
    PROVE  Distinct(s \o t)
  <1>1. PICK u : u = s \o t
    OBVIOUS
  <1>2. /\ Len(s) \in Nat /\ Len(t) \in Nat /\ Len(u) = Len(s) + Len(t)
        /\ DOMAIN s = 1 .. Len(s) /\ DOMAIN t = 1 .. Len(t)
        /\ \A i \in 1 .. Len(u) : u[i] = IF i <= Len(s) THEN s[i] ELSE t[i - Len(s)]
    BY <1>1, ConcatProperties
  <1>3. \A i \in 1 .. Len(s), j \in 1 .. Len(t) : s[i] # t[j]
    BY <1>2 DEF Range
  <1>4. ASSUME NEW i \in 1 .. Len(u), NEW j \in 1 .. Len(u), u[i] = u[j] PROVE i = j
    <2>1. CASE i <= Len(s) /\ j <= Len(s)
      BY <1>2, <1>4, <2>1 DEF Distinct
    <2>2. CASE i <= Len(s) /\ ~(j <= Len(s))
      <3>1. i \in 1 .. Len(s) /\ j - Len(s) \in 1 .. Len(t)
        BY <1>2, <2>2
      <3> QED BY <1>2, <1>3, <1>4, <2>2, <3>1
    <2>3. CASE ~(i <= Len(s)) /\ j <= Len(s)
      <3>1. j \in 1 .. Len(s) /\ i - Len(s) \in 1 .. Len(t)
        BY <1>2, <2>3
      <3> QED BY <1>2, <1>3, <1>4, <2>3, <3>1
    <2>4. CASE ~(i <= Len(s)) /\ ~(j <= Len(s))
      <3>1. j - Len(s) \in 1 .. Len(t) /\ i - Len(s) \in 1 .. Len(t)
        BY <1>2, <2>4
      <3>2. i - Len(s) = j - Len(s)
        BY <1>2, <1>4, <2>4, <3>1 DEF Distinct
      <3> QED BY <1>2, <3>2
    <2> QED BY <2>1, <2>2, <2>3, <2>4
  <1> QED BY <1>1, <1>4 DEF Distinct

\* The fusion names a product once, by falling scores.
LEMMA MergedInOrder ==
    ASSUME req \in Requests, NEW S \in SUBSET Products,
           vectorOut \in {Failed} \union Seq(S), lexicalOut \in {Failed} \union Seq(S),
           Distinct(Fetched(vectorOut)), Distinct(Fetched(lexicalOut))
    PROVE  /\ Distinct(Merged)
           /\ \A i, j \in 1 .. Len(Merged) : i < j => Adjusted(Merged[i]) >= Adjusted(Merged[j])
  <1>1. /\ Fetched(vectorOut) \in Seq(S) /\ Fetched(lexicalOut) \in Seq(S)
        /\ HasResults(vectorOut) /\ HasResults(lexicalOut)
    BY FetchedIn
  <1>2. PICK rest : rest = Among(Fetched(lexicalOut), Products \ Range(Fetched(vectorOut)))
    OBVIOUS
  <1>3. rest \in Seq(S) /\ Distinct(rest) /\ Range(rest) \cap Range(Fetched(vectorOut)) = {}
    <2>1. rest \in Seq(S) /\ Distinct(rest)
      BY <1>1, <1>2, AmongIn, AmongDistinct
    <2>2. Range(rest) = Range(Fetched(lexicalOut)) \cap (Products \ Range(Fetched(vectorOut)))
      BY <1>1, <1>2, AmongRange
    <2> QED BY <2>1, <2>2
  <1>4. PICK all : all = Fetched(vectorOut) \o rest
    OBVIOUS
  <1>5. all \in Seq(Products) /\ Distinct(all)
    <2>1. all \in Seq(S)
      BY <1>1, <1>3, <1>4
    <2>2. Distinct(all)
      BY <1>1, <1>3, <1>4, ConcatDistinct
    <2> QED BY <2>1, <2>2, SeqWidens
  <1>6. PICK fused : fused = Ordered(all, LAMBDA p, q : FusionScore(p) > FusionScore(q))
    OBVIOUS
  <1>7. fused \in Seq(Products) /\ Distinct(fused)
    <2> DEFINE a == [i \in 1 .. Len(all) |-> -FusionScore(all[i])]
    <2>1. fused \in Seq(Products) /\ \E f : Reorders(f, fused, all, a, Zeros(Len(all)))
      BY <1>1, <1>5, <1>6, FusionOrders
    <2>2. a \in [1 .. Len(all) -> Int] /\ Zeros(Len(all)) \in [1 .. Len(all) -> Int]
      BY <1>1, FusionScoreIsANumber DEF Zeros
    <2> HIDE DEF a
    <2> QED BY <1>5, <2>1, <2>2, ReorderedDistinct
  <1>8. PICK u : u = Ordered(fused, LAMBDA p, q :
                       FusionScore(p) + req.adjust[p] > FusionScore(q) + req.adjust[q])
    OBVIOUS
  <1>9. Merged = u
    BY <1>2, <1>4, <1>6, <1>8 DEF Merged
  <1> DEFINE a == [i \in 1 .. Len(fused) |-> -(FusionScore(fused[i]) + req.adjust[fused[i]])]
  <1>10. PICK f : u \in Seq(Products) /\ Reorders(f, u, fused, a, Zeros(Len(fused)))
    BY <1>1, <1>7, <1>8, AdjustedOrders
  <1>11. \A p \in Products : Adjusted(p) \in Int
    <2>1. \A p \in Products : FusionScore(p) \in Int /\ req.adjust[p] \in Int
      BY <1>1, FusionScoreIsANumber, DataAssumption
    <2> QED BY <2>1 DEF Adjusted
  <1>12. Len(fused) \in Nat /\ \A i \in 1 .. Len(fused) : fused[i] \in Products
    BY <1>7
  <1>13. \A i \in 1 .. Len(fused) : a[i] = -Adjusted(fused[i]) /\ a[i] \in Int
    BY <1>11, <1>12 DEF Adjusted
  <1>14. a \in [1 .. Len(fused) -> Int] /\ Zeros(Len(fused)) \in [1 .. Len(fused) -> Int]
    BY <1>13 DEF Zeros
  <1> HIDE DEF a
  <1>15. Distinct(u)
    BY <1>7, <1>10, <1>14, ReorderedDistinct
  <1>16. ASSUME NEW i \in 1 .. Len(u), NEW j \in 1 .. Len(u), i < j
         PROVE  Adjusted(u[i]) >= Adjusted(u[j])
    <2>1. /\ f[i] \in 1 .. Len(fused) /\ f[j] \in 1 .. Len(fused)
          /\ u[i] = fused[f[i]] /\ u[j] = fused[f[j]]
          /\ Lex(a, Zeros(Len(fused)), Ident(Len(fused)), f[i], f[j])
      BY <1>10, <1>16 DEF Reorders
    <2>2. a[f[i]] <= a[f[j]]
      BY <1>13, <2>1 DEF Lex, Zeros
    <2>3. a[f[i]] = -Adjusted(u[i]) /\ a[f[j]] = -Adjusted(u[j])
          /\ Adjusted(u[i]) \in Int /\ Adjusted(u[j]) \in Int
      BY <1>11, <1>12, <1>13, <2>1
    <2> QED BY <2>2, <2>3
  <1> QED BY <1>9, <1>15, <1>16

\* A part of a sequence in its order keeps what holds of any earlier and later element.
LEMMA AmongKeepsOrder ==
    ASSUME NEW T, NEW s \in Seq(T), NEW S
    PROVE  \A i, j \in 1 .. Len(Among(s, S)) : i < j =>
             \E m, n \in 1 .. Len(s) : m < n /\ Among(s, S)[i] = s[m] /\ Among(s, S)[j] = s[n]
  <1>1. PICK u, f : u \in Seq(T) /\ u = Among(s, S) /\ Selects(f, u, s, PlacesOf(s, S))
    BY AmongSelects, AmongIn
  <1>2. \A i \in 1 .. Len(u) : f[i] \in 1 .. Len(s) /\ u[i] = s[f[i]]
    BY <1>1 DEF Selects, PlacesOf
  <1> SUFFICES ASSUME NEW i \in 1 .. Len(u), NEW j \in 1 .. Len(u), i < j
               PROVE  \E m, n \in 1 .. Len(s) : m < n /\ u[i] = s[m] /\ u[j] = s[n]
    BY <1>1
  <1>3. f[i] < f[j]
    BY <1>1 DEF Selects
  <1> QED BY <1>2, <1>3

\* The rows of the vector index have each product once.
LEMMA RowsAreDistinct ==
    ASSUME req \in Requests
    PROVE  Distinct(LegacyRows) /\ Distinct(OptimizedRows)
  <1>1. req.near \in Seq(Products) /\ Distinct(req.near)
    BY DataAssumption DEF Distinct, IsInjective
  <1> DEFINE Fine(s) == s \in Seq(Products) /\ Distinct(s)
  <1>2. \A s, S : Fine(s) => Fine(Among(s, S))
    BY AmongIn, AmongDistinct
  <1>3. \A s : \A n \in Nat : Fine(s) => Fine(Take(s, n))
    <2>1. \A s \in Seq(Products) : \A n \in Nat : Take(s, n) \in Seq(Products)
      BY TakeIsStart
    <2>2. \A s \in Seq(Products) : \A n \in Nat : Distinct(s) => Distinct(Take(s, n))
      BY TakeDistinct
    <2> QED BY <2>1, <2>2
  <1>4. Fine(req.near)
    BY <1>1
  <1> HIDE DEF Fine
  <1>5. Fine(Reached) /\ Fine(Nearest)
    BY <1>2, <1>4 DEF Reached, Nearest
  <1>6. Fine(Filtered(Reached)) /\ Fine(Filtered(Nearest))
    BY <1>2, <1>5 DEF Filtered
  <1>7. NResults \in Nat /\ PostFilterWindow \in Nat /\ Largest(NResults, PostFilterWindow) \in Nat
    BY WindowsAreNumbers DEF Largest
  <1>8. Fine(LegacyRows)
    BY <1>3, <1>5, <1>6, <1>7 DEF LegacyRows
  <1>9. Fine(OptimizedRows)
    BY <1>3, <1>5, <1>6, <1>7 DEF OptimizedRows
  <1> QED BY <1>8, <1>9 DEF Fine

\* The rows that a query keeps have each product once.
LEMMA KeptDistinct ==
    ASSUME req \in Requests, NEW rows \in Seq(Products), Distinct(rows)
    PROVE  Distinct(Kept(rows))
  <1>1. PICK s : s = Among(rows, {p \in Products : MetadataMatches(p)})
    OBVIOUS
  <1>2. s \in Seq(Products) /\ Distinct(s)
    BY <1>1, AmongIn, AmongDistinct
  <1>3. Kept(rows) = Take(s, Deep(VECTOR_TOP_K))
    BY <1>1 DEF Kept
  <1> QED BY <1>2, <1>3, TakeDistinct, WindowsAreNumbers

\* Bands begin ever later, and a row that does not begin one is close to its first.
LEMMA BandsGrow ==
    ASSUME NEW T, NEW s \in Seq(T)
    PROVE  /\ \A i, j \in 1 .. Len(s) : i <= j => BandStart(s)[i] <= BandStart(s)[j]
           /\ \A i \in 1 .. Len(s) : BandStart(s)[i] # i =>
                20 * (s[BandStart(s)[i]].score - s[i].score) <= Abs(s[BandStart(s)[i]].score)
  <1>1. Len(s) \in Nat
    OBVIOUS
  <1>2. PICK f : /\ f = BandStart(s) /\ IsBandStart(f, s, Len(s))
                 /\ \A i \in 1 .. Len(s) : f[i] \in 1 .. i
    BY BandsBegin
  <1>3. \A i \in 1 .. Len(s) : f[i] =
          IF i = 1 THEN 1
          ELSE IF 20 * (s[f[i-1]].score - s[i].score) <= Abs(s[f[i-1]].score) THEN f[i-1] ELSE i
    BY <1>2 DEF IsBandStart
  <1>4. ASSUME NEW i \in 1 .. Len(s), f[i] # i
        PROVE  20 * (s[f[i]].score - s[i].score) <= Abs(s[f[i]].score)
    <2>1. i # 1
      BY <1>3, <1>4
    <2>2. f[i] = f[i - 1] /\ 20 * (s[f[i-1]].score - s[i].score) <= Abs(s[f[i-1]].score)
      BY <1>3, <1>4, <2>1
    <2> QED BY <2>2
  <1>5. ASSUME NEW i \in 1 .. Len(s)
        PROVE  \A j \in 1 .. Len(s) : i <= j => f[i] <= f[j]
    <2> DEFINE Bad == {j \in 1 .. Len(s) : i <= j /\ ~(f[i] <= f[j])}
    <2> SUFFICES ASSUME Bad # {} PROVE FALSE
      OBVIOUS
    <2>1. Bad \subseteq Nat
      BY <1>1
    <2>2. PICK j \in Bad : \A m \in Bad : j <= m
      <3> HIDE DEF Bad
      <3> QED BY <2>1, LeastOf
    <2>3. j \in 1 .. Len(s) /\ i <= j /\ ~(f[i] <= f[j])
      OBVIOUS
    <2>4. f[i] \in 1 .. i /\ f[j] \in 1 .. j
      BY <1>2, <2>3
    <2>5. j # i /\ j # 1
      BY <1>1, <2>3, <2>4
    <2>6. j - 1 \in 1 .. Len(s) /\ i <= j - 1 /\ ~(j <= j - 1)
      BY <1>1, <2>3, <2>5
    <2>7. f[i] <= f[j - 1]
      BY <2>2, <2>6
    <2>8. f[j] = f[j - 1] \/ f[j] = j
      BY <1>3, <2>3, <2>5
    <2>9. CASE f[j] = f[j - 1]
      BY <2>3, <2>7, <2>9
    <2>10. CASE f[j] = j
      BY <1>1, <2>3, <2>4, <2>10
    <2> QED BY <2>8, <2>9, <2>10
  <1> QED BY <1>2, <1>4, <1>5

\* What may come before a better score: a verified one within five per cent.
Breaks(x, y) ==
    /\ Row[x.id].verified /\ ~Row[y.id].verified
    /\ 19 * (y.score - x.score) <= Largest(Abs(x.score), Abs(y.score))

\* Two scores of one band, which is five per cent of its best score, are five per cent
\* apart by the larger of the two.
LEMMA BandIsNarrow ==
    ASSUME NEW b \in Int, NEW x \in Int, NEW y \in Int, y <= b, x < y,
           20 * (b - x) <= Abs(b)
    PROVE  19 * (y - x) <= Largest(Abs(x), Abs(y))
  <1>1. CASE b >= 0
    <2>1. Abs(b) = b
      BY <1>1 DEF Abs
    <2>2. 19 * b <= 20 * x
      BY <2>1
    <2>3. x >= 0 /\ Abs(x) = x
      BY <1>1, <2>2 DEF Abs
    <2>4. 19 * (y - x) <= x
      BY <2>2
    <2>5. Largest(Abs(x), Abs(y)) >= x
      BY <2>3 DEF Largest, Abs
    <2> QED BY <2>4, <2>5 DEF Largest, Abs
  <1>2. CASE b < 0
    <2>1. Abs(b) = -b /\ Abs(x) = -x /\ x < 0
      BY <1>2 DEF Abs
    <2>2. 20 * (y - x) <= -b /\ -b <= -y
      BY <2>1
    <2>3. 19 * (y - x) <= -x
      BY <2>2
    <2>4. Largest(Abs(x), Abs(y)) >= -x
      BY <2>1 DEF Largest, Abs
    <2> QED BY <2>3, <2>4 DEF Largest, Abs
  <1> QED BY <1>1, <1>2

\* Of rows by falling scores, VerifiedFirst lets only such a one pass.
LEMMA VerifiedTies ==
    ASSUME NEW S \in SUBSET Products, NEW s \in Seq(ResultsOf(S)),
           \A i, j \in 1 .. Len(s) : i < j => s[i].score >= s[j].score
    PROVE  /\ Len(VerifiedFirst(s)) = Len(s)
           /\ \A i, j \in 1 .. Len(s) :
                i < j /\ VerifiedFirst(s)[i].score < VerifiedFirst(s)[j].score
                  => Breaks(VerifiedFirst(s)[i], VerifiedFirst(s)[j])
  <1> DEFINE key == [i \in 1 .. Len(s) |-> IF Row[s[i].id].verified THEN 0 ELSE 1]
  <1>1. PICK v, f : v = VerifiedFirst(s) /\ Reorders(f, v, s, BandStart(s), key)
    BY VerifiedOrders
  <1>2. Len(v) = Len(s) /\ Len(s) \in Nat
    BY <1>1 DEF Reorders
  <1>3. \A i \in 1 .. Len(s) : s[i].score \in Int /\ s[i].id \in Products
    BY ResultFields
  <1>4. PICK start : start = BandStart(s)
    OBVIOUS
  <1> SUFFICES ASSUME NEW i \in 1 .. Len(s), NEW j \in 1 .. Len(s), i < j, v[i].score < v[j].score
               PROVE  Breaks(v[i], v[j])
    BY <1>1, <1>2
  <1>5. PICK x \in 1 .. Len(s), y \in 1 .. Len(s) :
          x = f[i] /\ y = f[j] /\ v[i] = s[x] /\ v[j] = s[y]
          /\ Lex(start, key, Ident(Len(s)), x, y)
    BY <1>1, <1>4 DEF Reorders
  <1>6. y < x
    <2>1. ~(x < y)
      BY <1>3, <1>5
    <2>2. x # y
      BY <1>3, <1>5
    <2> QED BY <1>2, <2>1, <2>2
  <1>7. /\ start[y] <= start[x] /\ start[x] \in 1 .. x /\ start[y] \in 1 .. y
        /\ (start[x] # x => 20 * (s[start[x]].score - s[x].score) <= Abs(s[start[x]].score))
    <2>1. \A l, m \in 1 .. Len(s) : l <= m => start[l] <= start[m]
      BY <1>4, BandsGrow
    <2>2. \A m \in 1 .. Len(s) : start[m] # m =>
            20 * (s[start[m]].score - s[m].score) <= Abs(s[start[m]].score)
      BY <1>4, BandsGrow
    <2>3. \A m \in 1 .. Len(s) : start[m] \in 1 .. m
      BY <1>4, BandsBegin
    <2>4. y <= x
      BY <1>2, <1>6
    <2> QED BY <2>1, <2>2, <2>3, <2>4
  <1>8. start[x] = start[y] /\ key[x] < key[y]
    BY <1>2, <1>5, <1>6, <1>7 DEF Lex, Ident
  <1>9. Row[s[x].id].verified /\ ~Row[s[y].id].verified
    <2>1. key[x] = (IF Row[s[x].id].verified THEN 0 ELSE 1)
          /\ key[y] = (IF Row[s[y].id].verified THEN 0 ELSE 1)
      OBVIOUS
    <2> HIDE DEF key
    <2> QED BY <1>8, <2>1
  <1>10. start[x] \in 1 .. Len(s) /\ start[x] # x /\ start[x] <= y
    BY <1>2, <1>5, <1>6, <1>7, <1>8
  <1>11. s[y].score <= s[start[x]].score
    <2>1. PICK z \in 1 .. Len(s) : z = start[x] /\ z <= y
      BY <1>10
    <2>2. s[z].score \in Int /\ s[y].score \in Int
      BY <1>3
    <2>3. CASE z = y
      BY <2>1, <2>2, <2>3
    <2>4. CASE z # y
      <3>1. z < y
        BY <1>2, <2>1, <2>4
      <3>2. s[z].score >= s[y].score
        BY <3>1
      <3> QED BY <2>1, <2>2, <3>2
    <2> QED BY <2>3, <2>4
  <1>12. 19 * (s[y].score - s[x].score) <= Largest(Abs(s[x].score), Abs(s[y].score))
    <2>1. s[start[x]].score \in Int /\ s[x].score \in Int /\ s[y].score \in Int
          /\ s[x].score < s[y].score
      BY <1>3, <1>5, <1>10
    <2>2. 20 * (s[start[x]].score - s[x].score) <= Abs(s[start[x]].score)
      BY <1>7, <1>10
    <2> QED BY <1>11, <2>1, <2>2, BandIsNarrow
  <1> QED BY <1>5, <1>9, <1>12 DEF Breaks

\* Each product once.
IdsDistinct(s) == \A i, j \in 1 .. Len(s) : s[i].id = s[j].id => i = j

\* No other row has the title.
OwnTitle(s, x) == \A m \in 1 .. Len(s) : s[m].id # x.id => Row[s[m].id].title # Row[x.id].title

\* The titles put back no row before one with a title of its own.
LEMMA OwnTitlesKeepPlace ==
    ASSUME NEW T, NEW s \in Seq(T), IdsDistinct(s), NEW k \in Nat
    PROVE  LET u == Reshuffled(s, First(s, k))
           IN  \A i, j \in 1 .. Len(u) : i < j /\ OwnTitle(s, u[j]) =>
                 \E m, n \in 1 .. Len(s) : m < n /\ u[i] = s[m] /\ u[j] = s[n]
  <1> DEFINE first == First(s, k)
             key == [i \in 1 .. Len(s) |-> IF i \in first THEN 0 ELSE 1]
  <1>1. PICK u, f : u = Reshuffled(s, first) /\ Reorders(f, u, s, key, Zeros(Len(s)))
    <2> HIDE DEF first
    <2> QED BY TitlesReorder
  <1>2. Len(u) = Len(s) /\ Len(s) \in Nat /\ DOMAIN s = 1 .. Len(s)
    BY <1>1 DEF Reorders
  <1> SUFFICES ASSUME NEW i \in 1 .. Len(s), NEW j \in 1 .. Len(s), i < j, OwnTitle(s, u[j])
               PROVE  \E m, n \in 1 .. Len(s) : m < n /\ u[i] = s[m] /\ u[j] = s[n]
    BY <1>1, <1>2
  <1>3. PICK x \in 1 .. Len(s), y \in 1 .. Len(s) :
          u[i] = s[x] /\ u[j] = s[y] /\ Lex(key, Zeros(Len(s)), Ident(Len(s)), x, y)
    BY <1>1 DEF Reorders
  <1>4. y \in Fresh(s)
    <2>1. \A m \in 1 .. (y - 1) : Row[s[m].id].title # Row[s[y].id].title
      <3> SUFFICES ASSUME NEW m \in 1 .. (y - 1)
                   PROVE  Row[s[m].id].title # Row[s[y].id].title
        OBVIOUS
      <3>1. m \in 1 .. Len(s) /\ m # y
        BY <1>2
      <3>2. s[m].id # s[y].id
        BY <3>1 DEF IdsDistinct
      <3> QED BY <1>3, <3>1, <3>2 DEF OwnTitle
    <2> QED BY <1>2, <2>1 DEF Fresh
  <1>5. ASSUME x \in first, y \notin first PROVE x < y
    <2> DEFINE Below(m) == {l \in Fresh(s) : l < m}
    <2>1. x \in Fresh(s) /\ Cardinality(Below(x)) < k /\ ~(Cardinality(Below(y)) < k)
      BY <1>4, <1>5 DEF First
    <2>2. SUFFICES ASSUME y < x PROVE FALSE
      <3>1. x # y
        BY <1>5
      <3> HIDE DEF first
      <3> QED BY <1>2, <2>2, <3>1
    <2>3. Fresh(s) \subseteq 1 .. Len(s) /\ IsFiniteSet(1 .. Len(s))
      <3>1. Fresh(s) \subseteq 1 .. Len(s)
        BY <1>2 DEF Fresh
      <3>2. IsFiniteSet(1 .. Len(s))
        BY <1>2, FS_Interval
      <3> QED BY <3>1, <3>2
    <2>4. Below(x) \in SUBSET (1 .. Len(s)) /\ Below(y) \in SUBSET Below(x)
      BY <1>2, <2>2, <2>3
    <2>5. PICK P, Q : P = Below(y) /\ Q = Below(x)
      OBVIOUS
    <2>6. IsFiniteSet(Q)
      BY <2>3, <2>4, <2>5, FS_Subset
    <2>7. IsFiniteSet(P) /\ Cardinality(P) <= Cardinality(Q)
      BY <2>4, <2>5, <2>6, FS_Subset
    <2>8. Cardinality(P) \in Nat /\ Cardinality(Q) \in Nat
      BY <2>6, <2>7, FS_CardinalityType
    <2>9. Cardinality(Q) < k /\ ~(Cardinality(P) < k)
      BY <2>1, <2>5
    <2> QED BY <2>7, <2>8, <2>9
  <1>6. key[x] = (IF x \in first THEN 0 ELSE 1) /\ key[y] = (IF y \in first THEN 0 ELSE 1)
    OBVIOUS
  <1>7. x < y
    <2> HIDE DEF key, first
    <2> QED BY <1>3, <1>5, <1>6 DEF Lex, Zeros, Ident
  <1> QED BY <1>3, <1>7

\* What is earlier in u is earlier in s.
InOrder(u, s) ==
    \A i, j \in 1 .. Len(u) : i < j =>
      \E m, n \in 1 .. Len(s) : m < n /\ u[i] = s[m] /\ u[j] = s[n]

\* By falling scores, and with only those inversions that a verified owner justifies.
ByFallingScore(s) == \A i, j \in 1 .. Len(s) : i < j => s[i].score >= s[j].score
OnlyTiesBroken(s) ==
    \A i, j \in 1 .. Len(s) : i < j /\ s[i].score < s[j].score => Breaks(s[i], s[j])

\* The first elements keep their order.
LEMMA TakeKeepsOrder ==
    ASSUME NEW T, NEW s \in Seq(T), NEW n \in Nat
    PROVE  InOrder(Take(s, n), s)
  <1>1. PICK u : u = Take(s, n)
    OBVIOUS
  <1>2. Len(s) \in Nat /\ Len(u) \in Nat /\ Len(u) <= Len(s) /\ \A i \in 1 .. Len(u) : u[i] = s[i]
    <2>1. /\ Take(s, n) \in Seq(T)
          /\ Len(Take(s, n)) = IF n < 0 THEN 0 ELSE IF n < Len(s) THEN n ELSE Len(s)
          /\ \A i \in 1 .. Len(Take(s, n)) : Take(s, n)[i] = s[i]
      BY TakeIsStart
    <2>2. u \in Seq(T) /\ Len(s) \in Nat
      BY <1>1, <2>1
    <2> QED BY <1>1, <2>1, <2>2
  <1>3. \A i \in 1 .. Len(u) : i \in 1 .. Len(s)
    BY <1>2
  <1> QED BY <1>1, <1>2, <1>3 DEF InOrder

\* Another order of results names each product once, as they do.
LEMMA ReorderedIds ==
    ASSUME NEW T, NEW s \in Seq(T), NEW u, NEW f, NEW a \in [1 .. Len(s) -> Int],
           NEW b \in [1 .. Len(s) -> Int], Reorders(f, u, s, a, b), IdsDistinct(s)
    PROVE  IdsDistinct(u)
  <1>1. \A i, j \in 1 .. Len(s) : f[i] = f[j] => i = j
    <2> HIDE DEF Reorders
    <2> QED BY ReorderInjective
  <1>2. Len(u) = Len(s) /\ \A i \in 1 .. Len(s) : f[i] \in 1 .. Len(s) /\ u[i] = s[f[i]]
    BY DEF Reorders
  <1> SUFFICES ASSUME NEW i \in 1 .. Len(s), NEW j \in 1 .. Len(s), u[i].id = u[j].id PROVE i = j
    BY <1>2 DEF IdsDistinct
  <1>3. f[i] \in 1 .. Len(s) /\ f[j] \in 1 .. Len(s) /\ s[f[i]].id = s[f[j]].id
    BY <1>2
  <1>4. f[i] = f[j]
    BY <1>3 DEF IdsDistinct
  <1> QED BY <1>1, <1>4

\* The results by score.
LEMMA SortedByScore ==
    ASSUME NEW S, NEW s \in Seq(ResultsOf(S)), IdsDistinct(s)
    PROVE  ByScore(s) \in Seq(ResultsOf(S)) /\ ByFallingScore(ByScore(s)) /\ IdsDistinct(ByScore(s))
  <1> DEFINE a == [i \in 1 .. Len(s) |-> -(s[i].score)]
  <1>1. PICK u, f : u = ByScore(s) /\ u \in Seq(ResultsOf(S)) /\ Reorders(f, u, s, a, Zeros(Len(s)))
    BY ScoresOrder
  <1>2. \A i \in 1 .. Len(s) : s[i].score \in Int /\ a[i] = -(s[i].score) /\ a[i] \in Int
    BY ResultFields
  <1>3. a \in [1 .. Len(s) -> Int] /\ Zeros(Len(s)) \in [1 .. Len(s) -> Int]
    BY <1>2 DEF Zeros
  <1> HIDE DEF a
  <1>4. IdsDistinct(u)
    BY <1>1, <1>3, ReorderedIds
  <1>5. Len(u) = Len(s)
    BY <1>1 DEF Reorders
  <1>6. ASSUME NEW i \in 1 .. Len(s), NEW j \in 1 .. Len(s), i < j
        PROVE  u[i].score >= u[j].score
    <2>1. /\ f[i] \in 1 .. Len(s) /\ f[j] \in 1 .. Len(s) /\ u[i] = s[f[i]] /\ u[j] = s[f[j]]
          /\ Lex(a, Zeros(Len(s)), Ident(Len(s)), f[i], f[j])
      BY <1>1, <1>6 DEF Reorders
    <2>2. a[f[i]] <= a[f[j]]
      BY <1>2, <2>1 DEF Lex, Zeros
    <2>3. /\ a[f[i]] = -(u[i].score) /\ a[f[j]] = -(u[j].score)
          /\ u[i].score \in Int /\ u[j].score \in Int
      BY <1>2, <2>1
    <2> QED BY <2>2, <2>3
  <1> QED BY <1>1, <1>4, <1>5, <1>6 DEF ByFallingScore

\* Verified owners first within a band.
LEMMA TiesOfVerified ==
    ASSUME NEW S \in SUBSET Products, NEW s \in Seq(ResultsOf(S)), IdsDistinct(s),
           ByFallingScore(s)
    PROVE  /\ VerifiedFirst(s) \in Seq(ResultsOf(S)) /\ IdsDistinct(VerifiedFirst(s))
           /\ OnlyTiesBroken(VerifiedFirst(s))
  <1> DEFINE b == [i \in 1 .. Len(s) |-> IF Row[s[i].id].verified THEN 0 ELSE 1]
  <1>1. PICK u, f : u = VerifiedFirst(s) /\ u \in Seq(ResultsOf(S))
                    /\ Reorders(f, u, s, BandStart(s), b)
    BY VerifiedOrders
  <1>2. BandStart(s) \in [1 .. Len(s) -> Int] /\ b \in [1 .. Len(s) -> Int]
    <2>1. b \in [1 .. Len(s) -> Int]
      OBVIOUS
    <2> HIDE DEF b
    <2> QED BY <2>1, BandsBegin
  <1> HIDE DEF b
  <1>3. IdsDistinct(u)
    BY <1>1, <1>2, ReorderedIds
  <1>4. \A i, j \in 1 .. Len(s) : i < j => s[i].score >= s[j].score
    BY DEF ByFallingScore
  <1>5. Len(u) = Len(s) /\ \A i, j \in 1 .. Len(s) :
          i < j /\ u[i].score < u[j].score => Breaks(u[i], u[j])
    BY <1>1, <1>4, VerifiedTies
  <1> QED BY <1>1, <1>3, <1>5 DEF OnlyTiesBroken

\* What the titles and the floors leave keeps its order, titles of their own at least.
LEMMA DiverseKeepsOrder ==
    ASSUME NEW S, NEW s \in Seq(ResultsOf(S)), IdsDistinct(s), NEW k \in Nat
    PROVE  \A i, j \in 1 .. Len(AboveFloors(Diverse(s, k))) :
             i < j /\ OwnTitle(s, AboveFloors(Diverse(s, k))[j]) =>
               \E m, n \in 1 .. Len(s) :
                 /\ m < n /\ AboveFloors(Diverse(s, k))[i] = s[m]
                 /\ AboveFloors(Diverse(s, k))[j] = s[n]
  <1>1. PICK u : u = Reshuffled(s, First(s, k))
    OBVIOUS
  <1>2. u \in Seq(ResultsOf(S))
    BY <1>1, TitlesReorder
  <1>3. \A i, j \in 1 .. Len(u) : i < j /\ OwnTitle(s, u[j]) =>
          \E m, n \in 1 .. Len(s) : m < n /\ u[i] = s[m] /\ u[j] = s[n]
    BY <1>1, OwnTitlesKeepPlace
  <1>4. PICK v : v = Take(u, k)
    OBVIOUS
  <1>5. v \in Seq(ResultsOf(S)) /\ InOrder(v, u) /\ Diverse(s, k) = v
    BY <1>1, <1>2, <1>4, TakeIsStart, TakeKeepsOrder, DiverseIs
  <1>6. PICK w : w = AboveFloors(v)
    OBVIOUS
  <1>7. ASSUME NEW i \in 1 .. Len(w), NEW j \in 1 .. Len(w), i < j
        PROVE  \E m, n \in 1 .. Len(v) : m < n /\ w[i] = v[m] /\ w[j] = v[n]
    <2>1. CASE w = v
      BY <1>7, <2>1
    <2>2. CASE \E A : w = Among(v, A)
      <3>1. PICK A : w = Among(v, A)
        BY <2>2
      <3>2. \A x, y \in 1 .. Len(w) : x < y =>
              \E m, n \in 1 .. Len(v) : m < n /\ w[x] = v[m] /\ w[y] = v[n]
        <4>1. v \in Seq(ResultsOf(S))
          BY <1>5
        <4>2. \A x, y \in 1 .. Len(Among(v, A)) : x < y =>
                \E m, n \in 1 .. Len(v) :
                  m < n /\ Among(v, A)[x] = v[m] /\ Among(v, A)[y] = v[n]
          BY <4>1, AmongKeepsOrder
        <4> QED BY <3>1, <4>2
      <3> QED BY <1>7, <3>2
    <2> QED BY <1>6, <2>1, <2>2 DEF AboveFloors
  <1>8. ASSUME NEW i \in 1 .. Len(w), NEW j \in 1 .. Len(w), i < j, OwnTitle(s, w[j])
        PROVE  \E m, n \in 1 .. Len(s) : m < n /\ w[i] = s[m] /\ w[j] = s[n]
    <2>1. PICK m \in 1 .. Len(v), n \in 1 .. Len(v) : m < n /\ w[i] = v[m] /\ w[j] = v[n]
      BY <1>7, <1>8
    <2>2. PICK x \in 1 .. Len(u), y \in 1 .. Len(u) : x < y /\ v[m] = u[x] /\ v[n] = u[y]
      BY <1>5, <2>1 DEF InOrder
    <2>3. OwnTitle(s, u[y])
      BY <1>8, <2>1, <2>2
    <2> QED BY <1>3, <2>1, <2>2, <2>3
  <1> QED BY <1>5, <1>6, <1>8

\* The candidates with their scores, each once.
LEMMA ScoredCandidates ==
    ASSUME PathsInv, Distinct(candidates), NEW score, \A p \in Products : score[p] \in Int
    PROVE  /\ WithScores(score) \in Seq(ResultsOf(Range(candidates)))
           /\ IdsDistinct(WithScores(score))
           /\ Range(candidates) \in SUBSET Products
           /\ Len(WithScores(score)) = Len(candidates)
           /\ \A i \in 1 .. Len(candidates) : WithScores(score)[i].id = candidates[i]
                                 /\ WithScores(score)[i].score = score[candidates[i]]
  <1>1. candidates \in Seq(Products) /\ DOMAIN candidates = 1 .. Len(candidates)
    <2>1. candidates \in Seq(Fitting) /\ Fitting \subseteq Products
      BY DEF PathsInv, Fitting
    <2> QED BY <2>1, SeqWidens
  <1>2. \A i \in 1 .. Len(candidates) : candidates[i] \in Range(candidates)
                                         /\ candidates[i] \in Products
    BY <1>1 DEF Range
  <1>3. candidates \in Seq(Range(candidates)) /\ Range(candidates) \in SUBSET Products
    BY <1>1, <1>2 DEF Range
  <1>4. WithScores(score) \in Seq(ResultsOf(Range(candidates)))
        /\ Len(WithScores(score)) = Len(candidates)
    BY <1>3, WithScoresIn
  <1>5. \A i \in 1 .. Len(candidates) : WithScores(score)[i].id = candidates[i]
                                 /\ WithScores(score)[i].score = score[candidates[i]]
    BY <1>1 DEF WithScores
  <1>6. IdsDistinct(WithScores(score))
    BY <1>4, <1>5 DEF IdsDistinct, Distinct
  <1> QED BY <1>3, <1>4, <1>5, <1>6

\* At the reranker, the candidates are by the score of the fusion.
CandidatesSorted ==
    \A i, j \in 1 .. Len(candidates) : i < j => Adjusted(candidates[i]) >= Adjusted(candidates[j])

\* The ranking of the reranker, and the one that is kept when all of them failed.
LEMMA RankBreaksTies ==
    ASSUME PathsInv, Distinct(candidates), Rank
    PROVE  VerifiedOnlyBreaksTies'
  <1> DEFINE k == PrimaryLimit
  <1>1. PICK score \in Scorings :
          ranked' = AboveFloors(Diverse(VerifiedFirst(ByScore(WithScores(score))), PrimaryLimit))
    BY DEF Rank
  <1>2. PICK s : s = WithScores(score)
    OBVIOUS
  <1>3. s \in Seq(ResultsOf(Range(candidates))) /\ IdsDistinct(s)
        /\ Range(candidates) \in SUBSET Products
    BY <1>2, ScoredCandidates, DataAssumption
  <1>4. PICK t : t = VerifiedFirst(ByScore(s))
    OBVIOUS
  <1>5. t \in Seq(ResultsOf(Range(candidates))) /\ IdsDistinct(t) /\ OnlyTiesBroken(t)
    <2>1. ByScore(s) \in Seq(ResultsOf(Range(candidates))) /\ ByFallingScore(ByScore(s))
          /\ IdsDistinct(ByScore(s))
      BY <1>3, SortedByScore
    <2> QED BY <1>3, <1>4, <2>1, TiesOfVerified
  <1>6. PrimaryLimit \in Nat
    BY WindowsAreNumbers DEF PathsInv
  <1>7. PICK r : r = ranked'
    OBVIOUS
  <1>8. r = AboveFloors(Diverse(t, PrimaryLimit))
    BY <1>1, <1>2, <1>4, <1>7
  <1>9. r \in Seq(ResultsOf(Range(candidates)))
    <2>1. Diverse(t, PrimaryLimit) \in Seq(ResultsOf(Range(candidates)))
      BY <1>3, <1>5, <1>6, RankedIn
    <2> QED BY <1>3, <1>6, <1>8, <2>1, RankedIn
  <1>10. DOMAIN r = 1 .. Len(r)
    BY <1>9
  <1>11. candidates' = candidates
    BY DEF Rank
  <1>12. ASSUME NEW i \in 1 .. Len(r), NEW j \in 1 .. Len(r), i < j, r[i].score < r[j].score,
                Row[r[j].id].title \notin {Row[q].title : q \in Range(candidates) \ {r[j].id}}
         PROVE  Breaks(r[i], r[j])
    <2>1. OwnTitle(t, r[j])
      <3>1. \A m \in 1 .. Len(t) : t[m].id \in Range(candidates)
        BY <1>5, ResultFields
      <3> QED BY <1>12, <3>1 DEF OwnTitle
    <2>2. PICK m \in 1 .. Len(t), n \in 1 .. Len(t) : m < n /\ r[i] = t[m] /\ r[j] = t[n]
      BY <1>5, <1>6, <1>8, <1>12, <2>1, DiverseKeepsOrder
    <2> QED BY <1>5, <1>12, <2>2 DEF OnlyTiesBroken
  <1> QED BY <1>7, <1>10, <1>11, <1>12 DEF VerifiedOnlyBreaksTies, Breaks

\* So it is when the reranker fails and the fused order stands in.
LEMMA FallBackBreaksTies ==
    ASSUME PathsInv, Distinct(candidates), CandidatesSorted, RankFallsBack
    PROVE  VerifiedOnlyBreaksTies'
  <1> DEFINE score == [p \in Products |-> FusionScore(p) + req.adjust[p]]
  <1>1. stage = "rank" /\ vectorOut # None /\ lexicalOut # None
    BY DEF RankFallsBack, PathsInv
  <1>2. HasResults(vectorOut) /\ HasResults(lexicalOut)
    <2>1. Suiting \in SUBSET Products
      BY DEF Suiting
    <2> QED BY <1>1, <2>1, FetchedIn DEF PathsInv
  <1>3. \A p \in Products : score[p] \in Int /\ score[p] = Adjusted(p)
    <2>1. \A p \in Products : FusionScore(p) \in Int /\ req.adjust[p] \in Int
      BY <1>2, FusionScoreIsANumber, DataAssumption DEF PathsInv
    <2> QED BY <2>1 DEF Adjusted
  <1>4. ranked' = Take(VerifiedFirst(WithScores(score)), PrimaryLimit)
    BY DEF RankFallsBack
  <1> HIDE DEF score
  <1>5. PICK s : s = WithScores(score)
    OBVIOUS
  <1>6. /\ s \in Seq(ResultsOf(Range(candidates))) /\ IdsDistinct(s)
        /\ Range(candidates) \in SUBSET Products /\ Len(s) = Len(candidates)
        /\ \A i \in 1 .. Len(candidates) : s[i].id = candidates[i]
                                            /\ s[i].score = score[candidates[i]]
    BY <1>3, <1>5, ScoredCandidates
  <1>7. ByFallingScore(s)
    <2>1. \A i \in 1 .. Len(s) : candidates[i] \in Products
      <3>1. \A i \in 1 .. Len(s) : s[i].id \in Range(candidates)
        BY <1>6, ResultFields
      <3> QED BY <1>6, <3>1
    <2>2. \A i \in 1 .. Len(s) : s[i].score = Adjusted(candidates[i])
      BY <1>3, <1>6, <2>1
    <2> QED BY <1>6, <2>2 DEF ByFallingScore, CandidatesSorted
  <1>8. PICK t : t = VerifiedFirst(s)
    OBVIOUS
  <1>9. t \in Seq(ResultsOf(Range(candidates))) /\ OnlyTiesBroken(t)
    BY <1>6, <1>7, <1>8, TiesOfVerified
  <1>10. PICK r : r = ranked'
    OBVIOUS
  <1>11. r = Take(t, PrimaryLimit) /\ PrimaryLimit \in Nat
    BY <1>4, <1>5, <1>8, <1>10, WindowsAreNumbers DEF PathsInv
  <1>12. r \in Seq(ResultsOf(Range(candidates))) /\ InOrder(r, t)
    BY <1>9, <1>11, TakeIsStart, TakeKeepsOrder
  <1>13. DOMAIN r = 1 .. Len(r)
    BY <1>12
  <1>14. ASSUME NEW i \in 1 .. Len(r), NEW j \in 1 .. Len(r), i < j, r[i].score < r[j].score
         PROVE  Breaks(r[i], r[j])
    <2>1. PICK m \in 1 .. Len(t), n \in 1 .. Len(t) : m < n /\ r[i] = t[m] /\ r[j] = t[n]
      BY <1>12, <1>14 DEF InOrder
    <2> QED BY <1>9, <1>14, <2>1 DEF OnlyTiesBroken
  <1> QED BY <1>10, <1>13, <1>14 DEF VerifiedOnlyBreaksTies, Breaks

\* What the searches gave and what was fused of it has each product once.
FusedInv ==
    /\ vectorOut \notin {None, Failed} => Distinct(vectorOut)
    /\ lexicalOut \notin {None, Failed} => Distinct(lexicalOut)
    /\ Distinct(candidates)
    /\ Range(candidates) \cap Range(fusedRest) = {}
    /\ stage = "rank" => CandidatesSorted
    /\ VerifiedOnlyBreaksTies

\* The parts of the tail are filled one after the other, from other products, to the limit.
TailInv ==
    /\ stage \in {"retrieve", "rank"} => ranked = <<>>
    /\ stage \in {"retrieve", "rank", "tail"} =>
         ~req.browseOnly /\ hybrid = <<>> /\ spare = <<>> /\ related = <<>>
    /\ req.browseOnly => ranked = <<>> /\ hybrid = <<>> /\ spare = <<>>
    /\ Range(hybrid) \cap Range(candidates) = {}
    /\ Range(spare) \cap Range(candidates) = {}
    /\ Range(related) \cap Range(candidates) = {}
    /\ req.limit # None => /\ Len(ranked) <= req.limit
                           /\ Len(hybrid) <= TailLimit
                           /\ Len(related) <= CatalogueLimit

\* The inductive invariant of the ranking.
RankingInv == PathsInv /\ FusedInv /\ TailInv /\ PageKeepsTheRanking

\* A step that leaves the searches and the candidates alone keeps their order.
LEMMA SortedStays ==
    ASSUME CandidatesSorted, UNCHANGED <<req, vectorOut, lexicalOut, candidates>>
    PROVE  CandidatesSorted'
  <1>1. \A p : Adjusted(p)' = Adjusted(p)
    BY DEF Adjusted, FusionScore, Share, Fetched, Boosts
  <1> QED BY <1>1 DEF CandidatesSorted

\* The vector search names each product once.
LEMMA VectorIsDistinct == ASSUME RankingInv, VectorSearch \/ VectorFails PROVE FusedInv'
  <1>1. vectorOut' \notin {None, Failed} => Distinct(vectorOut')
    <2>1. \A rows \in Seq(Products) : Distinct(rows) => Distinct(Kept(rows))
      BY KeptDistinct DEF RankingInv, PathsInv
    <2> QED BY <2>1, RowsAreProducts, RowsAreDistinct
                   DEF RankingInv, PathsInv, VectorSearch, VectorFails
  <1>2. stage' = "retrieve" /\ UNCHANGED <<lexicalOut, candidates, fusedRest, ranked>>
    BY DEF VectorSearch, VectorFails
  <1> QED BY <1>1, <1>2 DEF RankingInv, FusedInv, VerifiedOnlyBreaksTies

\* The keyword search names each product once.
LEMMA LexicalIsDistinct == ASSUME RankingInv, LexicalSearch \/ LexicalFails PROVE FusedInv'
  <1>1. lexicalOut' \notin {None, Failed} => Distinct(lexicalOut')
    <2>1. CASE LexicalFails
      BY <2>1 DEF LexicalFails
    <2>2. CASE LexicalSearch
      <3>1. req.words \in Seq(Products) /\ Distinct(req.words)
        BY DataAssumption DEF RankingInv, PathsInv, Distinct, IsInjective
      <3>2. PICK s : s = Among(req.words, {p \in indexed : LexicalMatches(p)})
        OBVIOUS
      <3>3. s \in Seq(Products) /\ Distinct(s)
        BY <3>1, <3>2, AmongIn, AmongDistinct
      <3>4. Distinct(Take(s, Deep(BM25_TOP_K)))
        BY <3>3, TakeDistinct, WindowsAreNumbers DEF RankingInv, PathsInv
      <3> QED BY <2>2, <3>2, <3>4 DEF LexicalSearch
    <2> QED BY <2>1, <2>2
  <1>2. stage' = "retrieve" /\ UNCHANGED <<vectorOut, candidates, fusedRest, ranked>>
    BY DEF LexicalSearch, LexicalFails
  <1> QED BY <1>1, <1>2 DEF RankingInv, FusedInv, VerifiedOnlyBreaksTies

\* The window of the reranker is the start of the fused results.
LEMMA FuseInOrder == ASSUME RankingInv, Fuse PROVE FusedInv'
  <1>1. req \in Requests /\ HybridTopK \in Nat /\ Suiting \in SUBSET Products
    BY WindowsAreNumbers DEF RankingInv, PathsInv, Suiting
  <1>2. vectorOut \in {Failed} \union Seq(Suiting) /\ lexicalOut \in {Failed} \union Seq(Suiting)
    BY DEF RankingInv, PathsInv, Fuse
  <1>3. Distinct(Fetched(vectorOut)) /\ Distinct(Fetched(lexicalOut))
    <2>1. Distinct(<<>>)
      BY DEF Distinct
    <2> QED BY <2>1 DEF Fetched, RankingInv, FusedInv, Fuse
  <1>4. PICK m : m = Merged
    OBVIOUS
  <1>5. /\ m \in Seq(Products) /\ Distinct(m)
        /\ \A i, j \in 1 .. Len(m) : i < j => Adjusted(m[i]) >= Adjusted(m[j])
    <2>1. Merged \in Seq(Suiting)
      BY <1>1, <1>2, MergedIn
    <2>2. Distinct(Merged)
          /\ \A i, j \in 1 .. Len(Merged) : i < j => Adjusted(Merged[i]) >= Adjusted(Merged[j])
      BY <1>1, <1>2, <1>3, MergedInOrder
    <2> QED BY <1>1, <1>4, <2>1, <2>2, SeqWidens
  <1>6. PICK e : e = Among(m, {p \in Products : TypeFits(p)})
    OBVIOUS
  <1>7. e \in Seq(Products) /\ Distinct(e)
    BY <1>5, <1>6, AmongIn, AmongDistinct
  <1>8. \A i, j \in 1 .. Len(e) : i < j => Adjusted(e[i]) >= Adjusted(e[j])
    <2>1. \A i, j \in 1 .. Len(e) : i < j =>
            \E x, y \in 1 .. Len(m) : x < y /\ e[i] = m[x] /\ e[j] = m[y]
      <3>1. m \in Seq(Products)
        BY <1>5
      <3> DEFINE A == {p \in Products : TypeFits(p)}
      <3> HIDE DEF A
      <3>2. \A i, j \in 1 .. Len(Among(m, A)) : i < j =>
              \E x, y \in 1 .. Len(m) :
                x < y /\ Among(m, A)[i] = m[x] /\ Among(m, A)[j] = m[y]
        BY <3>1, AmongKeepsOrder
      <3>3. e = Among(m, A)
        BY <1>6 DEF A
      <3> QED BY <3>2, <3>3
    <2> QED BY <1>5, <2>1
  <1>9. candidates' = Take(e, HybridTopK) /\ fusedRest' = Drop(e, HybridTopK)
    BY <1>4, <1>6 DEF Fuse
  <1>10. /\ Distinct(candidates') /\ Range(candidates') \cap Range(fusedRest') = {}
    BY <1>1, <1>7, <1>9, TakeDistinct
  <1>11. PICK c : c = candidates'
    OBVIOUS
  <1>12. \A i, j \in 1 .. Len(c) : i < j => Adjusted(c[i]) >= Adjusted(c[j])
    <2>1. InOrder(c, e)
      BY <1>1, <1>7, <1>9, <1>11, TakeKeepsOrder
    <2> QED BY <1>8, <2>1 DEF InOrder
  <1>13. UNCHANGED <<req, vectorOut, lexicalOut, ranked>> /\ ranked = <<>>
    BY DEF Fuse, found, RankingInv, TailInv
  <1>14. CandidatesSorted'
    <2>1. \A p : Adjusted(p)' = Adjusted(p)
      BY <1>13 DEF Adjusted, FusionScore, Share, Fetched, Boosts
    <2> QED BY <1>11, <1>12, <2>1 DEF CandidatesSorted
  <1>15. VerifiedOnlyBreaksTies'
    BY <1>13 DEF VerifiedOnlyBreaksTies
  <1> QED BY <1>10, <1>13, <1>14, <1>15 DEF RankingInv, FusedInv

\* Ranking leaves the candidates in their order.
LEMMA RankInOrder == ASSUME RankingInv, Rank \/ RankFallsBack PROVE FusedInv'
  <1>1. VerifiedOnlyBreaksTies'
    <2>1. stage = "rank"
      BY DEF Rank, RankFallsBack
    <2> QED BY <2>1, RankBreaksTies, FallBackBreaksTies DEF RankingInv, FusedInv
  <1>2. stage' # "rank" /\ UNCHANGED <<vectorOut, lexicalOut, candidates, fusedRest>>
    BY DEF Rank, RankFallsBack, found
  <1> QED BY <1>1, <1>2 DEF RankingInv, FusedInv

\* Every step of a search keeps the order of the fused results.
LEMMA FusedNext == ASSUME RankingInv, [RetrievalNext]_retrievalVars PROVE FusedInv'
  <1>1. CASE HybridTail \/ BrowsePage \/ BrowseNothing \/ Hydrate \/ SearchFails \/ Change
             \/ UNCHANGED retrievalVars
    <2>1. UNCHANGED <<req, vectorOut, lexicalOut, candidates, fusedRest, ranked>>
          /\ (stage' = "rank" => stage = "rank")
      BY <1>1 DEF HybridTail, BrowsePage, BrowseNothing, Hydrate, SearchFails, Change, found,
                  retrievalVars
    <2>2. stage' = "rank" => CandidatesSorted'
      BY <2>1, SortedStays DEF RankingInv, FusedInv
    <2> QED BY <2>1, <2>2 DEF RankingInv, FusedInv, VerifiedOnlyBreaksTies
  <1> QED
    BY <1>1, VectorIsDistinct, LexicalIsDistinct, FuseInOrder, RankInOrder DEF RetrievalNext

\* The ranking never exceeds the limit.
LEMMA PrimaryWithinLimit ==
    ASSUME req \in Requests, req.limit # None
    PROVE  PrimaryLimit <= req.limit
  <1>1. req.limit \in Nat /\ req.window \in Nat \union {None} /\ PRIMARY_RANKED_K \in Nat
    BY DataAssumption, WindowAssumption
  <1> QED BY <1>1 DEF PrimaryLimit, Least

\* What is taken is no longer than it should be.
LEMMA TakeIsShort ==
    ASSUME NEW T, NEW s \in Seq(T), NEW n \in Nat
    PROVE  Len(Take(s, n)) <= n /\ Len(Take(s, n)) <= Len(s)
  <1>1. Len(s) \in Nat
    OBVIOUS
  <1> QED BY <1>1, TakeIsStart

\* A part of a sequence is no longer than the sequence.
LEMMA AmongIsShort ==
    ASSUME NEW T, NEW s \in Seq(T), NEW A
    PROVE  Len(Among(s, A)) <= Len(s)
  BY AmongSelects

\* What is ranked is cut to the page.
LEMMA RankIsShort ==
    ASSUME PathsInv, Rank \/ RankFallsBack
    PROVE  Len(ranked') <= PrimaryLimit
  <1>1. Fitting \in SUBSET Products /\ PrimaryLimit \in Nat /\ candidates \in Seq(Fitting)
    BY WindowsAreNumbers DEF PathsInv, Fitting
  <1>2. CASE Rank
    <2>1. PICK score \in Scorings :
            ranked' = AboveFloors(Diverse(VerifiedFirst(ByScore(WithScores(score))), PrimaryLimit))
      BY <1>2 DEF Rank
    <2>2. WithScores(score) \in Seq(ResultsOf(Fitting))
      BY <1>1, WithScoresIn, DataAssumption
    <2>3. PICK t : t = VerifiedFirst(ByScore(WithScores(score)))
      OBVIOUS
    <2>4. t \in Seq(ResultsOf(Fitting))
      <3>1. ByScore(WithScores(score)) \in Seq(ResultsOf(Fitting))
        BY <1>1, <2>2, RankedIn
      <3> QED BY <1>1, <2>3, <3>1, RankedIn
    <2>5. PICK u : u = Reshuffled(t, First(t, PrimaryLimit))
      OBVIOUS
    <2>6. u \in Seq(ResultsOf(Fitting))
      BY <2>4, <2>5, TitlesReorder
    <2>7. PICK v : v = Diverse(t, PrimaryLimit)
      OBVIOUS
    <2>8. v \in Seq(ResultsOf(Fitting)) /\ Len(v) <= PrimaryLimit
      <3>1. v = Take(u, PrimaryLimit)
        BY <2>5, <2>7, DiverseIs
      <3> QED BY <1>1, <2>6, <3>1, TakeIsStart, TakeIsShort
    <2>9. PICK w : w = AboveFloors(v)
      OBVIOUS
    <2>10. w \in Seq(ResultsOf(Fitting)) /\ Len(w) <= Len(v)
      <3>1. w \in Seq(ResultsOf(Fitting))
        BY <1>1, <2>8, <2>9, RankedIn
      <3>2. Len(v) \in Nat
        BY <2>8
      <3>3. w = v \/ \E A : w = Among(v, A)
        BY <2>9 DEF AboveFloors
      <3>4. \A A : Len(Among(v, A)) <= Len(v)
        BY <2>8, AmongIsShort
      <3> QED BY <3>1, <3>2, <3>3, <3>4
    <2>11. Len(v) \in Nat /\ Len(w) \in Nat
      BY <2>8, <2>10
    <2>12. ranked' = w
      BY <2>1, <2>3, <2>7, <2>9
    <2> QED BY <1>1, <2>8, <2>10, <2>11, <2>12
  <1>3. CASE RankFallsBack
    <2> DEFINE score == [p \in Products |-> FusionScore(p) + req.adjust[p]]
    <2>1. HasResults(vectorOut) /\ HasResults(lexicalOut)
      <3>1. vectorOut \in {Failed} \union Seq(Suiting)
                /\ lexicalOut \in {Failed} \union Seq(Suiting)
        BY <1>3 DEF RankFallsBack, PathsInv
      <3> QED BY <3>1, FetchedIn DEF Suiting
    <2>2. \A p \in Fitting : score[p] \in Int
      BY <1>1, <2>1, FusionScoreIsANumber, DataAssumption DEF PathsInv
    <2>3. ranked' = Take(VerifiedFirst(WithScores(score)), PrimaryLimit)
      BY <1>3 DEF RankFallsBack
    <2> HIDE DEF score
    <2>4. WithScores(score) \in Seq(ResultsOf(Fitting))
      BY <1>1, <2>2, WithScoresIn
    <2>5. VerifiedFirst(WithScores(score)) \in Seq(ResultsOf(Fitting))
      BY <1>1, <2>4, RankedIn
    <2> QED BY <1>1, <2>3, <2>5, TakeIsShort
  <1> QED BY <1>2, <1>3

\* Ranking leaves the tail room for no more than the rest of the page.
LEMMA RankFillsTail == ASSUME RankingInv, Rank \/ RankFallsBack PROVE TailInv'
  <1>1. Len(ranked') <= PrimaryLimit /\ PrimaryLimit \in Nat /\ req \in Requests
    BY RankIsShort, WindowsAreNumbers DEF RankingInv, PathsInv
  <1>2. PathsInv'
    BY PathsNext DEF RankingInv, RetrievalNext
  <1>3. Len(ranked') \in Nat /\ TailLimit' \in Nat
    <2>1. Len(ranked') \in Nat
      BY <1>2 DEF PathsInv
    <2>2. req' \in Requests /\ req' = req
      BY <1>2 DEF Rank, RankFallsBack, PathsInv
    <2>3. req.limit \in Nat \union {None} /\ None \notin Int
      BY <1>1, DataAssumption, ValueAssumption
    <2> QED BY <2>1, <2>2, <2>3 DEF TailLimit, Largest
  <1>4. /\ stage = "rank" /\ stage' = "tail"
        /\ UNCHANGED <<req, candidates, hybrid, spare, related>>
    BY DEF Rank, RankFallsBack, tail
  <1>5. ~req.browseOnly /\ hybrid = <<>> /\ spare = <<>> /\ related = <<>>
    BY <1>4 DEF RankingInv, TailInv
  <1>6. req.limit # None => Len(ranked') <= req.limit
    <2> SUFFICES ASSUME req.limit # None PROVE Len(ranked') <= req.limit
      OBVIOUS
    <2>1. req.limit \in Nat /\ PrimaryLimit <= req.limit
      BY <1>1, PrimaryWithinLimit, DataAssumption
    <2> QED BY <1>1, <1>3, <2>1
  <1>7. Len(<<>>) = 0 /\ Range(<<>>) = {}
    BY DEF Range
  <1>8. CatalogueLimit' = TailLimit'
    <2>1. CatalogueLimit' = TailLimit' - Len(hybrid')
      BY <1>4, <1>5 DEF CatalogueLimit
    <2>2. hybrid' = <<>>
      BY <1>4, <1>5
    <2>3. PICK n, h : n = TailLimit' /\ h = hybrid'
      OBVIOUS
    <2>4. Len(h) = 0
      BY <2>2, <2>3
    <2>5. n \in Nat /\ CatalogueLimit' = n - Len(h)
      BY <1>3, <2>1, <2>3
    <2>6. n - Len(h) = n
      BY <2>4, <2>5
    <2> QED BY <2>3, <2>5, <2>6
  <1> QED BY <1>3, <1>4, <1>5, <1>6, <1>7, <1>8 DEF TailInv

\* The fused rest fills the tail up to its room, with what was no candidate.
LEMMA HybridFillsTail == ASSUME RankingInv, HybridTail PROVE TailInv'
  <1> DEFINE a == AnchorFrom(IF ranked = <<>> THEN None ELSE ranked[1].id)
             rest == Among(fusedRest, Products \ Range(Primary))
             keeping == {p \in Products : HasAnchor(a) /\ MatchesAnchor(p, a)}
             near == Among(rest, keeping)
             far == Among(rest, Products \ keeping)
  <1>1. /\ IF TailAllowed /\ TailLimit > 0
           THEN /\ hybrid' = Take(IF HasAnchor(a) THEN near ELSE far, TailLimit)
                /\ spare' = IF HasAnchor(a) THEN far ELSE <<>>
           ELSE UNCHANGED <<hybrid, spare>>
        /\ stage' \in {"catalogue", "hydrate"} /\ stage = "tail"
        /\ UNCHANGED <<req, candidates, fusedRest, ranked, related>>
    BY DEF HybridTail
  <1>2. TailLimit \in Nat /\ fusedRest \in Seq(Fitting) /\ None \notin Int
        /\ req.limit \in Nat \union {None}
    BY TailLimitIsANumber, DataAssumption, ValueAssumption DEF RankingInv, PathsInv
  <1>3. ~req.browseOnly /\ hybrid = <<>> /\ spare = <<>> /\ related = <<>>
    BY <1>1 DEF RankingInv, TailInv
  <1>4. rest \in Seq(Fitting) /\ Range(rest) \subseteq Range(fusedRest)
    BY <1>2, AmongIn, AmongRange
  <1>5. /\ near \in Seq(Fitting) /\ far \in Seq(Fitting)
        /\ Range(near) \subseteq Range(fusedRest) /\ Range(far) \subseteq Range(fusedRest)
    <2> HIDE DEF rest, keeping
    <2> QED BY <1>4, AmongIn, AmongRange
  <1> HIDE DEF a, near, far
  <1>6. Len(<<>>) = 0 /\ Range(<<>>) = {}
    BY DEF Range
  <1>7. /\ Range(hybrid') \subseteq Range(fusedRest) /\ Range(spare') \subseteq Range(fusedRest)
        /\ hybrid' \in Seq(Fitting) /\ Len(hybrid') <= TailLimit
    <2>1. \A s \in Seq(Fitting) : /\ Take(s, TailLimit) \in Seq(Fitting)
                                  /\ Len(Take(s, TailLimit)) <= TailLimit
                                  /\ Range(Take(s, TailLimit)) \subseteq Range(s)
      <3> SUFFICES ASSUME NEW s \in Seq(Fitting)
                   PROVE  /\ Take(s, TailLimit) \in Seq(Fitting)
                          /\ Len(Take(s, TailLimit)) <= TailLimit
                          /\ Range(Take(s, TailLimit)) \subseteq Range(s)
        OBVIOUS
      <3>1. PICK u : u = Take(s, TailLimit)
        OBVIOUS
      <3>2. /\ u \in Seq(Fitting) /\ Len(u) <= TailLimit /\ Len(u) <= Len(s)
            /\ \A i \in 1 .. Len(u) : u[i] = s[i]
        BY <1>2, <3>1, TakeIsStart, TakeIsShort
      <3>3. DOMAIN u = 1 .. Len(u) /\ DOMAIN s = 1 .. Len(s) /\ Len(s) \in Nat /\ Len(u) \in Nat
        BY <3>2
      <3>4. \A i \in 1 .. Len(u) : i \in 1 .. Len(s)
        BY <3>2, <3>3
      <3> QED BY <3>1, <3>2, <3>3, <3>4 DEF Range
    <2>2. <<>> \in Seq(Fitting)
      OBVIOUS
    <2>3. CASE TailAllowed /\ TailLimit > 0 /\ HasAnchor(a)
      BY <1>1, <1>5, <2>1, <2>3
    <2>4. CASE TailAllowed /\ TailLimit > 0 /\ ~HasAnchor(a)
      BY <1>1, <1>5, <1>6, <2>1, <2>4
    <2>5. CASE ~(TailAllowed /\ TailLimit > 0)
      <3>1. hybrid' = <<>> /\ spare' = <<>>
        <4>1. UNCHANGED <<hybrid, spare>>
          BY <1>1, <2>5
        <4> QED BY <1>3, <4>1
      <3>2. 0 <= TailLimit
        BY <1>2
      <3> QED BY <1>6, <2>2, <3>1, <3>2
    <2> QED BY <2>3, <2>4, <2>5
  <1>8. Range(fusedRest) \cap Range(candidates) = {}
    BY DEF RankingInv, FusedInv
  <1>9. TailLimit' = TailLimit
    BY <1>1 DEF TailLimit
  <1>10. Len(hybrid') \in Nat /\ CatalogueLimit' = TailLimit - Len(hybrid')
    BY <1>1, <1>3, <1>7, <1>9 DEF CatalogueLimit
  <1>11. 0 <= TailLimit - Len(hybrid')
    BY <1>2, <1>7, <1>10
  <1>12. req.limit # None => Len(ranked) <= req.limit
    BY DEF RankingInv, TailInv
  <1> QED BY <1>1, <1>3, <1>6, <1>7, <1>8, <1>9, <1>10, <1>11, <1>12 DEF TailInv

\* So do the pages of the keyword index.
LEMMA BrowseFillsTail == ASSUME RankingInv, BrowsePage PROVE TailInv'
  <1> DEFINE rows == Take(Drop(Listed(InCatalogue, BrowsedBefore), offset), PAGE_SIZE)
             fresh == Among(rows, {p \in Products \ Range(related) : TypeFits(p)})
  <1>1. /\ related' = Take(related \o fresh, CatalogueLimit)
        /\ stage' \in {"hydrate", "catalogue"}
        /\ UNCHANGED <<req, candidates, fusedRest, ranked, hybrid, spare>>
    BY DEF BrowsePage
  <1>2. InCatalogue \in SUBSET Products /\ InCatalogue \cap Range(candidates) = {}
    BY DEF InCatalogue, Excluded, RankingInv, PathsInv
  <1>3. PICK all : all = Listed(InCatalogue, BrowsedBefore)
    OBVIOUS
  <1>4. all \in Seq(InCatalogue)
    BY <1>2, <1>3, Browsed
  <1>5. Drop(all, offset) \in Seq(InCatalogue)
    BY <1>4, DropIsEnd DEF RankingInv, PathsInv
  <1>6. rows \in Seq(InCatalogue)
    <2>1. Take(Drop(all, offset), PAGE_SIZE) \in Seq(InCatalogue)
      BY <1>5, TakeIsStart, RetrievalAssumption
    <2>2. rows = Take(Drop(all, offset), PAGE_SIZE)
      BY <1>3
    <2> HIDE DEF rows
    <2> QED BY <2>1, <2>2
  <1>7. fresh \in Seq(InCatalogue)
    <2> HIDE DEF rows
    <2> QED BY <1>6, AmongIn
  <1> HIDE DEF rows, fresh
  <1> DEFINE Others == Products \ Range(candidates)
  <1>8. related \in Seq(Others)
    <2>1. related \in Seq(Products) /\ DOMAIN related = 1 .. Len(related)
      <3>1. related \in Seq(Fitting) /\ Fitting \subseteq Products
        BY DEF RankingInv, PathsInv, Fitting
      <3> QED BY <3>1, SeqWidens
    <2>2. \A i \in 1 .. Len(related) : related[i] \in Products
              /\ related[i] \notin Range(candidates)
      BY <2>1 DEF RankingInv, TailInv, Range
    <2> QED BY <2>1, <2>2
  <1>9. fresh \in Seq(Others)
    <2>1. InCatalogue \subseteq Others
      BY <1>2
    <2> HIDE DEF Others
    <2> QED BY <1>7, <2>1, SeqWidens
  <1>10. CatalogueLimit \in Int
    BY CatalogueLimitIsANumber DEF RankingInv
  <1>11. PICK u : u = related \o fresh
    OBVIOUS
  <1> HIDE DEF Others
  <1>12. u \in Seq(Others) /\ Len(u) \in Nat
    BY <1>8, <1>9, <1>11
  <1>13. related' \in Seq(Others)
         /\ Len(related') = IF CatalogueLimit < 0 THEN 0
                            ELSE IF CatalogueLimit < Len(u) THEN CatalogueLimit ELSE Len(u)
    BY <1>1, <1>10, <1>11, <1>12, TakeIsStart
  <1>14. Range(related') \cap Range(candidates) = {}
    <2>1. \A i \in DOMAIN related' : related'[i] \in Others
      BY <1>13
    <2> QED BY <2>1 DEF Range, Others
  <1>15. TailLimit' = TailLimit /\ CatalogueLimit' = CatalogueLimit
    BY <1>1 DEF TailLimit, CatalogueLimit
  <1>16. req.limit # None => Len(related') <= CatalogueLimit
    <2> SUFFICES ASSUME req.limit # None PROVE CatalogueLimit >= 0
      BY <1>10, <1>12, <1>13
    <2>1. Len(related) <= CatalogueLimit /\ Len(related) \in Nat
      BY DEF RankingInv, TailInv, PathsInv
    <2> QED BY <1>10, <2>1
  <1> QED BY <1>1, <1>14, <1>15, <1>16 DEF RankingInv, TailInv

\* Every step of a search keeps its tail apart from what is ranked, and within the page.
LEMMA TailNext == ASSUME RankingInv, [RetrievalNext]_retrievalVars PROVE TailInv'
  <1>1. CASE Fuse
    <2>1. /\ stage = "retrieve" /\ stage' = "rank"
          /\ UNCHANGED <<req, ranked, hybrid, spare, related>>
      BY <1>1 DEF Fuse, tail
    <2>2. hybrid = <<>> /\ spare = <<>> /\ related = <<>>
      BY <2>1 DEF RankingInv, TailInv
    <2>3. Range(<<>>) = {}
      BY DEF Range
    <2>4. TailLimit' = TailLimit /\ CatalogueLimit' = CatalogueLimit
      BY <2>1 DEF TailLimit, CatalogueLimit
    <2> QED BY <2>1, <2>2, <2>3, <2>4 DEF RankingInv, TailInv
  <1>2. CASE VectorSearch \/ VectorFails \/ LexicalSearch \/ LexicalFails \/ BrowseNothing
             \/ Hydrate \/ SearchFails \/ Change \/ UNCHANGED retrievalVars
    <2>1. /\ UNCHANGED <<req, candidates, ranked, hybrid, spare, related>>
          /\ stage' = stage \/ stage' \in {"hydrate", "served", "failed"}
      BY <1>2 DEF VectorSearch, VectorFails, LexicalSearch, LexicalFails, BrowseNothing, Hydrate,
                  SearchFails, Change, tail, found, retrievalVars
    <2>2. TailLimit' = TailLimit /\ CatalogueLimit' = CatalogueLimit
      BY <2>1 DEF TailLimit, CatalogueLimit
    <2> QED BY <2>1, <2>2 DEF RankingInv, TailInv
  <1> QED
    BY <1>1, <1>2, RankFillsTail, HybridFillsTail, BrowseFillsTail DEF RetrievalNext

\* The products of the page as they are put together, and where in it a product comes from.
Together == Primary \o hybrid \o RelatedAndSpare
Shows(g, ids, s) ==
    /\ g \in [1 .. Len(ids) -> 1 .. Len(s)]
    /\ \A i \in 1 .. Len(ids) : ids[i] = s[g[i]] /\ \A j \in 1 .. (g[i] - 1) : s[j] # s[g[i]]
    /\ \A i, j \in 1 .. Len(ids) : i < j => g[i] < g[j]

\* The first places of the elements that are still there, in their order.
LEMMA FirstOfShows ==
    ASSUME NEW T, NEW s \in Seq(T), NEW S
    PROVE  /\ Among(FirstOf(s), S) \in Seq(T)
           /\ Len(Among(FirstOf(s), S)) <= Len(s)
           /\ \E g : Shows(g, Among(FirstOf(s), S), s)
  <1> DEFINE F == {i \in DOMAIN s : \A j \in 1..(i-1) : s[j] # s[i]}
  <1>1. Len(s) \in Nat /\ DOMAIN s = 1 .. Len(s) /\ F \in SUBSET (1 .. Len(s))
    OBVIOUS
  <1>2. \A i \in F : \A j \in 1..(i-1) : s[j] # s[i]
    OBVIOUS
  <1>3. FirstOf(s) = Picked(s, F)
    BY DEF FirstOf
  <1> HIDE DEF F
  <1>4. PICK u, f : /\ u \in Seq(T)
                    /\ u = FirstOf(s) /\ Len(u) = Cardinality(F)
                    /\ Selects(f, u, s, F)
    BY <1>1, <1>3, PickedSelects
  <1>5. PICK w, h : /\ w \in Seq(T)
                    /\ w = Among(u, S) /\ Len(w) <= Len(u)
                    /\ Selects(h, w, u, PlacesOf(u, S))
    <2>1. u \in Seq(T)
      BY <1>4
    <2>2. /\ Among(u, S) \in Seq(T) /\ Len(Among(u, S)) <= Len(u)
          /\ \E h : Selects(h, Among(u, S), u, PlacesOf(u, S))
      BY <2>1, AmongSelects, AmongIn
    <2> QED BY <2>2
  <1>6. /\ Len(u) \in Nat /\ Len(w) \in Nat /\ DOMAIN u = 1 .. Len(u)
    OBVIOUS
  <1>7. Len(u) <= Len(s)
    <2>1. IsFiniteSet(1 .. Len(s)) /\ Cardinality(1 .. Len(s)) = Len(s)
      BY <1>1, LengthIsCardinality
    <2> QED BY <1>1, <1>4, <2>1, FS_Subset
  <1> DEFINE g == [i \in 1 .. Len(w) |-> f[h[i]]]
  <1>8. ASSUME NEW i \in 1 .. Len(w)
        PROVE  /\ h[i] \in 1 .. Len(u) /\ w[i] = u[h[i]]
               /\ g[i] \in F /\ w[i] = s[g[i]]
    <2>1. h[i] \in 1 .. Len(u) /\ w[i] = u[h[i]]
      BY <1>5, <1>6 DEF Selects, PlacesOf
    <2>2. f[h[i]] \in F /\ u[h[i]] = s[f[h[i]]]
      BY <1>4, <2>1 DEF Selects
    <2> QED BY <2>1, <2>2
  <1>9. \A i, j \in 1 .. Len(w) : i < j => g[i] < g[j]
    <2> SUFFICES ASSUME NEW i \in 1 .. Len(w), NEW j \in 1 .. Len(w), i < j PROVE g[i] < g[j]
      OBVIOUS
    <2>1. h[i] < h[j] /\ h[i] \in 1 .. Len(u) /\ h[j] \in 1 .. Len(u)
      BY <1>5, <1>8 DEF Selects
    <2> QED BY <1>4, <2>1 DEF Selects
  <1>10. g \in [1 .. Len(w) -> 1 .. Len(s)]
    BY <1>1, <1>8
  <1> HIDE DEF g
  <1>11. Shows(g, w, s)
    BY <1>2, <1>8, <1>9, <1>10 DEF Shows
  <1>12. Len(w) <= Len(s)
    BY <1>1, <1>5, <1>6, <1>7
  <1> QED BY <1>4, <1>5, <1>11, <1>12

\* The parts of what is put together.
LEMMA TogetherIs ==
    ASSUME PathsInv
    PROVE  /\ Primary \in Seq(Fitting) /\ Len(Primary) = Len(ranked) /\ Together \in Seq(Fitting)
           /\ \A x \in 1 .. Len(Together) :
                /\ x <= Len(Primary) => Together[x] = Primary[x]
                /\ x > Len(Primary) =>
                     Together[x] \in Range(hybrid) \union Range(related) \union Range(spare)
           /\ Len(Together) = Len(Primary) + Len(hybrid) + Len(related)
                + Len(Take(spare, Largest(TailLimit - Len(hybrid) - Len(related), 0)))
  <1>1. Len(ranked) \in Nat /\ DOMAIN ranked = 1 .. Len(ranked)
        /\ \A i \in 1 .. Len(ranked) : ranked[i].id \in Fitting
    <2>1. ranked \in Seq(ResultsOf(Fitting))
      BY DEF PathsInv
    <2> QED BY <2>1, ResultFields
  <1>2. Primary \in Seq(Fitting) /\ Len(Primary) = Len(ranked)
    BY <1>1 DEF Primary
  <1>3. Largest(TailLimit - Len(hybrid) - Len(related), 0) \in Nat
    <2>1. TailLimit \in Int /\ Len(hybrid) \in Int /\ Len(related) \in Int
      BY TailLimitIsANumber DEF PathsInv
    <2> QED BY <2>1 DEF Largest
  <1>4. PICK n \in Nat : n = Largest(TailLimit - Len(hybrid) - Len(related), 0)
    BY <1>3
  <1>5. PICK t : t = Take(spare, n)
    OBVIOUS
  <1>6. t \in Seq(Fitting) /\ Range(t) \subseteq Range(spare)
    <2>1. spare \in Seq(Fitting)
      BY DEF PathsInv
    <2>2. /\ t \in Seq(Fitting) /\ Len(t) <= Len(spare)
          /\ \A i \in 1 .. Len(t) : t[i] = spare[i]
      BY <1>5, <2>1, TakeIsStart, TakeIsShort
    <2>3. /\ DOMAIN t = 1 .. Len(t) /\ DOMAIN spare = 1 .. Len(spare)
          /\ Len(spare) \in Nat /\ Len(t) \in Nat
      BY <2>1, <2>2
    <2>4. \A i \in 1 .. Len(t) : i \in 1 .. Len(spare)
      BY <2>2, <2>3
    <2> QED BY <2>2, <2>3, <2>4 DEF Range
  <1>7. PICK p, h, r : p = Primary /\ h = hybrid /\ r = related
    OBVIOUS
  <1>8. p \in Seq(Fitting) /\ h \in Seq(Fitting) /\ r \in Seq(Fitting)
    BY <1>2, <1>7 DEF PathsInv
  <1>9. Together = p \o h \o (r \o t)
    BY <1>4, <1>5, <1>7 DEF Together, RelatedAndSpare
  <1>10. PICK rest : rest = r \o t
    OBVIOUS
  <1>11. /\ rest \in Seq(Fitting) /\ Len(rest) = Len(r) + Len(t)
         /\ \A i \in 1 .. Len(rest) : rest[i] = IF i <= Len(r) THEN r[i] ELSE t[i - Len(r)]
    BY <1>6, <1>8, <1>10, ConcatProperties
  <1>12. \A i \in 1 .. Len(rest) : rest[i] \in Range(r) \union Range(t)
    <2>1. /\ Len(r) \in Nat /\ Len(t) \in Nat /\ DOMAIN r = 1 .. Len(r) /\ DOMAIN t = 1 .. Len(t)
      BY <1>6, <1>8
    <2>2. \A i \in 1 .. Len(rest) :
            (i <= Len(r) => i \in DOMAIN r) /\ (~(i <= Len(r)) => i - Len(r) \in DOMAIN t)
      BY <1>11, <2>1
    <2> QED BY <1>11, <2>2 DEF Range
  <1>13. PICK both : both = p \o h
    OBVIOUS
  <1>14. /\ both \in Seq(Fitting) /\ Len(both) = Len(p) + Len(h)
         /\ \A i \in 1 .. Len(both) : both[i] = IF i <= Len(p) THEN p[i] ELSE h[i - Len(p)]
    BY <1>8, <1>13, ConcatProperties
  <1>15. PICK s : s = both \o rest
    OBVIOUS
  <1>16. /\ s \in Seq(Fitting) /\ Len(s) = Len(both) + Len(rest)
         /\ \A i \in 1 .. Len(s) : s[i] = IF i <= Len(both) THEN both[i] ELSE rest[i - Len(both)]
    BY <1>11, <1>14, <1>15, ConcatProperties
  <1>17. ASSUME NEW x \in 1 .. Len(s)
         PROVE  /\ x <= Len(p) => s[x] = p[x]
                /\ x > Len(p) => s[x] \in Range(h) \union Range(r) \union Range(t)
    <2>1. /\ Len(p) \in Nat /\ Len(h) \in Nat /\ Len(rest) \in Nat /\ DOMAIN h = 1 .. Len(h)
      BY <1>8, <1>11
    <2>2. CASE x <= Len(p)
      <3>1. x \in 1 .. Len(both) /\ x <= Len(both)
        BY <1>14, <2>1, <2>2
      <3> QED BY <1>14, <1>16, <2>1, <2>2, <3>1
    <2>3. CASE x > Len(p) /\ x <= Len(both)
      <3>1. x \in 1 .. Len(both) /\ x - Len(p) \in DOMAIN h /\ ~(x <= Len(p))
        BY <1>14, <2>1, <2>3
      <3>2. s[x] = h[x - Len(p)]
        BY <1>14, <1>16, <2>3, <3>1
      <3> QED BY <3>1, <3>2 DEF Range
    <2>4. CASE ~(x <= Len(both))
      <3>1. x - Len(both) \in 1 .. Len(rest) /\ ~(x <= Len(p))
        BY <1>14, <1>16, <2>1, <2>4
      <3>2. s[x] = rest[x - Len(both)]
        BY <1>16, <2>4
      <3> QED BY <1>12, <3>1, <3>2
    <2> QED BY <2>1, <1>14, <2>2, <2>3, <2>4
  <1>18. Together = s
    BY <1>9, <1>10, <1>13, <1>15
  <1>19. Len(s) = Len(p) + Len(h) + Len(r) + Len(t)
    <2>1. Len(p) \in Nat /\ Len(h) \in Nat /\ Len(r) \in Nat /\ Len(t) \in Nat
      BY <1>6, <1>8
    <2> QED BY <1>11, <1>14, <1>16, <2>1
  <1>20. Len(Together) = Len(Primary) + Len(hybrid) + Len(related)
           + Len(Take(spare, Largest(TailLimit - Len(hybrid) - Len(related), 0)))
    BY <1>4, <1>5, <1>7, <1>18, <1>19
  <1> QED BY <1>2, <1>6, <1>7, <1>16, <1>17, <1>18, <1>20

\* Together the parts keep to the limit.
LEMMA TogetherWithinLimit ==
    ASSUME PathsInv, TailInv, req.limit # None
    PROVE  Len(Together) <= req.limit
  <1>1. req.limit \in Nat
    BY DataAssumption DEF PathsInv
  <1>2. TailLimit \in Nat
    BY TailLimitIsANumber DEF PathsInv
  <1>3. PICK n, k, h, r : n = TailLimit /\ k = Len(ranked) /\ h = Len(hybrid) /\ r = Len(related)
    OBVIOUS
  <1>4. n \in Nat /\ k \in Nat /\ h \in Nat /\ r \in Nat
    BY <1>2, <1>3 DEF PathsInv
  <1>5. PICK t : t = Take(spare, Largest(TailLimit - Len(hybrid) - Len(related), 0))
    OBVIOUS
  <1>6. PICK m \in Nat : m = Largest(n - h - r, 0)
    <2>1. n - h - r \in Int
      BY <1>4
    <2>2. Largest(n - h - r, 0) \in Nat
      BY <2>1 DEF Largest
    <2> QED BY <2>2
  <1>7. spare \in Seq(Fitting) /\ t = Take(spare, m)
    BY <1>3, <1>5, <1>6 DEF PathsInv
  <1>8. Len(t) <= m /\ Len(t) <= Len(spare) /\ Len(t) \in Nat
    BY <1>7, TakeIsShort, TakeIsStart
  <1>9. Len(Together) = k + h + r + Len(t)
    BY <1>3, <1>5, TogetherIs
  <1>10. n = Largest(req.limit - k, 0)
    BY <1>3 DEF TailLimit
  <1>11. k <= req.limit /\ h <= n /\ r <= CatalogueLimit
    BY <1>3 DEF TailInv
  <1>12. CASE req.browseOnly
    <2>1. ranked = <<>> /\ hybrid = <<>> /\ spare = <<>>
      BY <1>12 DEF TailInv
    <2>2. k = 0 /\ h = 0 /\ Len(spare) = 0
      BY <1>3, <2>1
    <2>3. r <= req.limit
      BY <1>11, <1>12 DEF CatalogueLimit
    <2>4. Len(t) = 0
      BY <1>8, <2>2
    <2> QED BY <1>1, <1>4, <1>9, <2>2, <2>3, <2>4
  <1>13. CASE ~req.browseOnly
    <2>1. r <= n - h
      BY <1>3, <1>11, <1>13 DEF CatalogueLimit
    <2>2. m = n - h - r
      BY <1>4, <1>6, <2>1 DEF Largest
    <2>3. n = req.limit - k
      BY <1>1, <1>4, <1>10, <1>11 DEF Largest
    <2>4. Len(t) <= n - h - r
      BY <1>8, <2>2
    <2> QED BY <1>1, <1>4, <1>8, <1>9, <2>3, <2>4
  <1> QED BY <1>12, <1>13

\* The rows of a page and the products they show.
PageOf(rows, ids) ==
    /\ Len(rows) = Len(ids)
    /\ \A i \in 1 .. Len(ids) :
         rows[i].id = ids[i] /\ rows[i].tier = Tier(ids[i]) /\ rows[i].fee = price[ids[i]]

\* What the first page of a ranking shows comes before the rest, and nothing comes back.
LEMMA RowsKeepTiers ==
    ASSUME PathsInv, TailInv, NEW g, NEW ids \in Seq(Fitting), Shows(g, ids, Together),
           NEW T, NEW rows \in Seq(T), PageOf(rows, ids)
    PROVE  /\ \A i, j \in 1 .. Len(rows) :
                rows[i].tier = "ranked" /\ rows[j].tier = "related" => i < j
           /\ \A i \in 1 .. Len(rows) : rows[i].id \in Range(candidates) =>
                rows[i].id \in Range(Primary)
  <1>1. PICK s : s = Together
    OBVIOUS
  <1>2. PICK n : n = Len(Primary)
    OBVIOUS
  <1>3. /\ s \in Seq(Fitting) /\ Len(s) \in Nat /\ n \in Nat
        /\ \A x \in 1 .. Len(s) : /\ x <= n => s[x] = Primary[x]
                                  /\ x > n => s[x] \in Range(hybrid) \union Range(related)
                                                       \union Range(spare)
        /\ DOMAIN Primary = 1 .. n
    BY <1>1, <1>2, TogetherIs
  <1>4. Len(rows) = Len(ids) /\ Len(ids) \in Nat
    BY DEF PageOf
  <1>5. \A i \in 1 .. Len(ids) : g[i] \in 1 .. Len(s) /\ ids[i] = s[g[i]]
                                  /\ \A j \in 1 .. (g[i] - 1) : s[j] # s[g[i]]
    BY <1>1 DEF Shows
  <1>6. ASSUME NEW i \in 1 .. Len(ids), ids[i] \in Range(Primary) PROVE g[i] <= n
    <2>1. PICK y \in 1 .. n : Primary[y] = ids[i]
      BY <1>3, <1>6 DEF Range
    <2> SUFFICES ASSUME n < g[i] PROVE FALSE
      BY <1>3, <1>5
    <2>2. y \in 1 .. (g[i] - 1) /\ y \in 1 .. Len(s) /\ y <= n
      BY <1>3, <1>5
    <2>3. s[y] = s[g[i]]
      BY <1>3, <1>5, <2>1, <2>2
    <2> QED BY <1>5, <2>2, <2>3
  <1>7. ASSUME NEW i \in 1 .. Len(ids), ids[i] \notin Range(Primary) PROVE g[i] > n
    <2> SUFFICES ASSUME g[i] <= n PROVE FALSE
      BY <1>3, <1>5
    <2>1. g[i] \in 1 .. n /\ s[g[i]] = Primary[g[i]]
      BY <1>3, <1>5
    <2> QED BY <1>3, <1>5, <1>7, <2>1 DEF Range
  <1>8. ASSUME NEW i \in 1 .. Len(ids), NEW j \in 1 .. Len(ids),
               rows[i].tier = "ranked", rows[j].tier = "related"
        PROVE  i < j
    <2>1. ids[i] \in Range(Primary) /\ ids[j] \notin Range(Primary)
      BY <1>8 DEF PageOf, Tier
    <2>2. g[i] < g[j]
      <3>1. g[i] <= n /\ g[j] > n /\ g[i] \in Int /\ g[j] \in Int
        BY <1>5, <1>6, <1>7, <2>1
      <3> QED BY <1>3, <3>1
    <2>3. ~(j < i) /\ i # j
      <3>1. j < i => g[j] < g[i]
        BY DEF Shows
      <3> QED BY <1>5, <2>2, <3>1
    <2> QED BY <1>4, <2>3
  <1>9. ASSUME NEW i \in 1 .. Len(ids), rows[i].id \in Range(candidates)
        PROVE  rows[i].id \in Range(Primary)
    <2>1. rows[i].id = ids[i] /\ ids[i] = s[g[i]] /\ g[i] \in 1 .. Len(s)
      BY <1>5 DEF PageOf
    <2>2. s[g[i]] \notin Range(hybrid) \union Range(related) \union Range(spare)
      BY <1>9, <2>1 DEF TailInv
    <2>3. g[i] <= n
      BY <1>3, <2>1, <2>2
    <2> QED BY <1>3, <2>1, <2>3, <1>7
  <1> QED BY <1>4, <1>8, <1>9

\* Sorted by price, each tier falls or rises by the price it shows.
LEMMA PagesSorted ==
    ASSUME PathsInv, req.sort # None, NEW S, NEW rows \in Seq(Rows(S))
    PROVE  LET p == Ordered(rows, PriceBefore)
           IN  /\ p \in Seq(Rows(S)) /\ Len(p) = Len(rows)
               /\ \A i, j \in 1 .. Len(p) :
                    p[i].tier = "ranked" /\ p[j].tier = "related" => i < j
               /\ \A i, j \in 1 .. Len(p) :
                    i < j /\ p[i].tier = p[j].tier /\ Priced(p[j].fee) =>
                      /\ Priced(p[i].fee)
                      /\ IF req.sort = "price_asc" THEN p[i].fee <= p[j].fee
                         ELSE p[i].fee >= p[j].fee
               /\ \A i \in 1 .. Len(p) : \E m \in 1 .. Len(rows) : p[i] = rows[m]
  <1> DEFINE a == [i \in 1 .. Len(rows) |-> TierKey(rows[i])]
             b == [i \in 1 .. Len(rows) |-> FeeKey(rows[i])]
  <1>1. PICK p, f : p = Ordered(rows, PriceBefore) /\ p \in Seq(Rows(S))
                    /\ Reorders(f, p, rows, a, b)
    BY PriceOrders
  <1> HIDE DEF a, b
  <1>2. /\ Len(p) = Len(rows) /\ Len(rows) \in Nat
        /\ \A i \in 1 .. Len(rows) : f[i] \in 1 .. Len(rows) /\ p[i] = rows[f[i]]
    <2>1. Len(rows) \in Nat
      OBVIOUS
    <2> QED BY <1>1, <2>1 DEF Reorders
  <1>3. \A i \in 1 .. Len(rows) : /\ a[i] = TierKey(rows[i]) /\ b[i] = FeeKey(rows[i])
                                  /\ a[i] \in Int /\ b[i] \in Int
    <2>1. \A i \in 1 .. Len(rows) : rows[i] \in Rows(S)
      OBVIOUS
    <2>2. \A i \in 1 .. Len(rows) : TierKey(rows[i]) \in Int /\ FeeKey(rows[i]) \in Int
      BY <2>1, PriceKeys
    <2> QED BY <2>2 DEF a, b
  <1>4. \A i \in 1 .. Len(rows) : /\ p[i].tier \in {"ranked", "related"}
                                  /\ p[i].fee \in Int \union {None}
                                  /\ TierKey(p[i]) \in Int /\ FeeKey(p[i]) \in Int
    <2> SUFFICES ASSUME NEW i \in 1 .. Len(rows)
                 PROVE  /\ p[i].tier \in {"ranked", "related"}
                        /\ p[i].fee \in Int \union {None}
                        /\ TierKey(p[i]) \in Int /\ FeeKey(p[i]) \in Int
      OBVIOUS
    <2>1. PICK m \in 1 .. Len(rows) : p[i] = rows[m]
      BY <1>2
    <2>2. rows[m].tier \in {"ranked", "related"} /\ rows[m].fee \in Int \union {None}
      BY RowFields
    <2>3. TierKey(rows[m]) \in Int /\ FeeKey(rows[m]) \in Int
      BY <1>3
    <2> QED BY <2>1, <2>2, <2>3
  <1>5. ASSUME NEW i \in 1 .. Len(rows), NEW j \in 1 .. Len(rows), i < j
        PROVE  \/ TierKey(p[i]) < TierKey(p[j])
               \/ TierKey(p[i]) = TierKey(p[j]) /\ FeeKey(p[i]) <= FeeKey(p[j])
    <2>1. Lex(a, b, Ident(Len(rows)), f[i], f[j])
      <3>1. \A x, y \in 1 .. Len(rows) : x < y => Lex(a, b, Ident(Len(rows)), f[x], f[y])
        BY <1>1 DEF Reorders
      <3> QED BY <1>5, <3>1
    <2>2. PICK x \in 1 .. Len(rows), y \in 1 .. Len(rows) :
            x = f[i] /\ y = f[j] /\ p[i] = rows[x] /\ p[j] = rows[y]
      BY <1>2
    <2>3. a[x] < a[y] \/ (a[x] = a[y] /\ b[x] <= b[y])
      <3>1. Lex(a, b, Ident(Len(rows)), x, y)
        BY <2>1, <2>2
      <3>2. {a[x], a[y], b[x], b[y]} \subseteq Int
        BY <1>3
      <3> QED BY <3>1, <3>2 DEF Lex
    <2>4. /\ a[x] = TierKey(rows[x]) /\ a[y] = TierKey(rows[y])
          /\ b[x] = FeeKey(rows[x]) /\ b[y] = FeeKey(rows[y])
      BY <1>3
    <2> QED BY <2>2, <2>3, <2>4
  <1>6. None \notin Int /\ req.sort \in {"price_asc", "price_desc"}
    BY ValueAssumption, DataAssumption DEF PathsInv
  <1>7. ASSUME NEW i \in 1 .. Len(rows), NEW j \in 1 .. Len(rows),
               p[i].tier = "ranked", p[j].tier = "related"
        PROVE  i < j
    <2>1. TierKey(p[i]) < TierKey(p[j])
      BY <1>7 DEF TierKey
    <2>2. ~(j < i)
      BY <1>4, <1>5, <2>1
    <2>3. i # j
      BY <1>7
    <2> QED BY <1>2, <2>2, <2>3
  <1>8. ASSUME NEW i \in 1 .. Len(rows), NEW j \in 1 .. Len(rows), i < j,
               p[i].tier = p[j].tier, Priced(p[j].fee)
        PROVE  /\ Priced(p[i].fee)
               /\ IF req.sort = "price_asc" THEN p[i].fee <= p[j].fee
                  ELSE p[i].fee >= p[j].fee
    <2>1. Priced(p[i].fee) /\ TierKey(p[i]) = TierKey(p[j])
      <3>1. TierKey(p[i]) <= TierKey(p[j])
        BY <1>4, <1>5, <1>8
      <3>2. Priced(p[i].fee)
        BY <1>8, <3>1 DEF TierKey
      <3> QED BY <1>8, <3>2 DEF TierKey
    <2>2. FeeKey(p[i]) <= FeeKey(p[j])
      BY <1>4, <1>5, <1>8, <2>1
    <2>3. p[i].fee \in Int /\ p[j].fee \in Int /\ p[i].fee # None /\ p[j].fee # None
      BY <1>4, <1>6, <1>8, <2>1 DEF Priced
    <2>4. CASE req.sort = "price_asc"
      BY <1>8, <2>1, <2>2, <2>3, <2>4 DEF FeeKey
    <2>5. CASE req.sort = "price_desc"
      BY <1>8, <2>1, <2>2, <2>3, <2>5 DEF FeeKey
    <2> QED BY <1>6, <2>1, <2>4, <2>5
  <1> QED BY <1>1, <1>2, <1>7, <1>8

\* The page keeps the ranking.
LEMMA HydrateKeeps == ASSUME RankingInv, Hydrate PROVE PageKeepsTheRanking'
  <1> DEFINE ids == Among(ProductIds, {p \in Products : price[p] # Deleted})
             rows == [i \in DOMAIN ids |-> [id |-> ids[i], tier |-> Tier(ids[i]),
                                           fee |-> price[ids[i]]]]
  <1>1. /\ page' = IF req.sort # None /\ ~req.browseOnly THEN Ordered(rows, PriceBefore) ELSE rows
        /\ UNCHANGED <<req, candidates, ranked>>
    BY DEF Hydrate
  <1>2. PathsInv /\ TailInv
    BY DEF RankingInv
  <1>3. Together \in Seq(Fitting) /\ ProductIds = FirstOf(Together)
    BY <1>2, TogetherIs DEF ProductIds, Together
  <1>4. /\ ids \in Seq(Fitting) /\ Len(ids) <= Len(Together)
        /\ \E g : Shows(g, ids, Together)
    <2>1. PICK s : s = Together
      OBVIOUS
    <2>2. s \in Seq(Fitting) /\ ProductIds = FirstOf(s)
      BY <1>3, <2>1
    <2>3. ids = Among(FirstOf(s), {p \in Products : price[p] # Deleted})
      BY <2>2
    <2> HIDE DEF ids
    <2> QED BY <2>1, <2>2, <2>3, FirstOfShows
  <1>5. PICK g : Shows(g, ids, Together)
    BY <1>4
  <1>6. \A i \in 1 .. Len(ids) : price[ids[i]] \in Int \union {None} /\ ids[i] \in Fitting
    <2>1. ids \in Seq(Fitting \cap {p \in Products : price[p] # Deleted})
      <3> HIDE DEF ids
      <3> QED BY ProductIdsIn, AmongSelects, <1>2 DEF ids
    <2>2. \A i \in 1 .. Len(ids) : ids[i] \in Fitting \cap {p \in Products : price[p] # Deleted}
      <3> HIDE DEF ids
      <3> QED BY <2>1
    <2>3. \A p \in Fitting \cap {p \in Products : price[p] # Deleted} :
              price[p] \in Int \union {None}
      BY <1>2 DEF PathsInv
    <2> HIDE DEF ids
    <2> QED BY <2>2, <2>3
  <1> HIDE DEF ids
  <1>7. /\ rows \in Seq(PageRows(Fitting)) /\ PageOf(rows, ids)
        /\ ~req.browseOnly => rows \in Seq(Rows(Fitting))
    <2>1. Len(ids) \in Nat /\ DOMAIN ids = 1 .. Len(ids)
      BY <1>4
    <2>2. \A i \in 1 .. Len(ids) : rows[i] \in PageRows(Fitting)
      BY <1>6, <2>1 DEF PageRows, Tier
    <2>3. ~req.browseOnly => \A i \in 1 .. Len(ids) : rows[i] \in Rows(Fitting)
      BY <1>6, <2>1 DEF Rows, Tier
    <2>4. DOMAIN rows = 1 .. Len(ids)
      BY <2>1
    <2>5. \A i \in 1 .. Len(ids) :
            rows[i].id = ids[i] /\ rows[i].tier = Tier(ids[i]) /\ rows[i].fee = price[ids[i]]
      BY <2>1
    <2>6. rows = [i \in 1 .. Len(ids) |-> rows[i]]
      BY <2>1
    <2> HIDE DEF rows
    <2>7. rows \in Seq(PageRows(Fitting)) /\ Len(rows) = Len(ids)
      BY <2>1, <2>2, <2>4, <2>6
    <2>8. ~req.browseOnly => rows \in Seq(Rows(Fitting))
      BY <2>1, <2>3, <2>4, <2>6
    <2> QED BY <2>5, <2>7, <2>8 DEF PageOf
  <1> HIDE DEF rows
  <1>8. /\ \A i, j \in 1 .. Len(rows) : rows[i].tier = "ranked" /\ rows[j].tier = "related" => i < j
        /\ \A i \in 1 .. Len(rows) : rows[i].id \in Range(candidates) =>
             rows[i].id \in Range(Primary)
    BY <1>2, <1>4, <1>5, <1>7, RowsKeepTiers
  <1>9. req.limit # None => Len(rows) <= req.limit
    <2> SUFFICES ASSUME req.limit # None PROVE Len(rows) <= req.limit
      OBVIOUS
    <2>1. Len(Together) <= req.limit /\ req.limit \in Nat
      BY <1>2, TogetherWithinLimit, DataAssumption DEF PathsInv
    <2>2. Len(rows) = Len(ids) /\ Len(ids) \in Nat /\ Len(Together) \in Nat
      BY <1>3, <1>4, <1>7 DEF PageOf
    <2> QED BY <1>4, <2>1, <2>2
  <1>10. PICK p : p = page'
    OBVIOUS
  <1>11. /\ p \in Seq(PageRows(Fitting)) /\ Len(p) = Len(rows)
         /\ \A i, j \in 1 .. Len(p) : p[i].tier = "ranked" /\ p[j].tier = "related" => i < j
         /\ req.sort # None /\ ~req.browseOnly =>
              \A i, j \in 1 .. Len(p) :
                i < j /\ p[i].tier = p[j].tier /\ Priced(p[j].fee) =>
                  /\ Priced(p[i].fee)
                  /\ IF req.sort = "price_asc" THEN p[i].fee <= p[j].fee
                     ELSE p[i].fee >= p[j].fee
         /\ \A i \in 1 .. Len(p) : \E m \in 1 .. Len(rows) : p[i] = rows[m]
    <2>1. CASE req.sort # None /\ ~req.browseOnly
      <3>1. rows \in Seq(Rows(Fitting)) /\ p = Ordered(rows, PriceBefore)
        BY <1>1, <1>7, <1>10, <2>1
      <3>2. Rows(Fitting) \subseteq PageRows(Fitting)
        BY DEF Rows, PageRows
      <3>3. /\ p \in Seq(Rows(Fitting)) /\ Len(p) = Len(rows)
            /\ \A i, j \in 1 .. Len(p) :
                 p[i].tier = "ranked" /\ p[j].tier = "related" => i < j
            /\ \A i, j \in 1 .. Len(p) :
                 i < j /\ p[i].tier = p[j].tier /\ Priced(p[j].fee) =>
                   /\ Priced(p[i].fee)
                   /\ IF req.sort = "price_asc" THEN p[i].fee <= p[j].fee
                      ELSE p[i].fee >= p[j].fee
            /\ \A i \in 1 .. Len(p) : \E m \in 1 .. Len(rows) : p[i] = rows[m]
        BY <1>2, <2>1, <3>1, PagesSorted
      <3> QED BY <2>1, <3>2, <3>3, SeqWidens
    <2>2. CASE ~(req.sort # None /\ ~req.browseOnly)
      <3>1. p = rows
        BY <1>1, <1>10, <2>2
      <3> QED BY <1>7, <1>8, <2>2, <3>1
    <2> QED BY <2>1, <2>2
  <1>12. DOMAIN p = 1 .. Len(p) /\ Primary' = Primary
    BY <1>1, <1>11 DEF Primary
  <1>13. ASSUME NEW i \in 1 .. Len(p), p[i].id \in Range(candidates)
         PROVE  p[i].id \in Range(Primary)
    BY <1>8, <1>11, <1>13
  <1>14. Shown' = {p[i].id : i \in 1 .. Len(p)}
    BY <1>10, <1>12 DEF Shown
  <1>15. Shown' \cap Range(candidates) \subseteq Range(Primary)
    BY <1>13, <1>14
  <1>16. \A fee : Priced(fee)' = Priced(fee)
    BY DEF Priced
  <1> QED
    BY <1>1, <1>9, <1>10, <1>11, <1>12, <1>15, <1>16 DEF PageKeepsTheRanking, Priced

\* Every step of a search keeps its ranking.
LEMMA RankingNext == RankingInv /\ [RetrievalNext]_retrievalVars => RankingInv'
  <1> SUFFICES ASSUME RankingInv, [RetrievalNext]_retrievalVars PROVE RankingInv'
    OBVIOUS
  <1>1. PathsInv' /\ FusedInv' /\ TailInv'
    BY PathsNext, FusedNext, TailNext DEF RankingInv
  <1>2. PageKeepsTheRanking'
    <2>1. CASE Hydrate
      BY <2>1, HydrateKeeps
    <2>2. CASE UNCHANGED retrievalVars
      BY <2>2 DEF retrievalVars, RankingInv, PageKeepsTheRanking, Shown, Primary, Priced
    <2>3. CASE RetrievalNext /\ ~Hydrate
      <3>1. stage' # "served"
        BY <2>3 DEF RetrievalNext, VectorSearch, VectorFails, LexicalSearch, LexicalFails, Fuse,
          Rank, RankFallsBack, HybridTail, BrowsePage, BrowseNothing, SearchFails, Change, Ended
      <3> QED BY <3>1 DEF PageKeepsTheRanking
    <2> QED BY <2>1, <2>2, <2>3
  <1> QED BY <1>1, <1>2 DEF RankingInv

\* A search that has begun has nothing to order yet.
LEMMA RankingStart == RetrievalInit => RankingInv
  <1> SUFFICES ASSUME RetrievalInit PROVE RankingInv
    OBVIOUS
  <1>1. PathsInv
    BY PathsStart
  <1>2. /\ vectorOut = None /\ lexicalOut = None /\ candidates = <<>> /\ fusedRest = <<>>
        /\ ranked = <<>> /\ hybrid = <<>> /\ spare = <<>> /\ related = <<>>
        /\ stage \in {"retrieve", "catalogue"} /\ (stage = "retrieve" => ~req.browseOnly)
        /\ req \in Requests
    BY DEF RetrievalInit
  <1>3. Len(<<>>) = 0 /\ Range(<<>>) = {} /\ DOMAIN <<>> = {}
    BY DEF Range
  <1>4. FusedInv
    BY <1>2, <1>3 DEF FusedInv, Distinct, VerifiedOnlyBreaksTies
  <1>5. req.limit # None => 0 <= req.limit /\ 0 <= TailLimit /\ 0 <= CatalogueLimit
    <2>1. req.limit \in Nat \union {None} /\ RERANK_TOP_K \in Nat
      BY <1>2, DataAssumption, WindowAssumption
    <2>2. TailLimit \in Nat
      BY <1>1, TailLimitIsANumber DEF PathsInv
    <2> QED BY <1>2, <1>3, <2>1, <2>2 DEF CatalogueLimit
  <1>6. TailInv
    BY <1>2, <1>3, <1>5 DEF TailInv
  <1>7. PageKeepsTheRanking
    BY <1>2 DEF PageKeepsTheRanking
  <1> QED BY <1>1, <1>4, <1>6, <1>7 DEF RankingInv

\* What the ranking decided is kept to the page: a verified owner is ahead only of a close score,
\* ranked products come before related ones, prices rise or fall within a tier, a candidate that
\* was cut does not come back in the tail, and the page is no longer than the limit
\* (SearchRankingMixin.rank, ProductSearchEngine.search).
THEOREM RankingHolds == RetrievalSpec => []RankingIsKept
  <1>1. RankingInv => RankingIsKept
    BY DEF RankingInv, FusedInv, RankingIsKept
  <1> QED BY <1>1, RankingStart, RankingNext, PTL DEF RetrievalSpec

\* Parts of results name each product once, as they do.
LEMMA AmongIds ==
    ASSUME NEW T, NEW s \in Seq(T), NEW A, IdsDistinct(s)
    PROVE  IdsDistinct(Among(s, A))
  <1>1. PICK u, f : u \in Seq(T) /\ u = Among(s, A) /\ Selects(f, u, s, PlacesOf(s, A))
    BY AmongSelects, AmongIn
  <1>2. Len(u) \in Nat /\ DOMAIN s = 1 .. Len(s) /\ Len(s) \in Nat
    OBVIOUS
  <1>3. \A i \in 1 .. Len(u) : f[i] \in 1 .. Len(s) /\ u[i] = s[f[i]]
    BY <1>1, <1>2 DEF Selects, PlacesOf
  <1>4. ASSUME NEW i \in 1 .. Len(u), NEW j \in 1 .. Len(u), u[i].id = u[j].id PROVE i = j
    <2>1. f[i] = f[j]
      BY <1>3, <1>4 DEF IdsDistinct
    <2>2. ~(i < j) /\ ~(j < i)
      BY <1>1, <1>2, <1>3, <2>1 DEF Selects
    <2> QED BY <1>2, <2>2
  <1> QED BY <1>1, <1>4 DEF IdsDistinct

\* So do the first of them.
LEMMA TakeIds ==
    ASSUME NEW T, NEW s \in Seq(T), NEW n \in Nat, IdsDistinct(s)
    PROVE  IdsDistinct(Take(s, n))
  <1>1. PICK u : u = Take(s, n)
    OBVIOUS
  <1>2. Len(s) \in Nat /\ Len(u) \in Nat /\ Len(u) <= Len(s) /\ \A i \in 1 .. Len(u) : u[i] = s[i]
    BY <1>1, TakeIsStart
  <1>3. \A i \in 1 .. Len(u) : i \in 1 .. Len(s)
    BY <1>2
  <1> QED BY <1>1, <1>2, <1>3 DEF IdsDistinct

\* The ranking has candidates only, each once.
LEMMA RankedFrom ==
    ASSUME RankingInv, Rank \/ RankFallsBack
    PROVE  ranked' \in Seq(ResultsOf(Range(candidates))) /\ IdsDistinct(ranked')
  <1>1. PathsInv /\ Distinct(candidates) /\ PrimaryLimit \in Nat
    BY WindowsAreNumbers DEF RankingInv, FusedInv, PathsInv
  <1> DEFINE C == Range(candidates)
             Fine(s) == s \in Seq(ResultsOf(C)) /\ IdsDistinct(s)
  <1>2. \A score : (\A p \in Products : score[p] \in Int) => Fine(WithScores(score))
    BY <1>1, ScoredCandidates
  <1>3. C \in SUBSET Products
    <2>1. candidates \in Seq(Fitting) /\ DOMAIN candidates = 1 .. Len(candidates)
      BY <1>1 DEF PathsInv
    <2> QED BY <2>1 DEF Range, Fitting
  <1> HIDE DEF C
  <1>4. \A s : Fine(s) => Fine(Take(s, PrimaryLimit))
    <2> SUFFICES ASSUME NEW s \in Seq(ResultsOf(C)), IdsDistinct(s)
                 PROVE  Fine(Take(s, PrimaryLimit))
      OBVIOUS
    <2>1. Take(s, PrimaryLimit) \in Seq(ResultsOf(C))
      BY <1>1, TakeIsStart
    <2>2. IdsDistinct(Take(s, PrimaryLimit))
      BY <1>1, TakeIds
    <2> QED BY <2>1, <2>2
  <1>5. \A s, A : Fine(s) => Fine(Among(s, A))
    BY AmongIds, AmongIn
  <1>6. ASSUME NEW s \in Seq(ResultsOf(C)), IdsDistinct(s) PROVE Fine(VerifiedFirst(s))
    <2> DEFINE b == [i \in 1 .. Len(s) |-> IF Row[s[i].id].verified THEN 0 ELSE 1]
    <2>1. PICK u, f : u = VerifiedFirst(s) /\ u \in Seq(ResultsOf(C))
                      /\ Reorders(f, u, s, BandStart(s), b)
      BY <1>3, VerifiedOrders
    <2>2. b \in [1 .. Len(s) -> Int]
      OBVIOUS
    <2> HIDE DEF b
    <2>3. BandStart(s) \in [1 .. Len(s) -> Int]
      BY BandsBegin
    <2>4. IdsDistinct(u)
      BY <1>6, <2>1, <2>2, <2>3, ReorderedIds
    <2> QED BY <2>1, <2>4
  <1>7. ASSUME NEW s \in Seq(ResultsOf(C)), IdsDistinct(s) PROVE Fine(ByScore(s))
    BY <1>7, SortedByScore
  <1>8. ASSUME NEW s \in Seq(ResultsOf(C)), IdsDistinct(s), NEW first
        PROVE Fine(Reshuffled(s, first))
    <2> DEFINE a == [i \in 1 .. Len(s) |-> IF i \in first THEN 0 ELSE 1]
    <2>1. PICK u, f : u = Reshuffled(s, first) /\ u \in Seq(ResultsOf(C))
                      /\ Reorders(f, u, s, a, Zeros(Len(s)))
      BY TitlesReorder
    <2>2. a \in [1 .. Len(s) -> Int] /\ Zeros(Len(s)) \in [1 .. Len(s) -> Int]
      BY DEF Zeros
    <2> HIDE DEF a
    <2>3. IdsDistinct(u)
      BY <1>8, <2>1, <2>2, ReorderedIds
    <2> QED BY <2>1, <2>3
  <1>9. /\ \A s : Fine(s) => Fine(VerifiedFirst(s)) /\ Fine(ByScore(s))
        /\ \A s, first : Fine(s) => Fine(Reshuffled(s, first))
    BY <1>6, <1>7, <1>8
  <1> HIDE DEF Fine
  <1>10. \A s : Fine(s) => Fine(Diverse(s, PrimaryLimit)) /\ Fine(AboveFloors(s))
    BY <1>4, <1>5, <1>9, DiverseIs DEF AboveFloors
  <1>11. Fine(ranked')
    <2>1. CASE Rank
      <3>1. PICK score \in Scorings :
              ranked' = AboveFloors(Diverse(VerifiedFirst(ByScore(WithScores(score))),
                  PrimaryLimit))
        BY <2>1 DEF Rank
      <3>2. Fine(WithScores(score))
        BY <1>2, DataAssumption
      <3> QED BY <1>9, <1>10, <3>1, <3>2
    <2>2. CASE RankFallsBack
      <3> DEFINE score == [p \in Products |-> FusionScore(p) + req.adjust[p]]
      <3>1. HasResults(vectorOut) /\ HasResults(lexicalOut)
        <4>1. vectorOut \in {Failed} \union Seq(Suiting)
                  /\ lexicalOut \in {Failed} \union Seq(Suiting)
          BY <1>1, <2>2 DEF RankFallsBack, PathsInv
        <4> QED BY <4>1, FetchedIn DEF Suiting
      <3>2. \A p \in Products : score[p] \in Int
        BY <1>1, <3>1, FusionScoreIsANumber, DataAssumption DEF PathsInv
      <3>3. ranked' = Take(VerifiedFirst(WithScores(score)), PrimaryLimit)
        BY <2>2 DEF RankFallsBack
      <3> HIDE DEF score
      <3>4. Fine(WithScores(score))
        BY <1>2, <3>2
      <3> QED BY <1>4, <1>9, <3>3, <3>4
    <2> QED BY <2>1, <2>2
  <1> QED BY <1>11 DEF Fine, C

\* What the tail reads of the keyword index, and whether it has all it may show.
CatalogueRows == Listed(InCatalogue, BrowsedBefore)
TailFull == Len(related) >= CatalogueLimit
NearKept == \A p \in Range(fusedRest) : MatchesAnchor(p, anchor) => p \in Range(hybrid)
ReadTo(n) ==
    \A k \in 1 .. Len(CatalogueRows) :
      k <= n /\ TypeFits(CatalogueRows[k]) => CatalogueRows[k] \in Range(related)

\* Nothing changed, and the tail may fill the page.
TailMayFill ==
    changes = 0 /\ req.limit # None /\ HasAnchor(anchor) /\ (req.browseOnly \/ TailAllowed)

\* The tail leaves nothing out that it has passed.
CatalogueInv ==
    /\ changes \in Nat
    /\ ranked \in Seq(ResultsOf(Range(candidates))) /\ IdsDistinct(ranked)
    /\ req.browseOnly => fusedRest = <<>>
    /\ Distinct(fusedRest) /\ Distinct(hybrid) /\ Range(hybrid) \subseteq Range(fusedRest)
    /\ Range(related) \cap Range(fusedRest) = {}
    /\ req.limit # None => Distinct(related)
    /\ changes = 0 => indexed = Products /\ price = [p \in Products |-> Row[p].fee]
    /\ stage \in {"retrieve", "rank", "tail"} => offset = 0
    /\ stage = "catalogue" /\ TailMayFill => TailFull \/ (NearKept /\ ReadTo(offset))
    /\ stage = "hydrate" /\ TailMayFill =>
         TailFull \/ (NearKept /\ ReadTo(Len(CatalogueRows)))

\* The inductive invariant of the pages.
ExhaustInv == RankingInv /\ CatalogueInv /\ ShortPageIsExhausted

\* Fusion leaves the rest of its list to the tail.
LEMMA FuseCatalogue == ASSUME ExhaustInv, Fuse PROVE CatalogueInv'
  <1>1. PICK e : e = Among(Merged, {p \in Products : TypeFits(p)})
    OBVIOUS
  <1>2. Suiting \in SUBSET Products /\ req \in Requests /\ HybridTopK \in Nat
    BY WindowsAreNumbers DEF Suiting, ExhaustInv, RankingInv, PathsInv
  <1>3. vectorOut \in {Failed} \union Seq(Suiting) /\ lexicalOut \in {Failed} \union Seq(Suiting)
    BY DEF ExhaustInv, RankingInv, PathsInv, Fuse
  <1>4. Distinct(Fetched(vectorOut)) /\ Distinct(Fetched(lexicalOut))
    <2>1. Distinct(<<>>)
      BY DEF Distinct
    <2> QED BY <2>1 DEF Fetched, ExhaustInv, RankingInv, FusedInv, Fuse
  <1>5. e \in Seq(Suiting) /\ Distinct(e)
    <2>1. Merged \in Seq(Suiting) /\ Distinct(Merged)
      BY <1>2, <1>3, <1>4, MergedIn, MergedInOrder
    <2> QED BY <1>1, <2>1, AmongIn, AmongDistinct
  <1>6. Distinct(fusedRest')
    <2>1. fusedRest' = Drop(e, HybridTopK)
      BY <1>1 DEF Fuse
    <2> QED BY <1>2, <1>5, <2>1, TakeDistinct
  <1>7. /\ stage = "retrieve" /\ stage' = "rank"
        /\ UNCHANGED <<req, indexed, price, ranked, hybrid, related, offset, changes>>
    BY DEF Fuse, tail
  <1>8. ~req.browseOnly /\ ranked = <<>> /\ hybrid = <<>> /\ related = <<>>
    BY <1>7 DEF ExhaustInv, RankingInv, TailInv
  <1>9. <<>> \in Seq(ResultsOf(Range(candidates))') /\ IdsDistinct(<<>>) /\ Distinct(<<>>)
        /\ Range(<<>>) = {}
    BY DEF IdsDistinct, Distinct, Range
  <1> QED BY <1>6, <1>7, <1>8, <1>9 DEF ExhaustInv, CatalogueInv

\* Ranking names candidates.
LEMMA RankCatalogue == ASSUME ExhaustInv, Rank \/ RankFallsBack PROVE CatalogueInv'
  <1>1. ranked' \in Seq(ResultsOf(Range(candidates))) /\ IdsDistinct(ranked')
    BY RankedFrom DEF ExhaustInv
  <1>2. /\ stage = "rank" /\ stage' = "tail"
        /\ UNCHANGED <<req, indexed, price, candidates, fusedRest, hybrid, related, offset,
               changes>>
    BY DEF Rank, RankFallsBack, tail
  <1>3. ResultsOf(Range(candidates))' = ResultsOf(Range(candidates))
    BY <1>2 DEF ResultsOf
  <1> QED BY <1>1, <1>2, <1>3 DEF ExhaustInv, CatalogueInv

\* The fused rest that keeps to the anchor fills the page, or is shown.
LEMMA HybridCatalogue == ASSUME ExhaustInv, HybridTail PROVE CatalogueInv'
  <1> DEFINE a == AnchorFrom(IF ranked = <<>> THEN None ELSE ranked[1].id)
             rest == Among(fusedRest, Products \ Range(Primary))
             keeping == {p \in Products : HasAnchor(a) /\ MatchesAnchor(p, a)}
             near == Among(rest, keeping)
             far == Among(rest, Products \ keeping)
  <1>1. /\ anchor' = a
        /\ IF TailAllowed /\ TailLimit > 0
           THEN /\ hybrid' = Take(IF HasAnchor(a) THEN near ELSE far, TailLimit)
                /\ spare' = IF HasAnchor(a) THEN far ELSE <<>>
           ELSE UNCHANGED <<hybrid, spare>>
        /\ stage' = IF TailAllowed /\ HasAnchor(a) /\ TailLimit > Len(hybrid')
                    THEN "catalogue" ELSE "hydrate"
        /\ stage = "tail"
        /\ UNCHANGED <<req, indexed, price, candidates, fusedRest, ranked, related, offset,
               changes>>
    BY DEF HybridTail
  <1>2. TailLimit \in Nat /\ fusedRest \in Seq(Fitting)
    BY TailLimitIsANumber DEF ExhaustInv, RankingInv, PathsInv
  <1>3. ~req.browseOnly /\ hybrid = <<>> /\ related = <<>> /\ offset = 0
    BY <1>1 DEF ExhaustInv, RankingInv, TailInv, CatalogueInv
  <1>4. Range(rest) = Range(fusedRest) \ Range(Primary) /\ rest \in Seq(Fitting) /\ Distinct(rest)
    <2>1. Range(rest) = Range(fusedRest) \cap (Products \ Range(Primary))
      BY <1>2, AmongRange
    <2>2. Range(fusedRest) \subseteq Products
      <3>1. DOMAIN fusedRest = 1 .. Len(fusedRest)
            /\ \A i \in 1 .. Len(fusedRest) : fusedRest[i] \in Products
        BY <1>2 DEF Fitting
      <3> QED BY <3>1 DEF Range
    <2>3. rest \in Seq(Fitting) /\ Distinct(rest)
      BY <1>2, AmongIn, AmongDistinct DEF ExhaustInv, CatalogueInv
    <2> HIDE DEF rest
    <2> QED BY <2>1, <2>2, <2>3
  <1>5. /\ near \in Seq(Fitting) /\ far \in Seq(Fitting) /\ Distinct(near) /\ Distinct(far)
        /\ Range(near) = Range(rest) \cap keeping /\ Range(far) \subseteq Range(rest)
    <2> HIDE DEF rest, keeping
    <2> QED BY <1>4, AmongIn, AmongDistinct, AmongRange
  <1>6. Range(Primary) \cap Range(fusedRest) = {}
    <2>1. DOMAIN ranked = 1 .. Len(ranked)
          /\ \A i \in 1 .. Len(ranked) : ranked[i].id \in Range(candidates)
      <3>1. ranked \in Seq(ResultsOf(Range(candidates)))
        BY DEF ExhaustInv, CatalogueInv
      <3> QED BY <3>1, ResultFields
    <2>2. Range(Primary) \subseteq Range(candidates)
      BY <2>1 DEF Primary, Range
    <2> QED BY <2>2 DEF ExhaustInv, RankingInv, FusedInv
  <1>7. ASSUME HasAnchor(a)
        PROVE  \A p \in Range(fusedRest) : MatchesAnchor(p, a) => p \in Range(near)
    <2> SUFFICES ASSUME NEW p \in Range(fusedRest), MatchesAnchor(p, a) PROVE p \in Range(near)
      OBVIOUS
    <2>1. p \in Products
      <3>1. DOMAIN fusedRest = 1 .. Len(fusedRest)
            /\ \A i \in 1 .. Len(fusedRest) : fusedRest[i] \in Products
        BY <1>2 DEF Fitting
      <3> QED BY <3>1 DEF Range
    <2>2. p \in Range(rest)
      BY <1>4, <1>6
    <2>3. p \in keeping
      BY <1>7, <2>1
    <2> HIDE DEF keeping, near, rest
    <2> QED BY <1>5, <2>2, <2>3
  <1> HIDE DEF a, near, far, rest, keeping
  <1>8. /\ hybrid' \in Seq(Fitting) /\ Distinct(hybrid')
               /\ Range(hybrid') \subseteq Range(fusedRest)
        /\ HasAnchor(a) /\ TailAllowed =>
             Len(hybrid') >= TailLimit \/ Range(hybrid') = Range(near)
    <2>1. ASSUME NEW s \in Seq(Fitting), Distinct(s)
          PROVE  /\ Take(s, TailLimit) \in Seq(Fitting) /\ Distinct(Take(s, TailLimit))
                 /\ Range(Take(s, TailLimit)) \subseteq Range(s)
                 /\ Len(Take(s, TailLimit)) >= TailLimit \/ Take(s, TailLimit) = s
      <3>1. Take(s, TailLimit) \in Seq(Fitting) /\ Distinct(Take(s, TailLimit))
            /\ Range(Take(s, TailLimit)) \subseteq Range(s)
        <4>1. Take(s, TailLimit) \in Seq(Fitting)
          BY <1>2, TakeIsStart
        <4>2. /\ Distinct(Take(s, TailLimit))
              /\ Range(Take(s, TailLimit)) \union Range(Drop(s, TailLimit)) = Range(s)
          BY <1>2, <2>1, TakeDistinct
        <4> QED BY <4>1, <4>2
      <3>2. Len(s) \in Nat
        OBVIOUS
      <3>3. CASE Len(s) <= TailLimit
        BY <1>2, <3>1, <3>3, TakeAll
      <3>4. CASE ~(Len(s) <= TailLimit)
        <4>1. Len(Take(s, TailLimit)) = IF TailLimit < 0 THEN 0
                                        ELSE IF TailLimit < Len(s) THEN TailLimit ELSE Len(s)
          BY <1>2, TakeIsStart
        <4> QED BY <1>2, <3>1, <3>2, <3>4, <4>1
      <3> QED BY <3>3, <3>4
    <2>2. <<>> \in Seq(Fitting) /\ Distinct(<<>>) /\ Range(<<>>) = {} /\ Len(<<>>) = 0
      BY DEF Distinct, Range
    <2>3. CASE TailAllowed /\ TailLimit > 0 /\ HasAnchor(a)
      <3>1. hybrid' = Take(near, TailLimit)
        BY <1>1, <2>3
      <3>2. Range(near) \subseteq Range(fusedRest)
        BY <1>4, <1>5
      <3> QED BY <1>5, <2>1, <3>1, <3>2
    <2>4. CASE TailAllowed /\ TailLimit > 0 /\ ~HasAnchor(a)
      <3>1. hybrid' = Take(far, TailLimit)
        BY <1>1, <2>4
      <3>2. Range(far) \subseteq Range(fusedRest)
        BY <1>4, <1>5
      <3> QED BY <1>5, <2>1, <2>4, <3>1, <3>2
    <2>5. CASE ~(TailAllowed /\ TailLimit > 0)
      <3>1. UNCHANGED <<hybrid, spare>>
        BY <1>1, <2>5
      <3>2. hybrid' = <<>>
        BY <1>3, <3>1
      <3>3. TailAllowed => 0 >= TailLimit
        BY <1>2, <2>5
      <3> QED BY <2>2, <3>2, <3>3
    <2> QED BY <2>3, <2>4, <2>5
  <1>9. TailLimit' = TailLimit /\ Len(hybrid') \in Nat /\ Len(related') = 0
    <2>1. TailLimit' = TailLimit
      BY <1>1 DEF TailLimit
    <2>2. related' = <<>>
      BY <1>1, <1>3
    <2>3. PICK r : r = related'
      OBVIOUS
    <2>4. Len(r) = 0
      BY <2>2, <2>3
    <2> QED BY <1>8, <2>1, <2>3, <2>4
  <1>10. CatalogueLimit' = TailLimit - Len(hybrid')
    BY <1>1, <1>3, <1>9 DEF CatalogueLimit
  <1>11. /\ TailAllowed' = TailAllowed
         /\ HasAnchor(anchor)' = HasAnchor(a)
         /\ \A p : MatchesAnchor(p, anchor)' = MatchesAnchor(p, a)
    BY <1>1 DEF TailAllowed, HasAnchor, MatchesAnchor
  <1>12. ASSUME TailMayFill', ~TailFull' PROVE NearKept' /\ stage' = "catalogue" /\ ReadTo(offset)'
    <2>1. HasAnchor(a) /\ TailAllowed
      BY <1>1, <1>3, <1>11, <1>12 DEF TailMayFill
    <2>2. TailLimit > Len(hybrid')
      <3>1. ~(Len(related') >= CatalogueLimit')
        BY <1>12 DEF TailFull
      <3> QED BY <1>2, <1>9, <1>10, <3>1
    <2>3. Range(hybrid') = Range(near)
      BY <1>2, <1>8, <1>9, <2>1, <2>2
    <2>4. NearKept'
      BY <1>1, <1>7, <1>11, <2>1, <2>3 DEF NearKept
    <2>5. offset' = 0
      BY <1>1, <1>3
    <2>6. ReadTo(offset)'
      <3>1. \A k \in 1 .. Len(CatalogueRows') : ~(k <= 0)
        OBVIOUS
      <3> QED BY <2>5, <3>1 DEF ReadTo
    <2> QED BY <1>1, <2>1, <2>2, <2>4, <2>6
  <1>13. Range(related') = {}
    BY <1>1, <1>3 DEF Range
  <1>14. stage' \in {"catalogue", "hydrate"}
    BY <1>1
  <1>15. /\ changes' \in Nat /\ req' = req
         /\ ranked' \in Seq(ResultsOf(Range(candidates))') /\ IdsDistinct(ranked)'
         /\ req.browseOnly => fusedRest' = <<>>
         /\ Distinct(fusedRest)'
         /\ changes' = 0 => indexed' = Products /\ price' = [p \in Products |-> Row[p].fee]
    BY <1>1 DEF ExhaustInv, CatalogueInv, ResultsOf, IdsDistinct, Distinct
  <1>16. Distinct(related')
    <2>1. related' = <<>>
      BY <1>1, <1>3
    <2>2. Distinct(<<>>)
      BY DEF Distinct
    <2> QED BY <2>1, <2>2
  <1> QED BY <1>1, <1>8, <1>12, <1>13, <1>14, <1>15, <1>16 DEF CatalogueInv

\* What is read of the keyword index is in another order nothing else.
LEMMA CatalogueRowsStay ==
    ASSUME UNCHANGED <<req, indexed, candidates, fusedRest, anchor>>
    PROVE  CatalogueRows' = CatalogueRows
  BY DEF CatalogueRows, Listed, InCatalogue, Excluded, BrowsedBefore, LexicalMatches,
         CategoriesMatch, MatchesAnchor, HasPriceFilter, WithinBounds, IncludeUnpriced, Priced

\* The rows of the keyword index the tail reads are those outside the fused results, once.
LEMMA CatalogueRowsAre ==
    ASSUME PathsInv
    PROVE  /\ InCatalogue \in SUBSET Products
           /\ CatalogueRows \in Seq(InCatalogue) /\ Distinct(CatalogueRows)
           /\ \A p \in InCatalogue : \E k \in 1 .. Len(CatalogueRows) : CatalogueRows[k] = p
  <1>1. InCatalogue \in SUBSET Products
    BY DEF InCatalogue, PathsInv
  <1>2. PICK S : S = InCatalogue
    OBVIOUS
  <1>3. PICK rows : rows = Listed(S, BrowsedBefore)
    OBVIOUS
  <1>4. /\ rows \in Seq(S) /\ \A p \in S : \E k \in 1 .. Len(rows) : rows[k] = p
        /\ \A i, j \in 1 .. Len(rows) : rows[i] = rows[j] => i = j
    BY <1>1, <1>2, <1>3, Browsed
  <1> QED BY <1>1, <1>2, <1>3, <1>4 DEF CatalogueRows, Distinct

\* Two sequences, one after the other, have the elements of both.
LEMMA ConcatRange ==
    ASSUME NEW T, NEW s \in Seq(T), NEW t \in Seq(T)
    PROVE  Range(s \o t) = Range(s) \union Range(t)
  <1>1. PICK u : u = s \o t
    OBVIOUS
  <1>2. /\ Len(s) \in Nat /\ Len(t) \in Nat /\ Len(u) = Len(s) + Len(t)
        /\ DOMAIN s = 1 .. Len(s) /\ DOMAIN t = 1 .. Len(t) /\ DOMAIN u = 1 .. Len(u)
        /\ \A i \in 1 .. Len(u) : u[i] = IF i <= Len(s) THEN s[i] ELSE t[i - Len(s)]
    BY <1>1, ConcatProperties
  <1>3. \A x \in Range(u) : x \in Range(s) \union Range(t)
    <2> SUFFICES ASSUME NEW i \in 1 .. Len(u) PROVE u[i] \in Range(s) \union Range(t)
      BY <1>2 DEF Range
    <2>1. CASE i <= Len(s)
      <3>1. i \in DOMAIN s
        BY <1>2, <2>1
      <3> QED BY <1>2, <2>1, <3>1 DEF Range
    <2>2. CASE ~(i <= Len(s))
      <3>1. i - Len(s) \in DOMAIN t
        BY <1>2, <2>2
      <3> QED BY <1>2, <2>2, <3>1 DEF Range
    <2> QED BY <2>1, <2>2
  <1>4. \A x \in Range(s) : x \in Range(u)
    <2> SUFFICES ASSUME NEW i \in 1 .. Len(s) PROVE s[i] \in Range(u)
      BY <1>2 DEF Range
    <2>1. i \in 1 .. Len(u) /\ u[i] = s[i]
      BY <1>2
    <2> QED BY <1>2, <2>1 DEF Range
  <1>5. \A x \in Range(t) : x \in Range(u)
    <2> SUFFICES ASSUME NEW i \in 1 .. Len(t) PROVE t[i] \in Range(u)
      BY <1>2 DEF Range
    <2>1. i + Len(s) \in 1 .. Len(u) /\ ~(i + Len(s) <= Len(s)) /\ i + Len(s) - Len(s) = i
      BY <1>2
    <2>2. u[i + Len(s)] = t[i]
      BY <1>2, <2>1
    <2> QED BY <1>2, <2>1, <2>2 DEF Range
  <1> QED BY <1>1, <1>3, <1>4, <1>5

\* A page of the keyword index: what it has is shown, or the page is full.
LEMMA BrowseCatalogue == ASSUME ExhaustInv, BrowsePage PROVE CatalogueInv'
  <1> DEFINE rows == Take(Drop(Listed(InCatalogue, BrowsedBefore), offset), PAGE_SIZE)
             fresh == Among(rows, {p \in Products \ Range(related) : TypeFits(p)})
  <1>1. /\ related' = Take(related \o fresh, CatalogueLimit)
        /\ offset' = offset + Len(rows)
        /\ stage' = IF Len(rows) < PAGE_SIZE \/ Len(related') >= CatalogueLimit
                    THEN "hydrate" ELSE "catalogue"
        /\ stage = "catalogue"
        /\ UNCHANGED <<req, indexed, price, candidates, fusedRest, ranked, anchor, hybrid, changes>>
    BY DEF BrowsePage
  <1>2. PathsInv /\ PathsInv' /\ PAGE_SIZE \in Nat \ {0} /\ CatalogueLimit \in Int /\ offset \in Nat
    <2>1. PathsInv /\ PathsInv'
      BY PathsNext DEF RetrievalNext, ExhaustInv, RankingInv
    <2> QED BY <2>1, CatalogueLimitIsANumber, RetrievalAssumption DEF PathsInv
  <1>3. PICK all : all = CatalogueRows
    OBVIOUS
  <1>4. all \in Seq(InCatalogue) /\ Distinct(all) /\ InCatalogue \in SUBSET Products
        /\ Len(all) \in Nat
    BY <1>2, <1>3, CatalogueRowsAre
  <1>5. PICK left : left = Drop(all, offset)
    OBVIOUS
  <1>6. /\ left \in Seq(InCatalogue) /\ Distinct(left) /\ Len(left) \in Nat
        /\ Len(left) = IF offset < Len(all) THEN Len(all) - offset ELSE 0
        /\ \A i \in 1 .. Len(left) : left[i] = all[offset + i]
    <2>1. /\ left \in Seq(InCatalogue)
          /\ Len(left) = IF offset < Len(all) THEN Len(all) - offset ELSE 0
          /\ \A i \in 1 .. Len(left) : left[i] = all[offset + i]
      BY <1>2, <1>4, <1>5, DropIsEnd
    <2>2. Distinct(left)
      BY <1>2, <1>4, <1>5, TakeDistinct
    <2> QED BY <2>1, <2>2
  <1>7. rows = Take(left, PAGE_SIZE)
    BY <1>3, <1>5 DEF CatalogueRows
  <1>8. /\ rows \in Seq(InCatalogue) /\ Distinct(rows) /\ Len(rows) \in Nat
        /\ Len(rows) = IF PAGE_SIZE < Len(left) THEN PAGE_SIZE ELSE Len(left)
        /\ \A i \in 1 .. Len(rows) : rows[i] = left[i]
    <2> HIDE DEF rows
    <2>1. /\ rows \in Seq(InCatalogue)
          /\ Len(rows) = IF PAGE_SIZE < 0 THEN 0
                         ELSE IF PAGE_SIZE < Len(left) THEN PAGE_SIZE ELSE Len(left)
          /\ \A i \in 1 .. Len(rows) : rows[i] = left[i]
      BY <1>2, <1>6, <1>7, TakeIsStart
    <2>2. Distinct(rows)
      BY <1>2, <1>6, <1>7, TakeDistinct
    <2> QED BY <1>2, <1>6, <2>1, <2>2
  <1> HIDE DEF rows
  <1>9. /\ fresh \in Seq(InCatalogue) /\ Distinct(fresh)
        /\ Range(fresh) = Range(rows) \cap {p \in Products \ Range(related) : TypeFits(p)}
    BY <1>8, AmongIn, AmongDistinct, AmongRange
  <1> HIDE DEF fresh
  <1>10. related \in Seq(Products) /\ fresh \in Seq(Products)
    <2>1. related \in Seq(Fitting) /\ Fitting \subseteq Products
      BY <1>2 DEF PathsInv, Fitting
    <2> QED BY <1>4, <1>9, <2>1, SeqWidens
  <1>11. PICK u : u = related \o fresh
    OBVIOUS
  <1>12. /\ u \in Seq(Products) /\ Len(u) = Len(related) + Len(fresh)
         /\ Len(related) \in Nat /\ Len(fresh) \in Nat
         /\ Range(u) = Range(related) \union Range(fresh)
    BY <1>10, <1>11, ConcatRange
  <1>13. related' = Take(u, CatalogueLimit)
    BY <1>1, <1>11
  <1>14. Range(related') \subseteq Range(related) \union Range(fresh)
    <2>1. PICK r : r = related'
      OBVIOUS
    <2>2. /\ r \in Seq(Products)
          /\ Len(r) = IF CatalogueLimit < 0 THEN 0
                      ELSE IF CatalogueLimit < Len(u) THEN CatalogueLimit ELSE Len(u)
          /\ \A i \in 1 .. Len(r) : r[i] = u[i]
      BY <1>2, <1>12, <1>13, <2>1, TakeIsStart
    <2>3. DOMAIN r = 1 .. Len(r) /\ DOMAIN u = 1 .. Len(u) /\ Len(u) \in Nat
      BY <1>12, <2>2
    <2>4. \A i \in 1 .. Len(r) : i \in 1 .. Len(u)
      BY <1>2, <2>2, <2>3
    <2> QED BY <1>12, <2>1, <2>2, <2>3, <2>4 DEF Range
  <1>15. Range(related') \cap Range(fusedRest) = {}
    <2>1. InCatalogue \cap Range(fusedRest) = {}
      BY DEF InCatalogue, Excluded
    <2>2. Range(rows) \subseteq InCatalogue
      BY <1>8 DEF Range
    <2> QED BY <1>9, <1>14, <2>1, <2>2 DEF ExhaustInv, CatalogueInv
  <1>16. ASSUME req.limit # None
         PROVE  /\ Distinct(related') /\ CatalogueLimit \in Nat
                /\ Len(related') >= CatalogueLimit \/ related' = u
    <2>1. CatalogueLimit \in Nat
      <3>1. Len(related) <= CatalogueLimit
        BY <1>16 DEF ExhaustInv, RankingInv, TailInv
      <3> QED BY <1>2, <1>12, <3>1
    <2>2. Distinct(related) /\ Range(related) \cap Range(fresh) = {}
      BY <1>9, <1>16 DEF ExhaustInv, CatalogueInv
    <2>3. Distinct(u)
      BY <1>9, <1>10, <1>11, <2>2, ConcatDistinct
    <2>4. Distinct(related')
      BY <1>12, <1>13, <2>1, <2>3, TakeDistinct
    <2>5. Len(u) \in Nat
      BY <1>12
    <2>6. CASE Len(u) <= CatalogueLimit
      BY <1>12, <1>13, <2>1, <2>4, <2>6, TakeAll
    <2>7. CASE ~(Len(u) <= CatalogueLimit)
      <3>1. Len(Take(u, CatalogueLimit)) = IF CatalogueLimit < 0 THEN 0
              ELSE IF CatalogueLimit < Len(u) THEN CatalogueLimit ELSE Len(u)
        BY <1>2, <1>12, TakeIsStart
      <3>2. Len(Take(u, CatalogueLimit)) = CatalogueLimit
        BY <2>1, <2>5, <2>7, <3>1
      <3> QED BY <1>13, <2>1, <2>4, <3>2
    <2> QED BY <2>6, <2>7
  <1>17. CatalogueRows' = all /\ CatalogueLimit' = CatalogueLimit
         /\ \A p : TypeFits(p)' = TypeFits(p)
    <2>1. CatalogueRows' = CatalogueRows
      BY <1>1, CatalogueRowsStay
    <2> QED BY <1>1, <1>3, <2>1 DEF CatalogueLimit, TailLimit, TypeFits
  <1>18. ASSUME TailMayFill', ~TailFull' PROVE NearKept' /\ ReadTo(offset)'
    <2>1. TailMayFill
      BY <1>1, <1>18 DEF TailMayFill, TailAllowed, HasAnchor
    <2>2. req.limit # None
      BY <2>1 DEF TailMayFill
    <2>3. related' = u /\ ~(Len(u) >= CatalogueLimit)
      BY <1>16, <1>17, <1>18, <2>2 DEF TailFull
    <2>4. ~TailFull
      BY <1>2, <1>12, <2>3 DEF TailFull
    <2>5. NearKept /\ ReadTo(offset)
      BY <1>1, <2>1, <2>4 DEF ExhaustInv, CatalogueInv
    <2>6. NearKept'
      BY <1>1, <2>5 DEF NearKept, MatchesAnchor
    <2>7. ASSUME NEW k \in 1 .. Len(all), k <= offset + Len(rows), TypeFits(all[k])
          PROVE  all[k] \in Range(u)
      <3>1. CASE k <= offset
        <4>1. all[k] \in Range(related)
          BY <1>3, <2>5, <2>7, <3>1 DEF ReadTo
        <4> QED BY <1>12, <4>1
      <3>2. CASE ~(k <= offset)
        <4>1. k - offset \in 1 .. Len(rows) /\ offset + (k - offset) = k
          BY <1>2, <1>4, <1>8, <2>7, <3>2
        <4>2. k - offset \in 1 .. Len(left)
          BY <1>2, <1>6, <1>8, <4>1
        <4>3. rows[k - offset] = all[k]
          BY <1>6, <1>8, <4>1, <4>2
        <4>4. all[k] \in Range(rows) /\ all[k] \in Products
          <5>1. DOMAIN rows = 1 .. Len(rows)
            BY <1>8
          <5>2. all[k] \in InCatalogue
            BY <1>4
          <5> QED BY <1>4, <4>1, <4>3, <5>1, <5>2 DEF Range
        <4> QED BY <1>9, <1>12, <2>7, <4>4
      <3> QED BY <3>1, <3>2
    <2>8. ReadTo(offset)'
      <3>1. \A k \in 1 .. Len(all) :
              k <= offset' /\ TypeFits(all[k]) => all[k] \in Range(related')
        BY <1>1, <2>3, <2>7
      <3> QED BY <1>17, <3>1 DEF ReadTo
    <2> QED BY <2>6, <2>8
  <1>19. ASSUME TailMayFill', ~TailFull', stage' = "hydrate" PROVE ReadTo(Len(CatalogueRows))'
    <2>1. Len(rows) < PAGE_SIZE
      BY <1>1, <1>17, <1>19 DEF TailFull
    <2>2. offset + Len(rows) >= Len(all)
      BY <1>2, <1>4, <1>6, <1>8, <2>1
    <2>3. \A k \in 1 .. Len(all) : k <= offset'
      BY <1>1, <1>2, <1>4, <1>8, <2>2
    <2>4. ReadTo(offset)'
      BY <1>18, <1>19
    <2> QED BY <1>17, <2>3, <2>4 DEF ReadTo
  <1>20. stage' \in {"catalogue", "hydrate"}
    BY <1>1
  <1>21. /\ changes' \in Nat /\ req' = req
         /\ ranked' \in Seq(ResultsOf(Range(candidates))') /\ IdsDistinct(ranked)'
         /\ changes' = 0 => indexed' = Products /\ price' = [p \in Products |-> Row[p].fee]
    BY <1>1 DEF ExhaustInv, CatalogueInv, ResultsOf, IdsDistinct
  <1>22. /\ req.browseOnly => fusedRest' = <<>>
         /\ Distinct(fusedRest') /\ Distinct(hybrid') /\ Range(hybrid') \subseteq Range(fusedRest')
    BY <1>1 DEF ExhaustInv, CatalogueInv
  <1>23. /\ stage' \in {"retrieve", "rank", "tail"} => offset' = 0
         /\ stage' = "catalogue" /\ TailMayFill' => TailFull' \/ (NearKept' /\ ReadTo(offset)')
         /\ stage' = "hydrate" /\ TailMayFill' =>
              TailFull' \/ (NearKept' /\ ReadTo(Len(CatalogueRows))')
    BY <1>18, <1>19, <1>20
  <1>24. /\ Range(related') \cap Range(fusedRest') = {}
         /\ req'.limit # None => Distinct(related')
    BY <1>1, <1>15, <1>16
  <1> QED BY <1>21, <1>22, <1>23, <1>24 DEF CatalogueInv

\* The first places of the elements of a sequence name all of them, once.
LEMMA FirstOfRange ==
    ASSUME NEW T, NEW s \in Seq(T)
    PROVE  FirstOf(s) \in Seq(T) /\ Range(FirstOf(s)) = Range(s)
  <1> DEFINE F == {i \in DOMAIN s : \A j \in 1..(i-1) : s[j] # s[i]}
  <1>1. Len(s) \in Nat /\ DOMAIN s = 1 .. Len(s) /\ F \in SUBSET (1 .. Len(s))
    OBVIOUS
  <1>2. ASSUME NEW m \in 1 .. Len(s) PROVE \E i \in F : s[i] = s[m]
    <2> DEFINE Same == {i \in 1 .. Len(s) : s[i] = s[m]}
    <2>1. Same \subseteq Nat /\ m \in Same
      BY <1>1
    <2>2. PICK i \in Same : \A k \in Same : i <= k
      <3> HIDE DEF Same
      <3> QED BY <2>1, LeastOf
    <2>3. i \in 1 .. Len(s) /\ s[i] = s[m]
      BY <2>2
    <2>4. \A j \in 1 .. (i - 1) : s[j] # s[i]
      <3> SUFFICES ASSUME NEW j \in 1 .. (i - 1), s[j] = s[i] PROVE FALSE
        OBVIOUS
      <3>1. j \in Same /\ ~(i <= j)
        BY <1>1, <2>3
      <3> QED BY <2>2, <3>1
    <2> QED BY <1>1, <2>3, <2>4
  <1>3. FirstOf(s) = Picked(s, F)
    BY DEF FirstOf
  <1> HIDE DEF F
  <1>4. PICK u, f : u \in Seq(T) /\ u = FirstOf(s) /\ Selects(f, u, s, F)
    BY <1>1, <1>3, PickedSelects
  <1>5. DOMAIN u = 1 .. Len(u)
    OBVIOUS
  <1>6. \A i \in 1 .. Len(u) : u[i] \in Range(s)
    BY <1>1, <1>4 DEF Selects, Range
  <1>7. \A m \in 1 .. Len(s) : s[m] \in Range(u)
    <2> SUFFICES ASSUME NEW m \in 1 .. Len(s) PROVE s[m] \in Range(u)
      OBVIOUS
    <2>1. PICK i \in F : s[i] = s[m]
      BY <1>2
    <2>2. PICK k \in 1 .. Len(u) : f[k] = i
      BY <1>4, <2>1 DEF Selects
    <2>3. u[k] = s[i]
      BY <1>4, <2>2 DEF Selects
    <2> QED BY <1>5, <2>1, <2>3 DEF Range
  <1>8. Range(u) = Range(s)
    BY <1>1, <1>5, <1>6, <1>7 DEF Range
  <1> QED BY <1>4, <1>8

\* Of a sequence without repetition nothing is left out.
LEMMA FirstOfDistinct ==
    ASSUME NEW T, NEW s \in Seq(T), Distinct(s), NEW S, Range(s) \subseteq S
    PROVE  Len(Among(FirstOf(s), S)) = Len(s)
  <1> DEFINE F == {i \in DOMAIN s : \A j \in 1..(i-1) : s[j] # s[i]}
  <1>1. DOMAIN s = 1 .. Len(s) /\ Len(s) \in Nat /\ Cardinality(1 .. Len(s)) = Len(s)
    BY LengthIsCardinality
  <1>2. F = 1 .. Len(s)
    <2> SUFFICES ASSUME NEW i \in 1 .. Len(s), NEW j \in 1 .. (i - 1), s[j] = s[i] PROVE FALSE
      BY <1>1
    <2>1. j \in 1 .. Len(s) /\ j # i
      BY <1>1
    <2> QED BY <2>1 DEF Distinct
  <1>3. FirstOf(s) = Picked(s, F)
    BY DEF FirstOf
  <1> HIDE DEF F
  <1>4. PICK u : u = FirstOf(s)
    OBVIOUS
  <1>5. u \in Seq(T) /\ Len(u) = Len(s)
    <2>1. F \in SUBSET (1 .. Len(s))
      BY <1>2
    <2>2. Picked(s, F) \in Seq(T) /\ Len(Picked(s, F)) = Cardinality(F)
      BY <2>1, PickedSelects
    <2> QED BY <1>1, <1>2, <1>3, <1>4, <2>2
  <1>6. Range(u) = Range(s)
    BY <1>4, FirstOfRange
  <1>7. PlacesOf(u, S) = 1 .. Len(u)
    <2>1. DOMAIN u = 1 .. Len(u)
      BY <1>5
    <2>2. \A i \in 1 .. Len(u) : u[i] \in S
      BY <1>6, <2>1 DEF Range
    <2> QED BY <2>1, <2>2 DEF PlacesOf
  <1>8. Among(u, S) = Picked(u, PlacesOf(u, S))
    BY DEF Among, PlacesOf
  <1>9. Len(Among(u, S)) = Cardinality(PlacesOf(u, S))
    <2>1. PlacesOf(u, S) \in SUBSET (1 .. Len(u))
      BY <1>7
    <2> QED BY <1>5, <1>8, <2>1, PickedSelects
  <1> QED BY <1>1, <1>4, <1>5, <1>7, <1>9

\* What suits is found by the keyword index.
LEMMA SuitsLexical == ASSUME NEW p \in Products, Suits(p) PROVE LexicalMatches(p)
  <1>1. CategoriesMatch(p)
    BY DEF Suits, CategoriesMatch
  <1> QED BY <1>1 DEF Suits, LexicalMatches, IncludeUnpriced

\* A full tail fills the page.
LEMMA FullTailFillsPage ==
    ASSUME ExhaustInv, TailMayFill, TailFull, stage = "hydrate"
    PROVE  Distinct(Together) /\ Len(Together) >= req.limit
  <1>1. PathsInv /\ TailInv /\ CatalogueInv /\ FusedInv
    BY DEF ExhaustInv, RankingInv
  <1>2. req.limit \in Nat /\ TailLimit \in Nat /\ CatalogueLimit \in Int /\ req.limit # None
    BY <1>1, TailLimitIsANumber, CatalogueLimitIsANumber, DataAssumption, ValueAssumption
       DEF PathsInv, TailMayFill
  <1>3. PICK p, h, r : p = Primary /\ h = hybrid /\ r = related
    OBVIOUS
  <1>4. /\ p \in Seq(Fitting) /\ h \in Seq(Fitting) /\ r \in Seq(Fitting)
        /\ Len(p) = Len(ranked) /\ Len(p) \in Nat /\ Len(h) \in Nat /\ Len(r) \in Nat
    <2>1. p \in Seq(Fitting) /\ Len(p) = Len(ranked)
      BY <1>1, <1>3, TogetherIs
    <2>2. h \in Seq(Fitting) /\ r \in Seq(Fitting)
      BY <1>1, <1>3 DEF PathsInv
    <2> QED BY <2>1, <2>2
  <1>5. Len(r) = CatalogueLimit
    BY <1>1, <1>2, <1>3, <1>4 DEF TailFull, TailInv
  <1>6. Len(p) + Len(h) + Len(r) = req.limit
    <2>1. CASE req.browseOnly
      <3>1. ranked = <<>> /\ hybrid = <<>>
        BY <1>1, <2>1 DEF TailInv
      <3>2. Len(p) = 0 /\ Len(h) = 0
        BY <1>3, <1>4, <3>1
      <3>3. Len(r) = req.limit
        BY <1>2, <1>5, <2>1 DEF CatalogueLimit
      <3> QED BY <1>2, <3>2, <3>3
    <2>2. CASE ~req.browseOnly
      <3>1. Len(r) = TailLimit - Len(h)
        BY <1>3, <1>5, <2>2 DEF CatalogueLimit
      <3>2. Len(p) <= req.limit
        BY <1>1, <1>2, <1>4 DEF TailInv
      <3>3. PICK n \in Nat : n = Len(p)
        BY <1>4
      <3>4. PICK m \in Nat : m = req.limit
        BY <1>2
      <3>5. TailLimit = Largest(m - n, 0)
        <4>1. Len(ranked) = n
          BY <1>4, <3>3
        <4> QED BY <1>2, <3>4, <4>1 DEF TailLimit
      <3>6. n <= m
        BY <3>2, <3>3, <3>4
      <3>7. Largest(m - n, 0) = m - n
        BY <3>6 DEF Largest
      <3>8. Len(r) = (m - n) - Len(h)
        BY <3>1, <3>5, <3>7
      <3>9. PICK lh \in Nat, lr \in Nat : lh = Len(h) /\ lr = Len(r)
        BY <1>4
      <3>10. n + lh + lr = m
        BY <3>8, <3>9
      <3> QED BY <3>3, <3>4, <3>9, <3>10
    <2> QED BY <2>1, <2>2
  <1>7. PICK t : t = Take(spare, Largest(TailLimit - Len(hybrid) - Len(related), 0))
    OBVIOUS
  <1>8. t = <<>>
    <2>1. spare \in Seq(Fitting)
      BY <1>1 DEF PathsInv
    <2>2. CASE req.browseOnly
      <3>1. spare = <<>>
        BY <1>1, <2>2 DEF TailInv
      <3>2. PICK m \in Nat : m = Largest(TailLimit - Len(hybrid) - Len(related), 0)
        <4>1. TailLimit - Len(hybrid) - Len(related) \in Int
          BY <1>2, <1>3, <1>4
        <4>2. Largest(TailLimit - Len(hybrid) - Len(related), 0) \in Nat
          BY <4>1 DEF Largest
        <4> QED BY <4>2
      <3>3. t \in Seq(Fitting) /\ Len(t) <= Len(spare)
        BY <1>7, <2>1, <3>2, TakeIsStart, TakeIsShort
      <3>4. Len(t) = 0
        BY <3>1, <3>3
      <3> QED BY <3>3, <3>4, EmptySeq
    <2>3. CASE ~req.browseOnly
      <3>1. TailLimit - Len(hybrid) - Len(related) = 0
        <4>1. Len(r) = TailLimit - Len(h)
          BY <1>3, <1>5, <2>3 DEF CatalogueLimit
        <4> QED BY <1>2, <1>3, <1>4, <4>1
      <3>2. t = Take(spare, 0)
        BY <1>7, <3>1 DEF Largest
      <3>3. t \in Seq(Fitting) /\ Len(t) = 0
        <4>1. Take(spare, 0) \in Seq(Fitting)
              /\ Len(Take(spare, 0)) = IF 0 < 0 THEN 0 ELSE IF 0 < Len(spare) THEN 0 ELSE Len(spare)
          BY <2>1, TakeIsStart
        <4>2. Len(spare) \in Nat
          BY <2>1
        <4> QED BY <3>2, <4>1, <4>2
      <3> QED BY <3>3, EmptySeq
    <2> QED BY <2>2, <2>3
  <1>9. Together = p \o h \o r
    <2>1. r \o <<>> = r
      BY <1>4
    <2> QED BY <1>3, <1>7, <1>8, <2>1 DEF Together, RelatedAndSpare
  <1>10. Distinct(p) /\ Range(p) \subseteq Range(candidates)
    <2>1. /\ DOMAIN ranked = 1 .. Len(ranked) /\ IdsDistinct(ranked)
          /\ \A i \in 1 .. Len(ranked) : ranked[i].id \in Range(candidates)
      <3>1. ranked \in Seq(ResultsOf(Range(candidates))) /\ IdsDistinct(ranked)
        BY <1>1 DEF CatalogueInv
      <3> QED BY <3>1, ResultFields
    <2>2. \A i \in 1 .. Len(p) : p[i] = ranked[i].id
      BY <1>3, <1>4, <2>1 DEF Primary
    <2>3. DOMAIN p = 1 .. Len(p)
      BY <1>4
    <2>4. Distinct(p)
      BY <1>4, <2>1, <2>2 DEF Distinct, IdsDistinct
    <2> QED BY <1>4, <2>1, <2>2, <2>3, <2>4 DEF Range
  <1>11. /\ Distinct(h) /\ Distinct(r)
         /\ Range(h) \subseteq Range(fusedRest) /\ Range(h) \cap Range(candidates) = {}
         /\ Range(r) \cap Range(fusedRest) = {} /\ Range(r) \cap Range(candidates) = {}
    BY <1>1, <1>2, <1>3 DEF CatalogueInv, TailInv
  <1>12. PICK both : both = p \o h
    OBVIOUS
  <1>13. /\ both \in Seq(Fitting) /\ Distinct(both) /\ Range(both) = Range(p) \union Range(h)
         /\ Len(both) = Len(p) + Len(h)
    <2>1. Range(p) \cap Range(h) = {}
      BY <1>10, <1>11
    <2>2. Distinct(both)
      BY <1>4, <1>10, <1>11, <1>12, <2>1, ConcatDistinct
    <2>3. Range(p \o h) = Range(p) \union Range(h)
      <3>1. p \in Seq(Fitting) /\ h \in Seq(Fitting)
        BY <1>4
      <3> QED BY <3>1, ConcatRange
    <2>4. p \o h \in Seq(Fitting) /\ Len(p \o h) = Len(p) + Len(h)
      <3>1. p \in Seq(Fitting) /\ h \in Seq(Fitting)
        BY <1>4
      <3> QED BY <3>1, ConcatProperties
    <2> QED BY <1>12, <2>2, <2>3, <2>4
  <1>14. PICK s : s = both \o r
    OBVIOUS
  <1>15. Distinct(s) /\ Len(s) = Len(both) + Len(r)
    <2>1. Range(both) \cap Range(r) = {}
      BY <1>10, <1>11, <1>13
    <2>2. both \in Seq(Fitting) /\ r \in Seq(Fitting) /\ Distinct(both) /\ Distinct(r)
      BY <1>4, <1>11, <1>13
    <2>3. Distinct(both \o r)
      BY <2>1, <2>2, ConcatDistinct
    <2>4. Len(both \o r) = Len(both) + Len(r)
      <3>1. both \in Seq(Fitting) /\ r \in Seq(Fitting)
        BY <2>2
      <3> QED BY <3>1, ConcatProperties
    <2> QED BY <1>14, <2>3, <2>4
  <1>16. Together = s /\ Len(s) = req.limit
    BY <1>6, <1>9, <1>12, <1>13, <1>14, <1>15
  <1> QED BY <1>2, <1>15, <1>16

\* What is put together has the tail.
LEMMA TogetherHasTail ==
    ASSUME PathsInv
    PROVE  Range(hybrid) \union Range(related) \subseteq Range(Together)
  <1>1. Primary \in Seq(Fitting) /\ Together \in Seq(Fitting)
    BY TogetherIs
  <1>2. PICK p, h, r : p = Primary /\ h = hybrid /\ r = related
    OBVIOUS
  <1>3. p \in Seq(Fitting) /\ h \in Seq(Fitting) /\ r \in Seq(Fitting)
    BY <1>1, <1>2 DEF PathsInv
  <1>4. PICK m \in Int : m = Largest(TailLimit - Len(hybrid) - Len(related), 0)
    <2>1. TailLimit \in Int /\ Len(hybrid) \in Int /\ Len(related) \in Int
      BY TailLimitIsANumber DEF PathsInv
    <2>2. Largest(TailLimit - Len(hybrid) - Len(related), 0) \in Int
      BY <2>1 DEF Largest
    <2> QED BY <2>2
  <1>5. PICK t : t = Take(spare, m)
    OBVIOUS
  <1>6. t \in Seq(Fitting)
    BY <1>5, TakeIsStart DEF PathsInv
  <1>7. PICK rest : rest = r \o t
    OBVIOUS
  <1>8. rest \in Seq(Fitting) /\ Range(rest) = Range(r) \union Range(t)
    BY <1>3, <1>6, <1>7, ConcatRange
  <1>9. PICK both : both = p \o h
    OBVIOUS
  <1>10. both \in Seq(Fitting) /\ Range(both) = Range(p) \union Range(h)
    BY <1>3, <1>9, ConcatRange
  <1>11. Together = both \o rest
    BY <1>2, <1>4, <1>5, <1>7, <1>9 DEF Together, RelatedAndSpare
  <1>12. Range(Together) = Range(both) \union Range(rest)
    BY <1>8, <1>10, <1>11, ConcatRange
  <1> QED BY <1>2, <1>8, <1>10, <1>12

\* The page shows what is put together, of the products that are still there.
LEMMA HydrateShows ==
    ASSUME PathsInv, Hydrate
    PROVE  /\ Shown' = Range(Together) \cap {p \in Products : price[p] # Deleted}
           /\ Len(page') = Len(Among(FirstOf(Together), {p \in Products : price[p] # Deleted}))
  <1> DEFINE ids == Among(ProductIds, {p \in Products : price[p] # Deleted})
             rows == [i \in DOMAIN ids |-> [id |-> ids[i], tier |-> Tier(ids[i]),
                                           fee |-> price[ids[i]]]]
  <1>1. page' = IF req.sort # None /\ ~req.browseOnly THEN Ordered(rows, PriceBefore) ELSE rows
    BY DEF Hydrate
  <1>2. PICK s : s = Together
    OBVIOUS
  <1>3. s \in Seq(Fitting) /\ ProductIds = FirstOf(s)
    BY <1>2, TogetherIs DEF ProductIds, Together
  <1>4. PICK u : u = FirstOf(s)
    OBVIOUS
  <1>5. u \in Seq(Fitting) /\ Range(u) = Range(s)
    BY <1>3, <1>4, FirstOfRange
  <1>6. ids = Among(u, {p \in Products : price[p] # Deleted})
    BY <1>3, <1>4
  <1>7. /\ ids \in Seq(Fitting \cap {p \in Products : price[p] # Deleted})
        /\ Range(ids) = Range(s) \cap {p \in Products : price[p] # Deleted}
    <2> HIDE DEF ids
    <2> QED BY <1>5, <1>6, AmongSelects, AmongRange
  <1> HIDE DEF ids
  <1>8. /\ Len(ids) \in Nat /\ DOMAIN ids = 1 .. Len(ids)
        /\ \A i \in 1 .. Len(ids) : ids[i] \in Fitting /\ price[ids[i]] \in Int \union {None}
    <2>1. \A p \in Fitting \cap {p \in Products : price[p] # Deleted} :
              price[p] \in Int \union {None}
      BY DEF PathsInv
    <2>2. \A i \in 1 .. Len(ids) : ids[i] \in Fitting \cap {p \in Products : price[p] # Deleted}
      BY <1>7
    <2> QED BY <1>7, <2>1, <2>2
  <1>9. DOMAIN rows = 1 .. Len(ids) /\ \A i \in 1 .. Len(ids) : rows[i].id = ids[i]
    BY <1>8
  <1>10. ~req.browseOnly => rows \in Seq(Rows(Fitting))
    <2>1. ~req.browseOnly => \A i \in 1 .. Len(ids) :
            [id |-> ids[i], tier |-> Tier(ids[i]), fee |-> price[ids[i]]] \in Rows(Fitting)
      BY <1>8 DEF Rows, Tier
    <2> QED BY <1>8, <2>1
  <1>11. Len(rows) = Len(ids)
    BY <1>8
  <1> HIDE DEF rows
  <1>12. PICK p : p = page'
    OBVIOUS
  <1>13. Range(p) = Range(rows) /\ Len(p) = Len(rows)
    <2>1. CASE req.sort # None /\ ~req.browseOnly
      <3>1. p = Ordered(rows, PriceBefore) /\ rows \in Seq(Rows(Fitting))
        BY <1>1, <1>10, <1>12, <2>1
      <3>2. p \in Seq(Rows(Fitting))
            /\ \E f : Reorders(f, p, rows, [i \in 1 .. Len(rows) |-> TierKey(rows[i])],
                               [i \in 1 .. Len(rows) |-> FeeKey(rows[i])])
        BY <3>1, PriceOrders
      <3>3. PICK f, a, b : Reorders(f, p, rows, a, b)
        BY <3>2
      <3>4. Range(p) = Range(rows)
        BY <3>1, <3>2, <3>3, ReorderedKeeps
      <3> QED BY <3>3, <3>4 DEF Reorders
    <2>2. CASE ~(req.sort # None /\ ~req.browseOnly)
      BY <1>1, <1>12, <2>2
    <2> QED BY <2>1, <2>2
  <1>14. Shown' = {x.id : x \in Range(p)}
    BY <1>12 DEF Shown, Range
  <1>15. {x.id : x \in Range(rows)} = Range(ids)
    BY <1>8, <1>9 DEF Range
  <1>16. Shown' = Range(s) \cap {q \in Products : price[q] # Deleted}
    BY <1>7, <1>13, <1>14, <1>15
  <1>17. Len(page') = Len(Among(FirstOf(s), {q \in Products : price[q] # Deleted}))
    BY <1>4, <1>6, <1>11, <1>12, <1>13
  <1> QED BY <1>2, <1>16, <1>17

\* A page with room left nothing out.
LEMMA HydrateExhausts == ASSUME ExhaustInv, Hydrate PROVE ShortPageIsExhausted'
  <1>1. /\ UNCHANGED <<req, indexed, price, candidates, fusedRest, ranked, anchor, hybrid, related,
                      changes>>
        /\ stage = "hydrate"
    BY DEF Hydrate, tail
  <1>2. PathsInv /\ CatalogueInv
    BY DEF ExhaustInv, RankingInv
  <1>3. SUFFICES ASSUME TailMayFill, Len(page') < req.limit,
                        NEW p \in Products, Fits(p), MatchesAnchor(p, anchor),
                        p \notin Range(candidates)
                 PROVE  p \in Shown'
    <2>1. \A q : Fits(q)' = Fits(q)
      BY <1>1 DEF Fits, HasPriceFilter, WithinBounds, Priced
    <2>2. \A q : MatchesAnchor(q, anchor)' = MatchesAnchor(q, anchor)
      BY <1>1 DEF MatchesAnchor
    <2>3. HasAnchor(anchor)' = HasAnchor(anchor) /\ TailAllowed' = TailAllowed
      BY <1>1 DEF HasAnchor, TailAllowed
    <2> QED BY <1>1, <1>3, <2>1, <2>2, <2>3 DEF ShortPageIsExhausted, TailMayFill
  <1>4. indexed = Products /\ \A q \in Products : price[q] # Deleted
    <2>1. indexed = Products /\ price = [q \in Products |-> Row[q].fee]
      BY <1>2, <1>3 DEF CatalogueInv, TailMayFill
    <2>2. \A q \in Products : Row[q].fee \in Int \union {None}
      BY DataAssumption
    <2>3. Deleted \notin Int /\ Deleted # None
      BY ValueAssumption
    <2> QED BY <2>1, <2>2, <2>3
  <1>5. PICK s : s = Together
    OBVIOUS
  <1>6. s \in Seq(Fitting) /\ Range(s) \subseteq {q \in Products : price[q] # Deleted}
    <2>1. s \in Seq(Fitting)
      BY <1>2, <1>5, TogetherIs
    <2>2. DOMAIN s = 1 .. Len(s) /\ \A i \in 1 .. Len(s) : s[i] \in Products
      BY <2>1 DEF Fitting
    <2> QED BY <1>4, <2>1, <2>2 DEF Range
  <1>7. Shown' = Range(s)
            /\ Len(page') = Len(Among(FirstOf(s), {q \in Products : price[q] # Deleted}))
    <2>1. /\ Shown' = Range(s) \cap {q \in Products : price[q] # Deleted}
          /\ Len(page') = Len(Among(FirstOf(s), {q \in Products : price[q] # Deleted}))
      BY <1>2, <1>5, HydrateShows
    <2> QED BY <1>6, <2>1
  <1>8. ~TailFull
    <2> SUFFICES ASSUME TailFull PROVE FALSE
      OBVIOUS
    <2>1. Distinct(s) /\ Len(s) >= req.limit
      BY <1>1, <1>3, <1>5, FullTailFillsPage
    <2>2. Len(page') = Len(s)
      <3> DEFINE S == {q \in Products : price[q] # Deleted}
      <3>1. Len(page') = Len(Among(FirstOf(s), S)) /\ Range(s) \subseteq S
        BY <1>6, <1>7
      <3> HIDE DEF S
      <3> QED BY <1>6, <2>1, <3>1, FirstOfDistinct
    <2>3. req.limit \in Nat /\ Len(s) \in Nat
      <3>1. req.limit \in Nat
        BY <1>2, <1>3, DataAssumption DEF PathsInv, TailMayFill
      <3> QED BY <1>6, <3>1
    <2> QED BY <1>3, <2>1, <2>2, <2>3
  <1>9. NearKept /\ ReadTo(Len(CatalogueRows))
    BY <1>1, <1>2, <1>3, <1>8 DEF CatalogueInv
  <1>10. CASE p \in Range(fusedRest)
    <2>1. p \in Range(hybrid)
      BY <1>3, <1>9, <1>10 DEF NearKept
    <2> QED BY <1>2, <1>5, <1>7, <2>1, TogetherHasTail
  <1>11. CASE p \notin Range(fusedRest)
    <2>1. p \in InCatalogue
      <3>1. Suits(p)
        BY <1>3 DEF Fits, Suits
      <3> QED BY <1>3, <1>4, <1>11, <3>1, SuitsLexical DEF InCatalogue, Excluded
    <2>2. TypeFits(p)
      BY <1>3, <1>4 DEF TypeFits, Fits
    <2>3. PICK k \in 1 .. Len(CatalogueRows) : CatalogueRows[k] = p
      BY <1>2, <2>1, CatalogueRowsAre
    <2>4. Len(CatalogueRows) \in Nat
      <3>1. CatalogueRows \in Seq(InCatalogue)
        BY <1>2, CatalogueRowsAre
      <3> QED BY <3>1
    <2>5. k <= Len(CatalogueRows)
      BY <2>4
    <2>6. p \in Range(related)
      BY <1>9, <2>2, <2>3, <2>5 DEF ReadTo
    <2> QED BY <1>2, <1>5, <1>7, <2>6, TogetherHasTail
  <1> QED BY <1>10, <1>11

\* A step that leaves what the tail is made of alone, and stays where it is in the search, or
\* serves or fails it.
LEMMA QuietCatalogue ==
    ASSUME CatalogueInv,
           UNCHANGED <<req, indexed, price, candidates, fusedRest, ranked, tail, changes>>,
           stage' \in {stage, "served", "failed"}
    PROVE  CatalogueInv'
  <1>1. CatalogueRows' = CatalogueRows
    BY CatalogueRowsStay DEF tail
  <1>2. TailMayFill' = TailMayFill
    BY DEF TailMayFill, TailAllowed, HasAnchor, tail
  <1>3. TailFull' = TailFull
    BY DEF TailFull, CatalogueLimit, TailLimit, tail
  <1>4. NearKept' = NearKept
    BY DEF NearKept, MatchesAnchor, tail
  <1>5. ReadTo(offset)' = ReadTo(offset) /\ ReadTo(Len(CatalogueRows))' = ReadTo(Len(CatalogueRows))
    BY <1>1 DEF ReadTo, TypeFits, tail
  <1>6. /\ changes' \in Nat
        /\ ranked' \in Seq(ResultsOf(Range(candidates))') /\ IdsDistinct(ranked)'
        /\ changes' = 0 => indexed' = Products /\ price' = [p \in Products |-> Row[p].fee]
    BY DEF CatalogueInv, ResultsOf, IdsDistinct
  <1>7. /\ req'.browseOnly => fusedRest' = <<>>
        /\ Distinct(fusedRest)' /\ Distinct(hybrid)' /\ Range(hybrid') \subseteq Range(fusedRest')
        /\ Range(related') \cap Range(fusedRest') = {}
        /\ req'.limit # None => Distinct(related)'
    BY DEF CatalogueInv, Distinct, tail
  <1>8. stage' \in {"retrieve", "rank", "tail"} => offset' = 0
    BY DEF CatalogueInv, tail
  <1>9. /\ stage' = "catalogue" /\ TailMayFill' => TailFull' \/ (NearKept' /\ ReadTo(offset)')
        /\ stage' = "hydrate" /\ TailMayFill' =>
             TailFull' \/ (NearKept' /\ ReadTo(Len(CatalogueRows))')
    BY <1>2, <1>3, <1>4, <1>5 DEF CatalogueInv
  <1> QED BY <1>6, <1>7, <1>8, <1>9 DEF CatalogueInv

\* A change of the catalogue ends what is promised of a page that has nothing left out.
LEMMA ChangedCatalogue == ASSUME CatalogueInv, Change PROVE CatalogueInv'
  <1>1. /\ UNCHANGED <<req, stage, candidates, fusedRest, ranked, hybrid, related, offset>>
        /\ changes' = changes + 1
    BY DEF Change, tail
  <1>2. changes' \in Nat /\ changes' # 0
    BY <1>1 DEF CatalogueInv
  <1>3. ~TailMayFill'
    BY <1>2 DEF TailMayFill
  <1>4. ranked' \in Seq(ResultsOf(Range(candidates))') /\ IdsDistinct(ranked)'
    BY <1>1 DEF CatalogueInv, ResultsOf, IdsDistinct
  <1>5. /\ req'.browseOnly => fusedRest' = <<>>
        /\ Distinct(fusedRest)' /\ Distinct(hybrid)' /\ Range(hybrid') \subseteq Range(fusedRest')
        /\ Range(related') \cap Range(fusedRest') = {}
        /\ req'.limit # None => Distinct(related)'
    BY <1>1 DEF CatalogueInv, Distinct
  <1>6. stage' \in {"retrieve", "rank", "tail"} => offset' = 0
    BY <1>1 DEF CatalogueInv
  <1> QED BY <1>2, <1>3, <1>4, <1>5, <1>6 DEF CatalogueInv

\* Without any restriction there is no anchor, and the tail stays empty.
LEMMA EmptyCatalogue == ASSUME CatalogueInv, BrowseNothing PROVE CatalogueInv'
  <1>1. /\ UNCHANGED <<req, indexed, price, candidates, fusedRest, ranked, tail, changes>>
        /\ stage' = "hydrate" /\ ~HasAnchor(anchor)
    BY DEF BrowseNothing, Restricted
  <1>2. ~TailMayFill'
    BY <1>1 DEF TailMayFill, HasAnchor, tail
  <1>3. /\ changes' \in Nat
        /\ ranked' \in Seq(ResultsOf(Range(candidates))') /\ IdsDistinct(ranked)'
        /\ changes' = 0 => indexed' = Products /\ price' = [p \in Products |-> Row[p].fee]
    BY <1>1 DEF CatalogueInv, ResultsOf, IdsDistinct
  <1>4. /\ req'.browseOnly => fusedRest' = <<>>
        /\ Distinct(fusedRest)' /\ Distinct(hybrid)' /\ Range(hybrid') \subseteq Range(fusedRest')
        /\ Range(related') \cap Range(fusedRest') = {}
        /\ req'.limit # None => Distinct(related)'
    BY <1>1 DEF CatalogueInv, Distinct, tail
  <1> QED BY <1>1, <1>2, <1>3, <1>4 DEF CatalogueInv

\* A step of the search keeps what its tail has passed.
LEMMA CatalogueNext ==
    ASSUME ExhaustInv, [RetrievalNext]_retrievalVars PROVE CatalogueInv'
  <1>1. CatalogueInv
    BY DEF ExhaustInv
  <1>2. CASE Fuse
    BY <1>2, FuseCatalogue
  <1>3. CASE Rank \/ RankFallsBack
    BY <1>3, RankCatalogue
  <1>4. CASE HybridTail
    BY <1>4, HybridCatalogue
  <1>5. CASE BrowsePage
    BY <1>5, BrowseCatalogue
  <1>6. CASE BrowseNothing
    BY <1>1, <1>6, EmptyCatalogue
  <1>7. CASE Change
    BY <1>1, <1>7, ChangedCatalogue
  <1>8. CASE VectorSearch \/ VectorFails \/ LexicalSearch \/ LexicalFails
    <2>1. /\ UNCHANGED <<req, indexed, price, candidates, fusedRest, ranked, tail, changes>>
          /\ stage' \in {stage, "served", "failed"}
      BY <1>8 DEF VectorSearch, VectorFails, LexicalSearch, LexicalFails
    <2> QED BY <1>1, <2>1, QuietCatalogue
  <1>9. CASE Hydrate \/ SearchFails
    <2>1. /\ UNCHANGED <<req, indexed, price, candidates, fusedRest, ranked, tail, changes>>
          /\ stage' \in {stage, "served", "failed"}
      BY <1>9 DEF Hydrate, SearchFails
    <2> QED BY <1>1, <2>1, QuietCatalogue
  <1>10. CASE UNCHANGED retrievalVars
    <2>1. /\ UNCHANGED <<req, indexed, price, candidates, fusedRest, ranked, tail, changes>>
          /\ stage' \in {stage, "served", "failed"}
      BY <1>10 DEF retrievalVars, tail
    <2> QED BY <1>1, <2>1, QuietCatalogue
  <1> QED BY <1>2, <1>3, <1>4, <1>5, <1>6, <1>7, <1>8, <1>9, <1>10 DEF RetrievalNext

\* A step of the search keeps what is said of its pages.
LEMMA ExhaustNext == ExhaustInv /\ [RetrievalNext]_retrievalVars => ExhaustInv'
  <1> SUFFICES ASSUME ExhaustInv, [RetrievalNext]_retrievalVars PROVE ExhaustInv'
    OBVIOUS
  <1>1. RankingInv'
    BY RankingNext DEF ExhaustInv
  <1>2. CatalogueInv'
    BY CatalogueNext
  <1>3. ShortPageIsExhausted'
    <2>1. CASE Hydrate
      BY <2>1, HydrateExhausts
    <2>2. CASE UNCHANGED retrievalVars
      <3>1. ShortPageIsExhausted' = ShortPageIsExhausted
        BY <2>2 DEF retrievalVars, ShortPageIsExhausted, Shown, Fits, MatchesAnchor, HasAnchor,
                    TailAllowed, HasPriceFilter, WithinBounds, Priced
      <3> QED BY <3>1 DEF ExhaustInv
    <2>3. CASE RetrievalNext /\ ~Hydrate
      <3>1. stage' # "served"
        BY <2>3 DEF RetrievalNext, VectorSearch, VectorFails, LexicalSearch, LexicalFails, Fuse,
          Rank, RankFallsBack, HybridTail, BrowsePage, BrowseNothing, SearchFails, Change, Ended
      <3> QED BY <3>1 DEF ShortPageIsExhausted
    <2> QED BY <2>1, <2>2, <2>3
  <1> QED BY <1>1, <1>2, <1>3 DEF ExhaustInv

\* A search that has begun has passed nothing yet.
LEMMA ExhaustStart == RetrievalInit => ExhaustInv
  <1> SUFFICES ASSUME RetrievalInit PROVE ExhaustInv
    OBVIOUS
  <1>1. RankingInv
    BY RankingStart
  <1>2. /\ candidates = <<>> /\ fusedRest = <<>> /\ ranked = <<>> /\ hybrid = <<>>
        /\ related = <<>> /\ offset = 0 /\ changes = 0 /\ indexed = Products
        /\ price = [p \in Products |-> Row[p].fee] /\ stage \in {"retrieve", "catalogue"}
    BY DEF RetrievalInit
  <1>3. Range(<<>>) = {} /\ Distinct(<<>>) /\ IdsDistinct(<<>>)
        /\ <<>> \in Seq(ResultsOf(Range(candidates)))
    BY DEF Range, Distinct, IdsDistinct
  <1>4. NearKept
    BY <1>2, <1>3 DEF NearKept
  <1>5. ReadTo(offset)
    <2>1. \A k \in 1 .. Len(CatalogueRows) : ~(k <= 0)
      OBVIOUS
    <2> QED BY <1>2, <2>1 DEF ReadTo
  <1>6. CatalogueInv
    BY <1>2, <1>3, <1>4, <1>5 DEF CatalogueInv
  <1>7. ShortPageIsExhausted
    BY <1>2 DEF ShortPageIsExhausted
  <1> QED BY <1>1, <1>6, <1>7 DEF ExhaustInv

\* A page with room left, of a catalogue that did not change meanwhile, shows everything the
\* search could have shown: what it leaves out was given to the reranker, which cut it
\* (ProductSearchEngine._hybrid_tail and ._filtered_search).
THEOREM ExhaustHolds == RetrievalSpec => []ShortPageIsExhausted
  <1>1. ExhaustInv => ShortPageIsExhausted
    BY DEF ExhaustInv
  <1> QED BY <1>1, ExhaustStart, ExhaustNext, PTL DEF RetrievalSpec
==============================================================================
