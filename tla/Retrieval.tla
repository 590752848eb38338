------------------------------ MODULE Retrieval ------------------------------
(***************************************************************************)
(* How one search turns a resolved plan into a page of products            *)
(* (ProductSearchEngine.retrieve, .search and ._filtered_search in         *)
(* search/engine.py; search/retrieval.py; SearchRankingMixin.rank and      *)
(* rerank; PersistentBM25Index.search and .browse; PgVectorCollection.query). *)
(* The vector and the keyword search run side by side, their lists are     *)
(* fused, checked against the tenant's database and cut to the window the  *)
(* reranker sees; the rest of the page is filled from the fused rest, then *)
(* from pages of the keyword index.                                        *)
(*                                                                         *)
(* While the search runs, an operator may ingest into the index in place   *)
(* and the tenant may delete or reprice a product in its database.         *)
(* A product has one document (mysql_document_id), so they are the same    *)
(* thing here; what the index knows of it is Row.                          *)
(***************************************************************************)
EXTENDS Integers, Sequences, FiniteSets, Functions

CONSTANTS
  Products,              \* document and product ids: 1..n, in rowid order
  Row,                   \* product -> category of each level, fee, type, title, verified
  Levels,                \* main_category_name, subcategory_name
  Requests,              \* plans, limits and configurations of the searches
  Scorings,              \* the reranker's scores, by product
  None,                  \* a model value: no filter, no fee, no bound
  Failed,                \* a model value: the search of a path raised
  Deleted,               \* a model value: no such product in the database
  UNPRICED_RENTAL_FEE_CEILING,
  VECTOR_EXACT_FILTER_MAX_ROWS, VECTOR_POST_FILTER_OVERFETCH_FACTOR,
  VECTOR_POST_FILTER_MAX_CANDIDATES, VECTOR_TOP_K, BM25_TOP_K, VECTOR_CANDIDATE_K,
  HYBRID_CANDIDATE_K, RETRIEVAL_OVERFETCH_FACTOR, RERANK_TOP_K, RERANK_CANDIDATE_K,
  PRIMARY_RANKED_K,
  RRF_CONSTANT, VECTOR_WEIGHT, BM25_WEIGHT, SOFT_CATEGORY_BOOST,
  SCORE_FLOOR,           \* reranker_min_score_by_provider, or None
  RELATIVE_FLOOR,        \* reranker_relative_score_floor, in percent; 0: none
  PAGE_SIZE,             \* rows the tail reads from the keyword index at a time
  Prices,                \* fees the tenant may set
  MaxChanges             \* bound: changes of the index and the database meanwhile

ASSUME RetrievalAssumption ==
  /\ Products \subseteq Nat /\ IsFiniteSet(Products) /\ IsFiniteSet(Levels)
  /\ PAGE_SIZE \in Nat \ {0} /\ MaxChanges \in Nat
  /\ RRF_CONSTANT \in Nat \ {0}
  /\ {VECTOR_WEIGHT, BM25_WEIGHT, SOFT_CATEGORY_BOOST, UNPRICED_RENTAL_FEE_CEILING} \subseteq Int

\* the settings that bound the windows
ASSUME WindowAssumption ==
  {VECTOR_POST_FILTER_OVERFETCH_FACTOR, VECTOR_POST_FILTER_MAX_CANDIDATES, VECTOR_TOP_K,
   BM25_TOP_K, VECTOR_CANDIDATE_K, HYBRID_CANDIDATE_K, RETRIEVAL_OVERFETCH_FACTOR,
   RERANK_TOP_K, RERANK_CANDIDATE_K, PRIMARY_RANKED_K} \subseteq Nat

\* no value is a number, and no fee or outcome is another one's
ASSUME ValueAssumption ==
  /\ {None, Failed, Deleted} \cap Int = {} /\ None \notin {Failed, Deleted}
  /\ {None, Failed} \cap Seq(Products) = {}

\* what a document, a request and a reranker's answer are made of
ASSUME DataAssumption ==
  /\ \A p \in Products : Row[p].fee \in Int \cup {None} /\ Row[p].verified \in BOOLEAN
  /\ Prices \subseteq Int
  /\ \A r \in Requests :
       /\ r.near \in Seq(Products) /\ r.words \in Seq(Products)
       /\ IsInjective(r.near) /\ IsInjective(r.words)
       /\ r.sort \in {None, "price_asc", "price_desc"}
       /\ r.adjust \in [Products -> Int]
       /\ r.limit \in Nat \cup {None} /\ r.window \in Nat \cup {None}
  /\ \A score \in Scorings : \A p \in Products : score[p] \in Int

VARIABLES
  req,        \* the plan, its filters and the engine's configuration
  stage,
  indexed,    \* products with a row in the index
  price,      \* the tenant's database: product -> fee, None or Deleted
  vectorOut,  \* results of the vector search, nearest first; Failed if it raised
  shadowEqual,\* what the shadow comparison reported
  optimizedOut, \* what the vector search gives from the rows of the optimized query
  lexicalOut, \* results of the keyword search, best first; Failed if it raised
  candidates, \* what the reranker is given
  fusedRest,  \* the fused results after them
  ranked,     \* the reranker's results: product and score
  anchor,     \* the categories the tail keeps to, by level
  hybrid, spare, related,  \* the parts of the tail
  offset,     \* rows of the keyword index the tail has read
  page,       \* the answer: product, tier and the fee the database gave
  changes

retrievalVars == <<req, stage, indexed, price, vectorOut, shadowEqual, optimizedOut, lexicalOut,
          candidates, fusedRest, ranked, anchor, hybrid, spare, related, offset, page,
          changes>>

found == <<vectorOut, shadowEqual, optimizedOut, lexicalOut>>
tail == <<anchor, hybrid, spare, related, offset>>

Ended == {"served", "failed"}

RetrievalInit ==
  /\ req \in Requests
  /\ stage = IF req.browseOnly THEN "catalogue" ELSE "retrieve"
  /\ indexed = Products
  /\ price = [p \in Products |-> Row[p].fee]
  /\ vectorOut = None /\ lexicalOut = None /\ optimizedOut = None
  /\ shadowEqual = "not_run"
  /\ candidates = <<>> /\ fusedRest = <<>> /\ ranked = <<>>
  /\ anchor = req.inferred
  /\ hybrid = <<>> /\ spare = <<>> /\ related = <<>> /\ offset = 0
  /\ page = <<>>
  /\ changes = 0

\* ------------------------------------------------------------------ sequences
Take(s, n) == SubSeq(s, 1, IF n < Len(s) THEN n ELSE Len(s))
Drop(s, n) == SubSeq(s, n + 1, Len(s))
Largest(a, b) == IF a > b THEN a ELSE b
Abs(n) == IF n < 0 THEN -n ELSE n
Least(a, b) == IF a < b THEN a ELSE b

\* the elements of a set in an order
Listed(S, Before(_, _)) ==
  [k \in 1..Cardinality(S) |-> CHOOSE x \in S : Cardinality({y \in S : Before(y, x)}) = k - 1]

\* the elements at some positions of a sequence, and those that are in a set
Picked(s, positions) ==
  LET order == Listed(positions, LAMBDA i, j : i < j)
  IN  [i \in DOMAIN order |-> s[order[i]]]
Among(s, S) == Picked(s, {i \in DOMAIN s : s[i] \in S})

\* sorted() is stable: the order of s decides between equals
Ordered(s, Before(_, _)) ==
  LET order == Listed(DOMAIN s, LAMBDA i, j :
                 \/ Before(s[i], s[j])
                 \/ ~Before(s[j], s[i]) /\ i < j)
  IN  [i \in DOMAIN s |-> s[order[i]]]

\* ----------------------------------------------------------- the hard filters
Priced(fee) == fee # None /\ fee > UNPRICED_RENTAL_FEE_CEILING
HasPriceFilter == req.min # None \/ req.max # None
WithinBounds(fee) ==
  /\ req.min # None => fee >= req.min
  /\ req.max # None => fee <= req.max

\* ads that ask for something often state no budget
IncludeUnpriced == req.types = {"wanted"}

CategoriesMatch(p) == \A l \in Levels : req.filter[l] # None => Row[p].cat[l] = req.filter[l]

\* metadata_matches_filters
MetadataMatches(p) ==
  LET fee == Row[p].fee
  IN  /\ CategoriesMatch(p)
      /\ \/ ~HasPriceFilter
         \/ fee = None /\ IncludeUnpriced
         \/ /\ fee # None
            /\ IF fee <= UNPRICED_RENTAL_FEE_CEILING THEN IncludeUnpriced
               ELSE WithinBounds(fee)

\* fault: the price predicate of the keyword index forgets the unpriced rows
LexicalMatchesPriceOnly(p) ==
  /\ CategoriesMatch(p)
  /\ HasPriceFilter => Row[p].fee # None /\ WithinBounds(Row[p].fee)

\* the WHERE clause of search and browse
LexicalMatches(p) ==
  /\ CategoriesMatch(p)
  /\ HasPriceFilter =>
       \/ IncludeUnpriced /\ ~Priced(Row[p].fee)
       \/ Priced(Row[p].fee) /\ WithinBounds(Row[p].fee)

\* vector_where_filter, and whether it restricts anything
WhereClauses == (\E l \in Levels : req.filter[l] # None) \/ (~IncludeUnpriced /\ HasPriceFilter)
WhereMatches(p) ==
  /\ CategoriesMatch(p)
  /\ ~IncludeUnpriced /\ HasPriceFilter => Row[p].fee # None /\ WithinBounds(Row[p].fee)

\* _filter_uses_index: every category has an expression index, the fee has none
FilterUsesIndex == \E l \in Levels : req.filter[l] # None

\* ------------------------------------------------------- sizes of the windows
PrimaryLimit ==
  LET configured == IF req.window # None THEN Least(PRIMARY_RANKED_K, req.window)
                    ELSE PRIMARY_RANKED_K
  IN  IF req.limit # None THEN Least(configured, req.limit) ELSE RERANK_TOP_K

RerankCandidateLimit ==
  LET configured == IF req.window # None THEN Least(RERANK_CANDIDATE_K, req.window)
                    ELSE RERANK_CANDIDATE_K
  IN  IF req.limit # None THEN Largest(PrimaryLimit, configured) ELSE None

Requested == IF RerankCandidateLimit # None THEN RerankCandidateLimit ELSE RERANK_TOP_K
RecallWindow == Largest(HYBRID_CANDIDATE_K, Requested)
Deep(normal) ==
  IF RerankCandidateLimit # None /\ RecallWindow > RERANK_TOP_K
  THEN Largest(Largest(VECTOR_TOP_K, BM25_TOP_K), RecallWindow * RETRIEVAL_OVERFETCH_FACTOR)
  ELSE normal
HybridTopK == IF req.window # None THEN Requested ELSE RecallWindow

\* ------------------------------------------------------------ the vector index
\* what an HNSW scan reaches, nearest first; a row its graph misses is never seen
Reached == Among(req.near, indexed \ {req.missed})
Nearest == Among(req.near, indexed)
Eligible == Cardinality({p \in indexed : WhereMatches(p)})

\* n_results, and the window of a search that filters afterwards; pgvector counts no
\* rows (query_limit_requires_count), so row_count is n_results and caps the window
NResults == Largest(VECTOR_CANDIDATE_K, Deep(VECTOR_TOP_K))
PostFilterWindow ==
  Least(Least(NResults * VECTOR_POST_FILTER_OVERFETCH_FACTOR,
              VECTOR_POST_FILTER_MAX_CANDIDATES), NResults)

\* the filter goes to the database unless the engine filters a fixed window itself
UsesWhere == WhereClauses /\ req.post # "window"
Exact == UsesWhere /\ FilterUsesIndex /\ Eligible <= VECTOR_EXACT_FILTER_MAX_ROWS
WindowOnly == WhereClauses /\ req.post = "window"

Filtered(rows) == IF UsesWhere THEN Among(rows, {p \in Products : WhereMatches(p)}) ELSE rows

\* _legacy_query_rows
LegacyPostFilter == UsesWhere /\ FilterUsesIndex /\ ~Exact /\ req.post = "adaptive"
LegacyRows ==
  IF Exact THEN Take(Filtered(Nearest), NResults)
  ELSE IF LegacyPostFilter THEN Take(Reached, Largest(NResults, PostFilterWindow))
  ELSE Take(Filtered(Reached), IF WindowOnly THEN PostFilterWindow ELSE NResults)

\* _optimized_query_rows
OptimizedRows ==
  IF Exact THEN Take(Filtered(Nearest), NResults)
  ELSE Take(Filtered(Reached), IF WindowOnly THEN PostFilterWindow ELSE NResults)

\* what the shadow comparison holds against the optimized rows
ShadowRows ==
  IF LegacyPostFilter THEN Take(Among(LegacyRows, {p \in Products : WhereMatches(p)}), NResults)
  ELSE LegacyRows

\* fault: the rows are compared pairwise and their number is not
RowsPairwiseEqual(legacy, optimized) ==
  \A i \in DOMAIN legacy \cap DOMAIN optimized : legacy[i] = optimized[i]

\* _rows_equivalent
RowsEquivalent(legacy, optimized) == legacy = optimized

\* vector_search: the rows that match, the first top_k of them
Kept(rows) == Take(Among(rows, {p \in Products : MetadataMatches(p)}), Deep(VECTOR_TOP_K))

VectorSearch ==
  /\ stage = "retrieve" /\ vectorOut = None
  /\ vectorOut' = Kept(IF req.mode = "optimized" THEN OptimizedRows ELSE LegacyRows)
  /\ IF req.mode = "shadow"
     THEN \* the optimized query of a shadow comparison may fail, and only it is lost
       \/ /\ shadowEqual' = IF RowsEquivalent(ShadowRows, OptimizedRows) THEN "equal" ELSE "different"
          /\ optimizedOut' = Kept(OptimizedRows)
       \/ shadowEqual' = "different" /\ UNCHANGED optimizedOut
     ELSE UNCHANGED <<shadowEqual, optimizedOut>>
  /\ UNCHANGED <<req, stage, indexed, price, lexicalOut, candidates, fusedRest, ranked,
                 tail, page, changes>>

\* the embedding, or the database of the vectors, fails
VectorFails ==
  /\ stage = "retrieve" /\ vectorOut = None
  /\ vectorOut' = Failed
  /\ UNCHANGED <<req, stage, indexed, price, shadowEqual, optimizedOut, lexicalOut,
                 candidates, fusedRest, ranked, tail, page, changes>>

\* PersistentBM25Index.search: the rows with a word of the query, best first
LexicalSearch ==
  /\ stage = "retrieve" /\ lexicalOut = None
  /\ lexicalOut' = Take(Among(req.words, {p \in indexed : LexicalMatches(p)}), Deep(BM25_TOP_K))
  /\ UNCHANGED <<req, stage, indexed, price, vectorOut, shadowEqual, optimizedOut,
                 candidates, fusedRest, ranked, tail, page, changes>>

LexicalFails ==
  /\ stage = "retrieve" /\ lexicalOut = None
  /\ lexicalOut' = Failed
  /\ UNCHANGED <<req, stage, indexed, price, vectorOut, shadowEqual, optimizedOut,
                 candidates, fusedRest, ranked, tail, page, changes>>

\* ------------------------------------------------------------------- fusion
\* merge_results: reciprocal ranks, in units of 1 / Scale
Scale == LET Times[k \in 0..Cardinality(Products)] ==
               IF k = 0 THEN 1 ELSE Times[k - 1] * (RRF_CONSTANT + k)
         IN  Times[Cardinality(Products)]
Share(results, p, weight) ==
  IF \E i \in DOMAIN results : results[i] = p
  THEN weight * (Scale \div (RRF_CONSTANT + (CHOOSE i \in DOMAIN results : results[i] = p)))
  ELSE 0
Boosts(p) == Cardinality({l \in Levels : req.inferred[l] # None /\ Row[p].cat[l] = req.inferred[l]})

Fetched(results) == IF results = Failed THEN <<>> ELSE results
FusionScore(p) ==
  Share(Fetched(vectorOut), p, VECTOR_WEIGHT) + Share(Fetched(lexicalOut), p, BM25_WEIGHT)
    + SOFT_CATEGORY_BOOST * Boosts(p)

\* the first result of a document stays where it was; then search_policy.adjust_candidates
\* moves the scores of what it knows and sorts again
Merged ==
  LET first == Fetched(vectorOut)
      all == first \o Among(Fetched(lexicalOut), Products \ Range(first))
      fused == Ordered(all, LAMBDA p, q : FusionScore(p) > FusionScore(q))
  IN  Ordered(fused, LAMBDA p, q : FusionScore(p) + req.adjust[p] > FusionScore(q) + req.adjust[q])

\* _fetch_product_types: a product the tenant deleted has no type
TypeFits(p) == price[p] # Deleted /\ Row[p].type \in req.types

\* retrieve, once both searches have ended: fusion, the type of every product, and
\* the window the reranker sees
Fuse ==
  /\ stage = "retrieve" /\ vectorOut # None /\ lexicalOut # None
  /\ ~(vectorOut = Failed /\ lexicalOut = Failed)
  /\ LET eligible == Among(Merged, {p \in Products : TypeFits(p)})
     IN  candidates' = Take(eligible, HybridTopK) /\ fusedRest' = Drop(eligible, HybridTopK)
  /\ stage' = "rank"
  /\ UNCHANGED <<req, indexed, price, found, ranked, tail, page, changes>>

\* ------------------------------------------------------------------ ranking
\* results are records of a product and its score, best first
ByScore(s) == Ordered(s, LAMBDA x, y : x.score > y.score)

\* fault: a band is measured from the row before, so bands run into each other
DriftingBands(s) ==
  LET Start[i \in DOMAIN s] ==
        IF i = 1 THEN 1
        ELSE IF 20 * (s[i-1].score - s[i].score) <= Abs(s[i-1].score) THEN Start[i-1] ELSE i
  IN  Start

\* where the five per cent band of each row begins
BandStart(s) ==
  LET Start[i \in DOMAIN s] ==
        IF i = 1 THEN 1
        ELSE LET b == Start[i-1]
             IN  IF 20 * (s[b].score - s[i].score) <= Abs(s[b].score) THEN b ELSE i
  IN  Start

\* prioritize_verified_within_relevance_bands
VerifiedFirst(s) ==
  LET start == BandStart(s)
      order == Listed(DOMAIN s, LAMBDA i, j :
                 \/ start[i] < start[j]
                 \/ /\ start[i] = start[j]
                    /\ \/ Row[s[i].id].verified /\ ~Row[s[j].id].verified
                       \/ Row[s[i].id].verified = Row[s[j].id].verified /\ i < j)
  IN  [i \in DOMAIN s |-> s[order[i]]]

\* rerank: repeated titles give way to fresh ones within the first k
Diverse(s, k) ==
  LET fresh == {i \in DOMAIN s :
                  \/ Row[s[i].id].title = None
                  \/ \A j \in 1..(i-1) : Row[s[j].id].title # Row[s[i].id].title}
      first == {i \in fresh : Cardinality({j \in fresh : j < i}) < k}
      order == Listed(DOMAIN s, LAMBDA i, j :
                 \/ i \in first /\ j \notin first
                 \/ (i \in first <=> j \in first) /\ i < j)
  IN  Take([i \in DOMAIN s |-> s[order[i]]], k)

\* the floors of rank: what scores too low is dropped
AboveFloors(s) ==
  LET top == s[1].score
      floors == (IF SCORE_FLOOR # None THEN {100 * SCORE_FLOOR} ELSE {})
                  \cup (IF RELATIVE_FLOOR > 0 /\ top > 0 THEN {top * RELATIVE_FLOOR} ELSE {})
  IN  IF s = <<>> THEN s ELSE Among(s, {x \in Range(s) : \A f \in floors : 100 * x.score >= f})

WithScores(score) == [i \in DOMAIN candidates |-> [id |-> candidates[i], score |-> score[candidates[i]]]]

\* the page the ranking is for: what extract_product_ids finds in it
Primary == [i \in DOMAIN ranked |-> ranked[i].id]

Rank ==
  /\ stage = "rank"
  /\ \E score \in Scorings :
       ranked' = AboveFloors(Diverse(VerifiedFirst(ByScore(WithScores(score))), PrimaryLimit))
  /\ stage' = "tail"
  /\ UNCHANGED <<req, indexed, price, found, candidates, fusedRest, tail, page, changes>>

\* _fusion_fallback_results: every reranker failed; no floors
RankFallsBack ==
  /\ stage = "rank" /\ candidates # <<>>
  /\ ranked' = Take(VerifiedFirst(WithScores([p \in Products |-> FusionScore(p) + req.adjust[p]])),
                    PrimaryLimit)
  /\ stage' = "tail"
  /\ UNCHANGED <<req, indexed, price, found, candidates, fusedRest, tail, page, changes>>

\* ----------------------------------------------------------------- the tail
TailLimit == IF req.limit = None THEN 0 ELSE Largest(req.limit - Len(ranked), 0)

\* _semantic_related_tail_allowed
TailAllowed ==
  /\ req.tailEnabled
  /\ req.tailNeedsCategory => \E l \in Levels : req.filter[l] # None

\* the strongest match anchors a level the plan left open or relaxed
AnchorFrom(top) ==
  [l \in Levels |->
     IF /\ req.filter[l] = None /\ top # None
        /\ req.inferred[l] = None \/ l \in req.relaxed
     THEN Row[top].cat[l] ELSE req.inferred[l]]
HasAnchor(a) == \E l \in Levels : req.filter[l] # None \/ a[l] # None

MatchesAnchor(p, a) ==
  \A l \in Levels :
    LET expected == IF req.filter[l] # None THEN req.filter[l] ELSE a[l]
    IN  expected # None => Row[p].cat[l] = expected

\* what is left of the fused list, by whether it keeps to the anchor
HybridTail ==
  /\ stage = "tail"
  /\ LET a == AnchorFrom(IF ranked = <<>> THEN None ELSE ranked[1].id)
         rest == Among(fusedRest, Products \ Range(Primary))
         keeping == {p \in Products : HasAnchor(a) /\ MatchesAnchor(p, a)}
         near == Among(rest, keeping)
         far == Among(rest, Products \ keeping)
     IN  /\ anchor' = a
         /\ IF TailAllowed /\ TailLimit > 0
            THEN /\ hybrid' = Take(IF HasAnchor(a) THEN near ELSE far, TailLimit)
                 /\ spare' = IF HasAnchor(a) THEN far ELSE <<>>
            ELSE UNCHANGED <<hybrid, spare>>
         /\ stage' = IF TailAllowed /\ HasAnchor(a) /\ TailLimit > Len(hybrid')
                     THEN "catalogue" ELSE "hydrate"
  /\ UNCHANGED <<req, indexed, price, found, candidates, fusedRest, ranked, related, offset,
                 page, changes>>

\* ------------------------------------------- pages of the keyword index (browse)
CatalogueLimit ==
  IF req.browseOnly THEN IF req.limit # None THEN req.limit ELSE RERANK_TOP_K
  ELSE TailLimit - Len(hybrid)

\* without any restriction the tail stays empty
Restricted == HasAnchor(anchor) \/ HasPriceFilter

\* exclude_doc_ids
Excluded == Range(candidates) \cup Range(fusedRest)

InCatalogue == {p \in indexed \ Excluded : LexicalMatches(p) /\ MatchesAnchor(p, anchor)}

\* ORDER BY of browse; rowid decides last
BrowsedBefore(p, q) ==
  LET fp == Row[p].fee
      fq == Row[q].fee
  IN  IF req.sort = None
      THEN \/ Row[p].verified /\ ~Row[q].verified
           \/ Row[p].verified = Row[q].verified /\ p > q
      ELSE IF ~(Priced(fp) <=> Priced(fq)) THEN Priced(fp)
      ELSE IF ~(fp = None <=> fq = None) THEN fp # None
      ELSE IF fp = fq THEN p > q
      ELSE IF req.sort = "price_asc" THEN fp < fq ELSE fp > fq

\* fault: one page is all that is read
BrowseOnePage ==
  /\ stage = "catalogue" /\ Restricted
  /\ LET rows == Take(Listed(InCatalogue, BrowsedBefore), PAGE_SIZE)
     IN  related' = Take(Among(rows, {p \in Products : TypeFits(p)}), CatalogueLimit)
  /\ stage' = "hydrate"
  /\ UNCHANGED <<req, indexed, price, found, candidates, fusedRest, ranked, anchor, hybrid,
                 spare, offset, page, changes>>

\* one round of related_tail_product_ids: a page, the types of its products, and
\* what is new of them
BrowsePage ==
  /\ stage = "catalogue" /\ Restricted
  /\ LET rows == Take(Drop(Listed(InCatalogue, BrowsedBefore), offset), PAGE_SIZE)
         fresh == Among(rows, {p \in Products \ Range(related) : TypeFits(p)})
     IN  /\ related' = Take(related \o fresh, CatalogueLimit)
         /\ offset' = offset + Len(rows)
         /\ stage' = IF Len(rows) < PAGE_SIZE \/ Len(related') >= CatalogueLimit
                     THEN "hydrate" ELSE "catalogue"
  /\ UNCHANGED <<req, indexed, price, found, candidates, fusedRest, ranked, anchor, hybrid,
                 spare, page, changes>>

BrowseNothing ==
  /\ stage = "catalogue" /\ ~Restricted
  /\ stage' = "hydrate"
  /\ UNCHANGED <<req, indexed, price, found, candidates, fusedRest, ranked, tail, page, changes>>

\* ------------------------------------------------------------------ the page
\* what the catalogue could not fill, the fused results outside the anchor do
RelatedAndSpare ==
  related \o Take(spare, Largest(TailLimit - Len(hybrid) - Len(related), 0))

\* dict.fromkeys
FirstOf(s) == Picked(s, {i \in DOMAIN s : \A j \in 1..(i-1) : s[j] # s[i]})

ProductIds == FirstOf(Primary \o hybrid \o RelatedAndSpare)

Tier(p) == IF req.browseOnly THEN "filtered"
           ELSE IF p \in Range(Primary) THEN "ranked" ELSE "related"

\* price_key: the tier, then what has a price; a fee under the ceiling sorts upwards
\* and a missing one as zero
PriceBefore(x, y) ==
  LET fee(z) == IF z.fee = None THEN 0 ELSE z.fee
  IN  \/ x.tier = "ranked" /\ y.tier # "ranked"
      \/ /\ x.tier = y.tier
         /\ \/ Priced(x.fee) /\ ~Priced(y.fee)
            \/ /\ Priced(x.fee) /\ Priced(y.fee)
               /\ IF req.sort = "price_desc" THEN x.fee > y.fee ELSE x.fee < y.fee
            \/ ~Priced(x.fee) /\ ~Priced(y.fee) /\ fee(x) < fee(y)

\* _fetch_products in the order of the ids; a product deleted meanwhile is left out
Hydrate ==
  /\ stage = "hydrate"
  /\ LET ids == Among(ProductIds, {p \in Products : price[p] # Deleted})
         rows == [i \in DOMAIN ids |-> [id |-> ids[i], tier |-> Tier(ids[i]),
                                       fee |-> price[ids[i]]]]
     IN  page' = IF req.sort # None /\ ~req.browseOnly THEN Ordered(rows, PriceBefore) ELSE rows
  /\ stage' = "served"
  /\ UNCHANGED <<req, indexed, price, found, candidates, fusedRest, ranked, tail, changes>>

\* both searches failed, or a query of the tenant's database did
SearchFails ==
  /\ \/ stage = "retrieve" /\ vectorOut # None /\ lexicalOut # None
     \/ stage \in {"catalogue", "hydrate"}
  /\ stage' = "failed"
  /\ UNCHANGED <<req, indexed, price, found, candidates, fusedRest, ranked, tail, page, changes>>

\* ------------------------------------------------------------ the environment
\* an operator ingests in place; the tenant deletes or reprices a product
Change ==
  /\ stage \notin Ended /\ changes < MaxChanges
  /\ changes' = changes + 1
  /\ \E p \in Products :
       \/ /\ indexed' = IF p \in indexed THEN indexed \ {p} ELSE indexed \cup {p}
          /\ UNCHANGED price
       \/ /\ price[p] # Deleted
          /\ \E fee \in Prices \cup {Deleted} : price' = [price EXCEPT ![p] = fee]
          /\ UNCHANGED indexed
  /\ UNCHANGED <<req, stage, found, candidates, fusedRest, ranked, tail, page>>

RetrievalNext ==
  \/ VectorSearch \/ VectorFails \/ LexicalSearch \/ LexicalFails \/ Fuse
  \/ Rank \/ RankFallsBack \/ HybridTail \/ BrowsePage \/ BrowseNothing
  \/ Hydrate \/ SearchFails \/ Change

RetrievalSpec == RetrievalInit /\ [][RetrievalNext]_retrievalVars

\* ---------------------------------------------------------------- properties
Shown == {page[i].id : i \in DOMAIN page}

\* what the caller asked for, as a caller would say it: the categories, and a real
\* price within the bounds, or none at all where only wanted ads are searched
Fits(p) ==
  /\ \A l \in Levels : req.filter[l] \in {None, Row[p].cat[l]}
  /\ HasPriceFilter => IF Priced(Row[p].fee) THEN WithinBounds(Row[p].fee)
                       ELSE req.types = {"wanted"}
  /\ Row[p].type \in req.types

\* Whichever path a product came by (vector rows filtered by the database or
\* afterwards, the keyword index, the fused rest, a catalogue page), it satisfies
\* every hard filter and the ad type of the request: the four translations of the
\* filters in retrieval.py and bm25.py agree where it matters.
EveryPathFilters == \A p \in Shown : Fits(p)

\* The page never exceeds the limit, shows the reranker's choice before the tail,
\* sorts by the price it shows within each tier only, and what the reranker was
\* given and dropped does not come back through the tail.
PageKeepsTheRanking ==
  stage = "served" =>
    /\ req.limit # None => Len(page) <= req.limit
    /\ \A i, j \in DOMAIN page : page[i].tier = "ranked" /\ page[j].tier = "related" => i < j
    /\ req.sort # None /\ ~req.browseOnly =>
         \A i, j \in DOMAIN page :
           i < j /\ page[i].tier = page[j].tier /\ Priced(page[j].fee) =>
             /\ Priced(page[i].fee)
             /\ IF req.sort = "price_asc" THEN page[i].fee <= page[j].fee
                ELSE page[i].fee >= page[j].fee
    /\ Shown \cap Range(candidates) \subseteq Range(Primary)

\* A page that comes back short while the tail may fill it has left nothing out: if
\* nothing changed meanwhile, every product that fits and keeps to the anchor is on
\* it, or is one the reranker saw and dropped.  Duplicates between the parts of the
\* tail, or a window cut too early, would end a scroll before its end.
ShortPageIsExhausted ==
  stage = "served" /\ changes = 0 /\ req.limit # None /\ Len(page) < req.limit
    /\ HasAnchor(anchor) /\ (req.browseOnly \/ TailAllowed) =>
      \A p \in Products :
        Fits(p) /\ MatchesAnchor(p, anchor) => p \in Shown \/ p \in Range(candidates)

\* When the shadow comparison reports equal rows, switching query_mode to optimized
\* would have given this search the very same results, whatever filter and window
\* the legacy query used.
ShadowEqualIsSafe ==
  shadowEqual = "equal" => optimizedOut = vectorOut

\* A verified owner overtakes a better score only when the two are close: the band
\* is measured from its best score, so they differ by about five per cent of it, and
\* never by bands that run into each other.  (A repeated title may defer any result.)
VerifiedOnlyBreaksTies ==
  \A i, j \in DOMAIN ranked :
    i < j /\ ranked[i].score < ranked[j].score
      /\ Row[ranked[j].id].title \notin {Row[q].title : q \in Range(candidates) \ {ranked[j].id}} =>
        /\ Row[ranked[i].id].verified /\ ~Row[ranked[j].id].verified
        /\ 19 * (ranked[j].score - ranked[i].score)
             <= Largest(Abs(ranked[i].score), Abs(ranked[j].score))

\* The order of a page is the one that the reranker, the verified owners and the
\* caller's sorting justify.
RankingIsKept == PageKeepsTheRanking /\ VerifiedOnlyBreaksTies
=============================================================================
