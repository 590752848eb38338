SPECIFICATION RankingSpec
CONSTANTS
  main = main
  sub = sub
  Products <- MCProducts
  Row <- MCRow
  Levels = {main, sub}
  Requests <- MCRequests
  Scorings <- MCScorings
  None = None
  Failed = Failed
  Deleted = Deleted
  UNPRICED_RENTAL_FEE_CEILING = 1
  VECTOR_EXACT_FILTER_MAX_ROWS = 2
  VECTOR_POST_FILTER_OVERFETCH_FACTOR = 2
  VECTOR_POST_FILTER_MAX_CANDIDATES = 4
  VECTOR_TOP_K = 2
  BM25_TOP_K = 2
  VECTOR_CANDIDATE_K = 3
  HYBRID_CANDIDATE_K = 3
  RETRIEVAL_OVERFETCH_FACTOR = 1
  RERANK_TOP_K = 2
  RERANK_CANDIDATE_K = 2
  PRIMARY_RANKED_K = 3
  RRF_CONSTANT = 10
  VECTOR_WEIGHT = 1
  BM25_WEIGHT = 1
  SOFT_CATEGORY_BOOST = 3000
  SCORE_FLOOR <- MCScoreFloor
  RELATIVE_FLOOR = 50
  PAGE_SIZE = 2
  Prices = {20, 40}
  MaxChanges = 1
  Threads = {t1, t2}
  RERANK_PROVIDER_ORDER <- MCRerankOrder
  QUERY_EXTRACT_MODELS <- MCQueryModels
  Keyed = {"voyage", "openrouter", "groq", "google"}
  DayLimited = {"openrouter"}
  Limit <- MCLimit
  Window <- MCWindow
  RateCooldown = 1
  FailCooldown = 1
  RetryAfters = {2}
  TotalTimeout = 1
  Coordinated <- MCCoordinated
  MaxTime = 2
  Workloads <- MCWorkloads
SYMMETRY Interchangeable
INVARIANT EveryPathFilters
INVARIANT RankingIsKept
INVARIANT ShortPageIsExhausted
INVARIANT ShadowEqualIsSafe
INVARIANT ProviderInv
INVARIANT UsageIsWhatWasBilled
CHECK_DEADLOCK FALSE
