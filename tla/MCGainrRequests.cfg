SPECIFICATION GainrSpec
CONSTANTS
    Workers = {w1, w2, w3, w4, d}
    Checkers = {k1, k2}
    Conns = {c1, c2, c3}
    MinSize = 1
    MaxSize = 2
    None = None
    Ads = {1, 2, 3, 4}
    Column <- MCColumn
    Mentions <- MCMentions
    Completions <- MCCompletions
    PlanOf <- MCPlanOf
    CategoryIds <- MCCategoryIds
    NoTerm = NoTerm
    PageSize = 1
    Requests = {r1, r2}
    ThreadsOf <- MCThreadsOf
    DiagThread = d
    Loads <- MCLoads
    QueueLimit = 1
    RecentLimit = 2
    Stop = Stop
    w1 = w1
    w2 = w2
    w3 = w3
    w4 = w4
    d = d
    r1 = r1
    r2 = r2
SYMMETRY Symmetry
CHECK_DEADLOCK FALSE
INVARIANT PoolIsExact
INVARIANT CardsAreEligible
INVARIANT PageIsExact
INVARIANT ZeroResultsRecordedOnce
INVARIANT DiagnosisIsTrue
INVARIANT RecentSearchesKept
