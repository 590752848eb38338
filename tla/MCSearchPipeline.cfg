CONSTANTS
  Searches = {s1, s2}
  QueryTexts = {q1}
  Generations = {1, 2}
  NoValue = NoValue
  QUERY_PLAN_CACHE_SIZE = 1
  MaxRevision = 1
SPECIFICATION PipelineSpec
INVARIANT ReuseIsSound
PROPERTY EverySearchEnds
CHECK_DEADLOCK FALSE
