SPECIFICATION MCSpec
CONSTANTS
    r1 = r1
    r2 = r2
    r3 = r3
    Runs = {r1, r2, r3}
    Records <- MCRecords
    Readers = {c1}
    NoRun = NoRun
    Manual = {r3}
    SortBy = "created_at"
    Rank <- MCRank
    Limit = 1
CHECK_DEADLOCK FALSE
INVARIANT SnapshotIsSound
INVARIANT PagesAreStable
PROPERTY NewerReplacesOlder
PROPERTY RunsAreClosed
