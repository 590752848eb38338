SPECIFICATION FairSpec
CONSTANTS
    Tenants = {t1, t2, t3}
    Requests = {r1, r2}
    MaxServices = 1
    Grace = 2
    HandOff = 1
    MaxBuilds = 3
INVARIANT PoolIsConsistent
PROPERTY MissRestoresBound
PROPERTY RetiredIsClosed
