SPECIFICATION FairSpec
CONSTANTS
    Events = {e1, e2}
    Stores = {s1}
    Uploaders = {u1, u2}
    Capacity = 1
    BatchSize = 1
    Stop = Stop
CHECK_DEADLOCK FALSE
INVARIANT SpoolInv
PROPERTY DeliversOnce
PROPERTY SpooledIsDelivered
