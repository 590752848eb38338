SPECIFICATION FairSpec
CONSTANTS
    Requests = {r1, r2, r3}
    Queries = {q1, q2}
    Slots = 2
    None = None
CHECK_DEADLOCK FALSE
INVARIANT AdmissionInv
INVARIANT NoCircularWait
PROPERTY EveryRequestAnswered
