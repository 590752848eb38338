SPECIFICATION ApiSpec
CONSTANTS
    Callers = {c1, c2}
    Capacity = 1
    Costs = {1}
    Ttl = 2
    Delay = 1
    Cooldown = 1
    MaxClock = 2
    own = own
    other = other
    unknown = unknown
    None = None
    Company = own
    KeyOwner <- MCKeyOwner
    EndpointOwner <- MCEndpointOwner
    Compatible = {other}
    Keys = {None, own, other, unknown}
    Endpoints = {None, own, other, unknown}
    MaxSessions = 2
    SessionTtl = 2
    PageSize = 1
    ItemCounts = {2}
    ModelCalls = {1}
    MaxRequests = 4
SYMMETRY Symmetry
CONSTRAINT Explored
CHECK_DEADLOCK FALSE
INVARIANT RedisKeepsBudget
INVARIANT CursorsAreKept
INVARIANT AnsweredIsAccountedFor
