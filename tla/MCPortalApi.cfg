SPECIFICATION PortalSpec
CONSTANTS
    CompanyUsers = {u1}
    Admins = {u3}
    u1 = u1
    u3 = u3
    a = a
    b = b
    Companies = {a, b}
    CompanyOf <- MCCompanyOf
    Unknown = unknown
    NoToken = noToken
    NoKey = noKey
    Modes = {"store", "browser"}
    Tokens = {t1, t2}
    Callers = {c1, c2}
    Idle <- MCIdle
    Absolute <- MCAbsolute
    MaxAttempts = 2
    LockTime = 2
    MaxPassword = 2
    MaxClock = 3
SYMMETRY Symmetry
CONSTRAINT Explored
CHECK_DEADLOCK FALSE
INVARIANT AccessIsScoped
INVARIANT SessionInv
PROPERTY PruneKeepsUsable
