SPECIFICATION Spec
CONSTANTS
    NULL = NULL
    Login = {u1, u2}
    Flow = {f1, f2, f3}
    Callback = {c1, c2}
    IP = {ip1}
    MaxReviewerAccounts = 1
    AdminOAuthRPM = 2
    Minute = 2
    TTL = 3
    MaxTime = 5
    MaxSeeds = 1
SYMMETRY Symmetry
INVARIANTS
    TypeOK
    StateSpentOnce
    RateLimitHolds
    LimiterIsExact
    LimitHoldsWithoutOverlap
