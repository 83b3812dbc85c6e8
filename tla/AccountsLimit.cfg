SPECIFICATION Spec
CONSTANTS
    NULL = NULL
    Login = {u1, u2}
    Flow = {f1, f2}
    Callback = {c1, c2}
    IP = {ip1}
    MaxReviewerAccounts = 1
    AdminOAuthRPM = 2
    Minute = 2
    TTL = 3
    MaxTime = 1
    MaxSeeds = 0
SYMMETRY Symmetry
INVARIANTS
    ActiveWithinLimit
