SPECIFICATION Spec
CONSTANTS
    None = None
    t1 = t1
    t2 = t2
    Msg = {m1}
    Copy = {c1, c2, c3, c4, c5, c6}
    Session = {s1, s2}
    MaxRetries = 2
    Ttl = {t1, t2}
    Existing <- AnyDeployment
    HasRetry = TRUE
    Delay <- AllDelays
    DelayedExchange = FALSE
    Prefetch = 1
    Malformed = {}
    Overflowing = {1}
    Faults = {"start", "connection", "crash", "restart"}
    DlqTtl = t1
    FirstHeaders = {0, None}
SYMMETRY Symmetry
INVARIANTS TypeOK NeverForgotten EarnedRetries
PROPERTY KeepsPromise
CHECK_DEADLOCK FALSE
