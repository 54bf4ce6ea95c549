SPECIFICATION FairSpec
CONSTANTS
    None = None
    t1 = t1
    t2 = t2
    Msg = {m1}
    Copy = {c1, c2, c3, c4, c5, c6}
    Session = {s1, s2}
    MaxRetries = 1
    Ttl = {t1, t2}
    Existing <- ConflictingDeployment
    HasRetry = TRUE
    Delay <- AllDelays
    DelayedExchange = TRUE
    Prefetch = 2
    Malformed = {}
    Overflowing = {}
    Faults = {"start", "connection", "crash", "restart"}
    DlqTtl = "no_ttl"
    FirstHeaders = {None}
INVARIANTS NoLoss NoDuplicates
PROPERTY EventuallySettled
CHECK_DEADLOCK FALSE
