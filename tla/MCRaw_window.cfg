SPECIFICATION Spec
CONSTANTS
    None = None
    t1 = t1
    t2 = t2
    Msg = {m1, m2}
    Copy = {c1, c2, c3, c4, c5}
    Session = {s1, s2}
    MaxRetries = 2
    Ttl = {t1, t2}
    Existing <- NewDeployment
    HasRetry = TRUE
    Delay <- ShortDelays
    DelayedExchange = FALSE
    Prefetch = 2
    Malformed = {m2}
    Overflowing = {}
    Faults = {"start", "connection", "crash", "restart", "panic"}
    DlqTtl = "no_ttl"
    FirstHeaders = {0}
SYMMETRY Symmetry
INVARIANTS NoLoss SettleOnce EarnedRetries NoDuplicates
PROPERTIES DiscardsByDesign KeepsPromise
CHECK_DEADLOCK FALSE
