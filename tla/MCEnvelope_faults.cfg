SPECIFICATION Spec
CONSTANTS
    None = None
    t1 = t1
    t2 = t2
    m1 = m1
    Msg = {m1}
    Copy = {c1, c2, c3, c4, c5}
    Session = {s1, s2}
    MaxRetries = 2
    Ttl = {t1, t2}
    Existing <- ConflictingDeployment
    HasRetry = TRUE
    Delay <- AllDelays
    DelayedExchange = FALSE
    Prefetch = 2
    Malformed = {}
    Overflowing = {}
    Unserializable = {m1}
    Faults = {"start", "connection", "crash", "restart", "panic", "dlq_channel"}
    FirstHeaders = {0}
    EnvMax <- OneRetry
SYMMETRY SessionSymmetry
INVARIANTS TypeOK KeptUntilExhausted SettleOnce EarnedRetries NoDuplicates
PROPERTY KeepsPromise
CHECK_DEADLOCK FALSE
