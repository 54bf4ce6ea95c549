SPECIFICATION Spec
CONSTANTS
    None = None
    t1 = t1
    t2 = t2
    m1 = m1
    Msg = {m1}
    Copy = {c1, c2, c3, c4, c5, c6}
    Session = {s1}
    MaxRetries = 1
    Ttl = {t1, t2}
    Existing <- AnyDeployment
    HasRetry = TRUE
    Delay <- AllDelays
    DelayedExchange = FALSE
    Prefetch = 1
    Malformed = {}
    Overflowing = {}
    Unserializable = {}
    Faults = {}
    FirstHeaders = {0}
    EnvMax <- OneRetry
INVARIANT ExhaustedKept
CHECK_DEADLOCK FALSE
