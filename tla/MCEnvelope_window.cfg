SPECIFICATION Spec
CONSTANTS
    None = None
    t1 = t1
    t2 = t2
    m1 = m1
    Msg = {m1, m2, m3}
    Copy = {c1, c2, c3, c4, c5, c6}
    Session = {s1, s2}
    MaxRetries = 2
    Ttl = {t1, t2}
    Existing <- NewDeployment
    HasRetry = TRUE
    Delay <- AllDelays
    DelayedExchange = TRUE
    Prefetch = 2
    Malformed = {m3}
    Overflowing = {1}
    Unserializable = {m1}
    Faults = {"dlq_channel"}
    FirstHeaders = {0}
    EnvMax <- MixedRetries
SYMMETRY SessionSymmetry
INVARIANTS KeptUntilExhausted AttemptLimit NoDuplicates NeverForgotten
CHECK_DEADLOCK FALSE
