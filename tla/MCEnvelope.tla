----------------------------- MODULE MCEnvelope -----------------------------
EXTENDS EnvelopeConsumer, TLC
CONSTANTS t1, t2, m1

AllDelays == [k \in 0..(MaxRetries - 1) |-> t1]

NewDeployment == {"undeclared"}
AnyDeployment == {"undeclared", "no_ttl", t1, t2}
ConflictingDeployment == {"undeclared", t2}

\* metadata.max_retries: what MessageEnvelope::new leaves it at, and a value
\* set with with_max_retries that differs from the policy's.
NewEnvelope == [m \in Msg |-> 0]
OneRetry == [m \in Msg |-> 1]
MixedRetries == [m \in Msg |-> IF m = m1 THEN 2 ELSE 0]

SessionSymmetry == Permutations(Session)
=============================================================================
