-------------------------------- MODULE MCRaw --------------------------------
EXTENDS RawConsumer, TLC
CONSTANTS t1, t2

\* Delay tables: a policy with a delay for every attempt, and one whose custom
\* list is shorter than max_retries.
AllDelays == [k \in 0..(MaxRetries - 1) |-> t1]
ShortDelays == [k \in 0..(MaxRetries - 1) |-> IF k = MaxRetries - 1 THEN None ELSE t1]

NewDeployment == {"undeclared"}
AnyDeployment == {"undeclared", "no_ttl", t1, t2}
ConflictingDeployment == {"undeclared", t2}

SessionSymmetry == Permutations(Session)
Symmetry == Permutations(Session) \cup Permutations(Msg \ Malformed)
=============================================================================
