-------------------------- MODULE AtLeastOnceProofs --------------------------
(***************************************************************************)
(* What the promise of AtLeastOnce amounts to: nothing that was accepted   *)
(* disappears, handlers fail in turn, and what is dead-lettered has failed *)
(* finally, once.                                                          *)
(***************************************************************************)
EXTENDS AtLeastOnce, TLAPS

\* Kept, with the shape of the failures that MayRelease looks at.
KeptInv ==
    /\ failures \in [Msg -> SUBSET Attempts]
    /\ accepted \subseteq Msg
    /\ Kept

\* Every reason to release a message is for good.
LEMMA ReleaseStays ==
    ASSUME NEW m, MayRelease(m), handled \subseteq handled', failures[m] \subseteq failures'[m]
    PROVE  MayRelease(m)'
BY DEF MayRelease, FailedFinally

LEMMA NextKept == KeptInv /\ [Next]_promise => KeptInv'
<1> SUFFICES ASSUME KeptInv, [Next]_promise PROVE KeptInv'
  OBVIOUS
<1> USE DEF KeptInv, Kept
<1>1. CASE \E m \in Msg : Accept(m)
  BY <1>1, ReleaseStays DEF Accept
<1>2. CASE \E m \in Msg : Succeed(m)
  BY <1>2, ReleaseStays DEF Succeed
<1>3. CASE \E m \in Msg : DeadLetter(m)
  BY <1>3, ReleaseStays DEF DeadLetter
<1>4. CASE \E m \in Msg, k \in Attempts : Fail(m, k)
  <2>1. PICK m \in Msg, k \in Attempts : Fail(m, k)
    BY <1>4
  <2>2. /\ failures' = [failures EXCEPT ![m] = @ \cup {k}]
        /\ UNCHANGED <<accepted, held, handled>>
    BY <2>1 DEF Fail
  <2>3. /\ failures' \in [Msg -> SUBSET Attempts]
        /\ \A x \in Msg : failures[x] \subseteq failures'[x]
    BY <2>2
  <2> QED BY <2>2, <2>3, ReleaseStays
<1>5. CASE \E M \in SUBSET held : Release(M)
  BY <1>5, ReleaseStays DEF Release
<1>6. CASE UNCHANGED promise
  BY <1>6, ReleaseStays DEF promise
<1> QED BY <1>1, <1>2, <1>3, <1>4, <1>5, <1>6 DEF Next

\* An accepted message is held until it was handled, cannot be handled, failed
\* finally under a policy that does not insist on a dead letter, or failed and is
\* one whose retry may be impossible to write.
THEOREM PromiseMeansKept == Spec => []Kept
<1>1. Init => KeptInv
  BY DEF Init, KeptInv, Kept
<1>2. KeptInv => Kept
  BY DEF KeptInv
<1> QED BY <1>1, <1>2, NextKept, PTL DEF Spec

-----------------------------------------------------------------------------
(* Failures and dead letters. *)

\* Failures have the message that failed: it was accepted and could be decoded.
FailuresInv ==
    /\ failures \in [Msg -> SUBSET Attempts]
    /\ accepted \subseteq Msg
    /\ \A m \in Msg : failures[m] # {} => m \in accepted \ Undecodable
    /\ FailsInTurn
    /\ dead \subseteq {m \in Msg : FailedFinally(m)}

\* A step that leaves the failures alone, or adds one for a message, keeps them
\* consecutive.
LEMMA NextFailures == ASSUME FailuresInv, [Next]_promise PROVE FailuresInv'
<1>1. CASE UNCHANGED <<failures, dead>> /\ accepted \subseteq accepted' /\ accepted' \subseteq Msg
  BY <1>1 DEF FailuresInv, FailsInTurn, FailedFinally
<1>2. CASE \E m \in Msg : Accept(m) \/ Succeed(m)
  <2>1. UNCHANGED <<failures, dead>> /\ accepted \subseteq accepted' /\ accepted' \subseteq Msg
    BY <1>2 DEF Accept, Succeed, FailuresInv
  <2> QED BY <1>1, <2>1
<1>3. CASE \E m \in Msg : DeadLetter(m)
  <2>1. PICK m \in Msg : DeadLetter(m)
    BY <1>3
  <2>2. FailedFinally(m) /\ dead' = dead \cup {m} /\ UNCHANGED <<accepted, failures>>
    BY <2>1 DEF DeadLetter
  <2> QED BY <2>2 DEF FailuresInv, FailsInTurn, FailedFinally
<1>4. CASE \E m \in Msg, k \in Attempts : Fail(m, k)
  <2>1. PICK m \in Msg, k \in Attempts : Fail(m, k)
    BY <1>4
  <2>2. /\ m \in accepted \ Undecodable
        /\ \A j \in 0..(k - 1) : j \in failures[m] \ Final[m]
        /\ failures' = [failures EXCEPT ![m] = @ \cup {k}]
        /\ UNCHANGED <<accepted, dead>>
    BY <2>1 DEF Fail
  <2>3. /\ failures' \in [Msg -> SUBSET Attempts]
        /\ failures'[m] = failures[m] \cup {k}
        /\ \A x \in Msg \ {m} : failures'[x] = failures[x]
    BY <2>2 DEF FailuresInv
  <2>4. FailsInTurn'
    <3> SUFFICES ASSUME NEW x \in Msg, NEW i \in Attempts, i \in failures'[x],
                        NEW j \in 0..(i - 1)
                 PROVE  j \in failures'[x] \ Final[x]
      BY DEF FailsInTurn
    <3>1. CASE i \in failures[x]
      BY <2>3, <3>1 DEF FailuresInv, FailsInTurn
    <3>2. CASE i \notin failures[x]
      <4>1. x = m /\ i = k
        BY <2>3, <3>2
      <4> QED BY <2>2, <2>3, <4>1
    <3> QED BY <3>1, <3>2
  <2>5. dead' \subseteq {x \in Msg : FailedFinally(x)'}
    BY <2>2, <2>3 DEF FailuresInv, FailedFinally
  <2> QED BY <2>2, <2>3, <2>4, <2>5 DEF FailuresInv
<1>5. CASE \E M \in SUBSET held : Release(M)
  <2>1. UNCHANGED <<failures, dead>> /\ accepted \subseteq accepted' /\ accepted' \subseteq Msg
    BY <1>5 DEF Release, FailuresInv
  <2> QED BY <1>1, <2>1
<1>6. CASE UNCHANGED promise
  BY <1>1, <1>6 DEF promise, FailuresInv
<1> QED BY <1>2, <1>3, <1>4, <1>5, <1>6 DEF Next

\* They hold in every reachable state.
LEMMA AlwaysFailures == Spec => []FailuresInv
<1>1. Init => FailuresInv
  BY DEF Init, FailuresInv, FailsInTurn
<1> QED BY <1>1, NextFailures, PTL DEF Spec

\* Handlers fail at attempts 0, 1, ... in turn, and at none beyond a final one.
THEOREM PromiseMeansTurns == Spec => []FailsInTurn
<1>1. FailuresInv => FailsInTurn
  BY DEF FailuresInv
<1> QED BY <1>1, AlwaysFailures, PTL

\* A message is dead-lettered for one final failure of its own, whatever the
\* order of redeliveries, retries and dead letters was.
THEOREM PromiseMeansDeserved ==
    ASSUME Attempts \subseteq Nat
    PROVE  Spec => []DeadForGoodReason
<1>1. ASSUME FailuresInv PROVE DeadForGoodReason
  <2> SUFFICES ASSUME NEW m \in dead
               PROVE  /\ m \in accepted \ Undecodable
                      /\ \E k \in failures[m] : failures[m] \cap Final[m] = {k}
    BY DEF DeadForGoodReason
  <2>1. m \in Msg /\ failures[m] \cap Final[m] # {} /\ failures[m] \subseteq Nat
    BY <1>1 DEF FailuresInv, FailedFinally
  <2>2. PICK k : k \in failures[m] /\ k \in Final[m]
    BY <2>1
  <2>3. ASSUME NEW j \in failures[m] \cap Final[m] PROVE j = k
    <3>1. j \in Nat /\ k \in Nat /\ j \in Attempts /\ k \in Attempts
      BY <1>1, <2>1, <2>2 DEF FailuresInv
    <3>2. ~(j < k)
      BY <1>1, <2>1, <2>2, <3>1 DEF FailuresInv, FailsInTurn
    <3>3. ~(k < j)
      BY <1>1, <2>1, <2>2, <3>1 DEF FailuresInv, FailsInTurn
    <3> QED BY <3>1, <3>2, <3>3
  <2>4. failures[m] \cap Final[m] = {k}
    BY <2>2, <2>3
  <2>5. m \in accepted \ Undecodable
    BY <1>1, <2>1 DEF FailuresInv
  <2> QED BY <2>2, <2>4, <2>5
<1> QED BY <1>1, AlwaysFailures, PTL
=============================================================================
