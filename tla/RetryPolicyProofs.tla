-------------------------- MODULE RetryPolicyProofs --------------------------
(***************************************************************************)
(* Proofs about RetryPolicy: the number of retries, the delays and the     *)
(* overflows, for every mechanism, max_retries, custom list, width and     *)
(* build.                                                                  *)
(***************************************************************************)
EXTENDS RetryPolicy, WellFoundedInduction, TLAPS

-----------------------------------------------------------------------------
(* Induction over Nat, for sets: a set without a least element is empty.   *)

\* A set that has 0, and with every number the next, has all of Nat.
LEMMA SetInduction ==
    ASSUME NEW S, 0 \in S, \A n \in Nat : n \in S => n + 1 \in S
    PROVE  Nat \subseteq S
<1> DEFINE T == Nat \ S
<1> SUFFICES ASSUME T # {} PROVE FALSE
  OBVIOUS
<1>1. PICK x \in T : \A y \in T : <<y, x>> \notin OpToRel(<, Nat)
  BY NatLessThanWellFounded, WFMin
<1>2. OpToRel(<, Nat) = {ss \in Nat \X Nat : ss[1] < ss[2]}
  BY Zenon DEF OpToRel
<1>3. \A y \in T : ~(y < x)
  BY <1>1, <1>2
<1>4. x # 0
  OBVIOUS
<1>5. x - 1 \in Nat /\ x - 1 < x
  BY <1>4
<1>6. x - 1 \in S
  BY <1>3, <1>5
<1>7. (x - 1) + 1 \in S
  BY <1>5, <1>6
<1> QED BY <1>7

-----------------------------------------------------------------------------
(* Powers of two.  Pow2 is defined by recursion: that there is such a      *)
(* function is proved from its finite parts.                               *)

\* The functions that satisfy the recursion up to n.
PowersUpTo(n) == {g \in [0..n -> Int] : g[0] = 1 /\ \A i \in 1..n : g[i] = 2 * g[i - 1]}

LEMMA PowersUpToExist == \A n \in Nat : PowersUpTo(n) # {}
<1> DEFINE S == {n \in Nat : PowersUpTo(n) # {}}
<1>1. 0 \in S
  <2>1. [i \in 0..0 |-> 1] \in PowersUpTo(0)
    BY DEF PowersUpTo
  <2> QED BY <2>1
<1>2. ASSUME NEW n \in Nat, n \in S PROVE n + 1 \in S
  <2>1. PICK g : g \in PowersUpTo(n)
    BY <1>2
  <2> DEFINE h == [i \in 0..(n + 1) |-> IF i = n + 1 THEN 2 * g[n] ELSE g[i]]
  <2>2. h \in [0..(n + 1) -> Int] /\ h[0] = 1
    BY <2>1 DEF PowersUpTo
  <2>3. ASSUME NEW i \in 1..(n + 1) PROVE h[i] = 2 * h[i - 1]
    BY <2>1 DEF PowersUpTo
  <2>4. h \in PowersUpTo(n + 1)
    BY <2>2, <2>3 DEF PowersUpTo
  <2> QED BY <2>4
<1> QED BY <1>1, <1>2, SetInduction

LEMMA PowersUpToAgree ==
    ASSUME NEW k \in Nat, NEW l \in Nat, NEW g \in PowersUpTo(k), NEW h \in PowersUpTo(l)
    PROVE  \A n \in Nat : n <= k /\ n <= l => g[n] = h[n]
<1> DEFINE S == {n \in Nat : n <= k /\ n <= l => g[n] = h[n]}
<1>1. 0 \in S
  BY DEF PowersUpTo
<1>2. ASSUME NEW n \in Nat, n \in S PROVE n + 1 \in S
  <2> SUFFICES ASSUME n + 1 <= k, n + 1 <= l PROVE g[n + 1] = h[n + 1]
    OBVIOUS
  <2>1. n + 1 \in 1..k /\ n + 1 \in 1..l /\ (n + 1) - 1 = n
    OBVIOUS
  <2>2. g[n + 1] = 2 * g[n] /\ h[n + 1] = 2 * h[n]
    BY <2>1 DEF PowersUpTo
  <2> QED BY <1>2, <2>2
<1> QED BY <1>1, <1>2, SetInduction

\* The recursion of Pow2 has a solution, so Pow2 is one.
LEMMA Pow2Recursion == Pow2 = [n \in Nat |-> IF n = 0 THEN 1 ELSE 2 * Pow2[n - 1]]
<1> DEFINE g(n) == CHOOSE x : x \in PowersUpTo(n)
           f == [n \in Nat |-> g(n)[n]]
<1>1. \A n \in Nat : g(n) \in PowersUpTo(n)
  BY PowersUpToExist
<1> HIDE DEF g
<1>2. ASSUME NEW n \in Nat PROVE f[n] = IF n = 0 THEN 1 ELSE 2 * f[n - 1]
  <2>1. CASE n = 0
    BY <1>1, <2>1 DEF PowersUpTo
  <2>2. CASE n # 0
    <3>1. n - 1 \in Nat /\ n \in 1..n /\ n - 1 <= n
      BY <2>2
    <3>2. g(n)[n] = 2 * g(n)[n - 1]
      BY <1>1, <3>1 DEF PowersUpTo
    <3>3. g(n)[n - 1] = g(n - 1)[n - 1]
      BY <1>1, <3>1, PowersUpToAgree
    <3> QED BY <2>2, <3>1, <3>2, <3>3
  <2> QED BY <2>1, <2>2
<1>3. f = [n \in Nat |-> IF n = 0 THEN 1 ELSE 2 * f[n - 1]]
  BY <1>2
<1> HIDE DEF f
<1> QED BY <1>3 DEF Pow2

LEMMA Pow2Step == Pow2[0] = 1 /\ \A n \in Nat : Pow2[n + 1] = 2 * Pow2[n]
<1>1. \A n \in Nat : Pow2[n] = IF n = 0 THEN 1 ELSE 2 * Pow2[n - 1]
  BY Pow2Recursion
<1>2. ASSUME NEW n \in Nat PROVE Pow2[n + 1] = 2 * Pow2[n]
  <2>1. n + 1 \in Nat /\ n + 1 # 0 /\ (n + 1) - 1 = n
    OBVIOUS
  <2> QED BY <1>1, <2>1
<1> QED BY <1>1, <1>2

LEMMA Pow2Type == \A n \in Nat : Pow2[n] \in Nat \ {0}
<1> DEFINE S == {n \in Nat : Pow2[n] \in Nat \ {0}}
<1>1. 0 \in S
  BY Pow2Step
<1>2. ASSUME NEW n \in Nat, n \in S PROVE n + 1 \in S
  BY <1>2, Pow2Step
<1> QED BY <1>1, <1>2, SetInduction

\* Powers of two grow.
LEMMA Pow2Grows == ASSUME NEW m \in Nat PROVE \A n \in Nat : m <= n => Pow2[m] <= Pow2[n]
<1> DEFINE S == {n \in Nat : m <= n => Pow2[m] <= Pow2[n]}
<1>1. 0 \in S
  BY Pow2Type
<1>2. ASSUME NEW n \in Nat, n \in S PROVE n + 1 \in S
  <2> SUFFICES ASSUME m <= n + 1 PROVE Pow2[m] <= Pow2[n + 1]
    OBVIOUS
  <2>1. CASE m = n + 1
    BY <2>1, Pow2Type
  <2>2. CASE m <= n
    BY <1>2, <2>2, Pow2Step, Pow2Type
  <2> QED BY <2>1, <2>2
<1> QED BY <1>1, <1>2, SetInduction

-----------------------------------------------------------------------------
(* The retries. *)

\* The retries a policy gives: max_retries, or fewer with a short custom list.
Retries == IF mechanism.kind = "custom" THEN Smaller(max_retries, Len(mechanism.delays))
                                        ELSE max_retries

\* Everything calculate_delay may return.
Delays == {CalculateDelay(n) : n \in Nat}

\* One delay for each failed attempt, never more than the policy has.
Counted ==
    /\ max_retries \in Nat
    /\ mechanism.kind = "custom" => Len(mechanism.delays) \in Nat
    /\ attempt \in Nat /\ attempt <= Retries
    /\ delays \in Seq(Delays) /\ Len(delays) = attempt
    /\ outcome = "exhausted" => attempt = Retries

\* A custom list has a length.
LEMMA CustomLength ==
    ASSUME PolicyAssumption, NEW M \in Mechanism, M.kind = "custom"
    PROVE  Len(M.delays) \in Nat
<1>1. M \in [kind : {"custom"}, delays : UNION {[1..n -> Ms] : n \in 0..Limit}]
  BY DEF Mechanism
<1>2. PICK n \in 0..Limit : M.delays \in [1..n -> Ms]
  BY <1>1
<1>3. n \in Nat /\ M.delays \in Seq(Ms)
  BY <1>2 DEF PolicyAssumption
<1> QED BY <1>3

\* calculate_delay has a delay for an attempt exactly while retries are left.
LEMMA HasDelayWhileRetriesLeft ==
    ASSUME Counted
    PROVE  HasDelay(attempt) <=> attempt < Retries
BY DEF Counted, HasDelay, Retries, Smaller

LEMMA InitCounted == ASSUME PolicyAssumption, Init PROVE Counted
<1>1. mechanism.kind = "custom" => Len(mechanism.delays) \in Nat
  BY CustomLength DEF Init
<1>2. Retries \in Nat
  BY <1>1 DEF Init, Retries, Smaller, PolicyAssumption
<1>3. delays \in Seq(Delays) /\ Len(delays) = 0
  BY DEF Init
<1> QED BY <1>1, <1>2, <1>3 DEF Init, Counted, PolicyAssumption

LEMMA NextCounted == ASSUME Counted, [Next]_vars PROVE Counted'
<1>1. UNCHANGED <<max_retries, mechanism>>
  BY DEF Next, Retry, Panic, Exhaust, vars
<1>2. Retries' = Retries
  BY <1>1 DEF Retries
<1>3. \A n \in Nat : CalculateDelay(n)' = CalculateDelay(n)
  BY <1>1 DEF CalculateDelay, Product
<1>4. Delays' = Delays
  BY <1>3 DEF Delays
<1>5. CASE Retry
  <2>1. attempt < Retries
    BY <1>5, HasDelayWhileRetriesLeft DEF Retry
  <2>2. CalculateDelay(attempt) \in Delays
    BY DEF Counted, Delays
  <2>3. /\ delays' \in Seq(Delays)
        /\ Len(delays') = Len(delays) + 1
    BY <1>5, <2>2 DEF Counted, Retry
  <2>4. Retries \in Nat
    BY DEF Counted, Retries, Smaller
  <2> QED BY <1>1, <1>2, <1>4, <1>5, <2>1, <2>3, <2>4 DEF Counted, Retry
<1>6. CASE Panic
  BY <1>1, <1>2, <1>4, <1>6 DEF Counted, Panic
<1>7. CASE Exhaust
  <2>1. ~(attempt < Retries)
    BY <1>7, HasDelayWhileRetriesLeft DEF Exhaust
  <2>2. Retries \in Nat
    BY DEF Counted, Retries, Smaller
  <2> QED BY <1>1, <1>2, <1>4, <1>7, <2>1, <2>2 DEF Counted, Exhaust
<1>8. CASE UNCHANGED vars
  BY <1>1, <1>2, <1>4, <1>8 DEF Counted, vars
<1> QED BY <1>5, <1>6, <1>7, <1>8 DEF Next

\* A message is given up after max_retries retries, or when its custom list has
\* run out: the initial attempt is not counted and no retry is lost
\* (retry.rs:202-227).
THEOREM ScheduleIsFull == Spec => []FullSchedule
<1>1. Init => Counted
  BY PolicyAssumption, InitCounted
<1>2. Counted /\ [Next]_vars => Counted'
  BY NextCounted
<1>3. Counted => FullSchedule
  BY DEF Counted, FullSchedule, Retries
<1> QED BY <1>1, <1>2, <1>3, PTL DEF Spec

\* Every delay calculate_delay has to give is a configured one or a product of
\* the word's width.
LEMMA DelayType ==
    ASSUME PolicyAssumption, TypeOK, HasDelay(attempt)
    PROVE  CalculateDelay(attempt) \in Ms \cup 0..(Pow2[Width] - 1)
<1>1. CASE mechanism.kind = "exponential"
  <2>1. mechanism \in [kind : {"exponential"}, base_delay : Ms, max_delay : Ms]
    BY <1>1 DEF TypeOK, Mechanism
  <2>2. mechanism.base_delay \in Ms /\ mechanism.max_delay \in Ms
    BY <2>1
  <2>3. Pow2[Width] \in Nat \ {0}
    BY Pow2Type DEF PolicyAssumption
  <2>b. mechanism.base_delay \in 0..(Pow2[Width] - 1)
    BY <2>2 DEF PolicyAssumption
  <2>c. mechanism.base_delay \in Int /\ Pow2[Width] > 0
    BY <2>3, <2>b
  <2>4. \A x \in Int : x % Pow2[Width] \in 0..(Pow2[Width] - 1)
    BY <2>3, <2>c
  <2>5. Power(attempt) \in Int
    <3>1. Pow2[attempt] \in Int
      BY Pow2Type DEF TypeOK, PolicyAssumption
    <3> QED BY <3>1, <2>4 DEF Power
  <2>6. Product(attempt) \in 0..(Pow2[Width] - 1)
    <3>1. mechanism.base_delay * Power(attempt) \in Int
      BY <2>c, <2>5
    <3> QED BY <3>1, <2>4 DEF Product
  <2> QED BY <1>1, <2>2, <2>6 DEF CalculateDelay, Smaller
<1>2. CASE mechanism.kind = "linear"
  BY <1>2 DEF TypeOK, Mechanism, CalculateDelay
<1>3. CASE mechanism.kind = "custom"
  <2>1. PICK n \in 0..Limit : mechanism.delays \in [1..n -> Ms]
    BY <1>3 DEF TypeOK, Mechanism
  <2>2. n \in Nat /\ Len(mechanism.delays) = n
    BY <2>1 DEF PolicyAssumption
  <2>3. attempt + 1 \in 1..n
    BY <1>3, <2>2 DEF HasDelay, TypeOK
  <2>4. mechanism.delays[attempt + 1] \in Ms
    BY <2>1, <2>3
  <2> QED BY <1>3, <2>4 DEF CalculateDelay
<1> QED BY <1>1, <1>2, <1>3 DEF TypeOK, Mechanism

LEMMA NextTypeOK == ASSUME PolicyAssumption, TypeOK, [Next]_vars PROVE TypeOK'
<1>1. CASE Retry
  <2>1. delays' \in Seq(Ms \cup 0..(Pow2[Width] - 1))
    BY <1>1, DelayType DEF Retry, TypeOK
  <2>2. attempt' \in 0..Limit
    BY <1>1 DEF Retry, HasDelay, TypeOK, PolicyAssumption
  <2> QED BY <1>1, <2>1, <2>2 DEF Retry, TypeOK
<1>2. CASE Panic \/ Exhaust \/ UNCHANGED vars
  BY <1>2 DEF Panic, Exhaust, vars, TypeOK
<1> QED BY <1>1, <1>2 DEF Next

\* Attempts stay within the policy, and delays within the word (retry.rs:202-227).
THEOREM TypeCorrect == Spec => []TypeOK
<1>1. Init => TypeOK
  BY PolicyAssumption DEF Init, TypeOK, PolicyAssumption
<1>2. TypeOK /\ [Next]_vars => TypeOK'
  BY PolicyAssumption, NextTypeOK
<1> QED BY <1>1, <1>2, PTL DEF Spec

-----------------------------------------------------------------------------
(* The delays and the overflows. *)

\* What fits Width bits is not changed by computing in Width bits.
LEMMA FitsUnchanged ==
    ASSUME PolicyAssumption, NEW x \in Nat, x < Pow2[Width] PROVE x % Pow2[Width] = x
<1>1. Pow2[Width] \in Nat \ {0}
  BY Pow2Type DEF PolicyAssumption
<1> QED BY <1>1

LEMMA Factors ==
    ASSUME PolicyAssumption, TypeOK, mechanism.kind = "exponential"
    PROVE  mechanism.base_delay \in Nat
<1>1. mechanism \in [kind : {"exponential"}, base_delay : Ms, max_delay : Ms]
  BY DEF TypeOK, Mechanism
<1>2. mechanism.base_delay \in Ms
  BY <1>1
<1>3. mechanism.base_delay \in 0..(Pow2[Width] - 1) /\ Pow2[Width] \in Nat
  BY <1>2, Pow2Type DEF PolicyAssumption
<1> QED BY <1>3

\* An attempt overflows exactly when its uncapped product does not fit.
LEMMA OverflowsOfProduct ==
    ASSUME PolicyAssumption, TypeOK, mechanism.kind = "exponential", NEW n \in Nat
    PROVE  /\ ~Overflows(n) <=> /\ Pow2[n] < Pow2[Width]
                                /\ mechanism.base_delay * Pow2[n] < Pow2[Width]
           /\ ~Overflows(n) => Product(n) = mechanism.base_delay * Pow2[n]
<1> DEFINE b == mechanism.base_delay
<1>1. b \in Nat /\ Pow2[n] \in Nat /\ Pow2[Width] \in Nat
  BY Factors, Pow2Type DEF PolicyAssumption
<1>2. b * Pow2[n] \in Nat
  BY <1>1
<1>3. Pow2[n] < Pow2[Width] => Power(n) = Pow2[n]
  BY <1>1, FitsUnchanged DEF Power
<1>4. b * Pow2[n] < Pow2[Width] => (b * Pow2[n]) % Pow2[Width] = b * Pow2[n]
  BY <1>2, FitsUnchanged
<1>5. ~Overflows(n) <=> Pow2[n] < Pow2[Width] /\ b * Pow2[n] < Pow2[Width]
  <2>1. ~Overflows(n) <=> ~(Pow2[n] >= Pow2[Width]) /\ ~(b * Power(n) >= Pow2[Width])
    BY DEF Overflows
  <2>2. CASE Pow2[n] < Pow2[Width]
    <3>1. b * Power(n) = b * Pow2[n]
      BY <1>3, <2>2
    <3> HIDE DEF b
    <3> QED BY <1>1, <1>2, <2>1, <2>2, <3>1
  <2>3. CASE ~(Pow2[n] < Pow2[Width])
    BY <1>1, <2>1, <2>3
  <2> QED BY <2>2, <2>3
<1> QED BY <1>3, <1>4, <1>5 DEF Product

\* The largest product is the one of the last retry.
LEMMA FitsMeansNoOverflow ==
    ASSUME PolicyAssumption, TypeOK, mechanism.kind = "exponential", max_retries > 0
    PROVE  /\ Fits <=> ~Overflows(max_retries - 1)
           /\ Fits => \A n \in Nat : n < max_retries => ~Overflows(n)
<1> DEFINE last == max_retries - 1
           b == mechanism.base_delay
<1>1. max_retries \in Nat /\ last \in Nat
  BY DEF TypeOK, PolicyAssumption
<1>2. Fits <=> Pow2[last] < Pow2[Width] /\ b * Pow2[last] < Pow2[Width]
  BY DEF Fits
<1>3. Fits <=> ~Overflows(last)
  BY <1>1, <1>2, OverflowsOfProduct
<1>4. ASSUME Fits, NEW n \in Nat, n < max_retries PROVE ~Overflows(n)
  <2>1. n <= last
    BY <1>1, <1>4
  <2>2. Pow2[n] <= Pow2[last]
    BY <1>1, <2>1, Pow2Grows
  <2>3. b \in Nat /\ Pow2[n] \in Nat /\ Pow2[last] \in Nat /\ Pow2[Width] \in Nat
    BY <1>1, Factors, Pow2Type DEF PolicyAssumption
  <2>4. b * Pow2[n] <= b * Pow2[last] /\ b * Pow2[n] \in Nat /\ b * Pow2[last] \in Nat
    BY <2>2, <2>3
  <2>5. Pow2[n] < Pow2[Width] /\ b * Pow2[n] < Pow2[Width]
    BY <1>2, <1>4, <2>2, <2>3, <2>4
  <2> QED BY <2>5, OverflowsOfProduct
<1> QED BY <1>3, <1>4

\* A build with overflow checks has come through every earlier attempt without
\* an overflow, and panics only at one.
Unharmed ==
    /\ Checked /\ mechanism.kind = "exponential" =>
          \A n \in Nat : n < attempt => ~Overflows(n)
    /\ outcome = "panicked" =>
          Checked /\ mechanism.kind = "exponential" /\ HasDelay(attempt) /\ Overflows(attempt)

\* Every delay given is what calculate_delay has returned for its attempt.
Given == \A k \in 1..Len(delays) : HasDelay(k - 1) /\ delays[k] = CalculateDelay(k - 1)

History == TypeOK /\ Counted /\ Unharmed /\ Given

LEMMA InitHistory == ASSUME PolicyAssumption, Init PROVE History
<1>1. TypeOK
  BY DEF Init, TypeOK, PolicyAssumption
<1>2. Unharmed
  BY DEF Init, Unharmed
<1>3. Given
  BY DEF Init, Given
<1> QED BY <1>1, <1>2, <1>3, InitCounted DEF History

LEMMA NextHistory == ASSUME PolicyAssumption, History, [Next]_vars PROVE History'
<1> USE DEF History
<1>1. TypeOK' /\ Counted'
  BY NextTypeOK, NextCounted
<1>2. UNCHANGED <<max_retries, mechanism>>
  BY DEF Next, Retry, Panic, Exhaust, vars
<1>3. \A n : /\ Overflows(n)' <=> Overflows(n)
             /\ HasDelay(n)' <=> HasDelay(n)
             /\ CalculateDelay(n)' = CalculateDelay(n)
  BY <1>2 DEF Overflows, Power, Product, HasDelay, CalculateDelay
<1>4. attempt \in Nat /\ delays \in Seq(Delays) /\ Len(delays) = attempt
  BY DEF Counted
<1>5. CASE Retry
  <2>1. /\ attempt' = attempt + 1 /\ outcome' = "retrying" /\ HasDelay(attempt)
        /\ Checked /\ mechanism.kind = "exponential" => ~Overflows(attempt)
        /\ delays' = Append(delays, CalculateDelay(attempt))
    BY <1>5 DEF Retry
  <2>2. Unharmed'
    <3>1. ASSUME Checked, mechanism.kind = "exponential", NEW n \in Nat, n < attempt'
          PROVE  ~Overflows(n)'
      BY <1>3, <1>4, <2>1, <3>1 DEF Unharmed
    <3> QED BY <1>2, <2>1, <3>1 DEF Unharmed
  <2>3. ASSUME NEW k \in 1..Len(delays')
        PROVE  HasDelay(k - 1)' /\ delays'[k] = CalculateDelay(k - 1)'
    <3>1. CASE k = attempt + 1
      <4>1. delays'[k] = CalculateDelay(attempt) /\ k - 1 = attempt
        BY <1>4, <2>1, <3>1
      <4> QED BY <1>3, <2>1, <4>1
    <3>2. CASE k # attempt + 1
      <4>1. k \in 1..Len(delays) /\ delays'[k] = delays[k]
        BY <1>4, <2>1, <3>2
      <4> QED BY <1>3, <4>1 DEF Given
    <3> QED BY <3>1, <3>2
  <2>4. Given'
    BY <2>3 DEF Given
  <2> QED BY <1>1, <2>2, <2>4
<1>6. CASE Panic
  <2>1. UNCHANGED <<attempt, delays>> /\ Unharmed'
    BY <1>2, <1>3, <1>6 DEF Panic, Unharmed
  <2> QED BY <1>1, <1>3, <2>1 DEF Given
<1>7. CASE Exhaust \/ UNCHANGED vars
  <2>1. UNCHANGED <<attempt, delays>> /\ (outcome' = "panicked" => outcome = "panicked")
    BY <1>7 DEF Exhaust, vars
  <2>2. Unharmed'
    BY <1>2, <1>3, <2>1 DEF Unharmed
  <2> QED BY <1>1, <1>3, <2>1, <2>2 DEF Given
<1> QED BY <1>5, <1>6, <1>7 DEF Next

\* Every delay is the documented one in a build with overflow checks, and in any
\* build under a policy whose largest product fits the word (retry.rs:58-74,
\* 202-227).
THEOREM ScheduleAsDocumented == Spec => [](Checked \/ Fits => DocumentedSchedule)
<1>1. Init => History
  BY PolicyAssumption, InitHistory
<1>2. History /\ [Next]_vars => History'
  BY PolicyAssumption, NextHistory
<1>3. History => (Checked \/ Fits => DocumentedSchedule)
  <2> SUFFICES ASSUME History, Checked \/ Fits, NEW k \in 1..Len(delays)
               PROVE  delays[k] = Documented(k)
    BY DEF DocumentedSchedule
  <2> USE DEF History
  <2>1. /\ attempt \in Nat /\ Len(delays) = attempt
        /\ k - 1 \in Nat /\ k - 1 < attempt
    BY DEF Counted
  <2>2. HasDelay(k - 1) /\ delays[k] = CalculateDelay(k - 1)
    BY DEF Given
  <2>3. CASE mechanism.kind = "exponential"
    <3>1. k - 1 < max_retries /\ max_retries > 0
      BY <2>1, <2>2 DEF HasDelay, Counted
    <3>2. ~Overflows(k - 1)
      BY <2>1, <2>3, <3>1, PolicyAssumption, FitsMeansNoOverflow DEF Unharmed
    <3>3. Product(k - 1) = mechanism.base_delay * Pow2[k - 1]
      BY <2>1, <2>3, <3>2, PolicyAssumption, OverflowsOfProduct
    <3> QED BY <2>2, <2>3, <3>3 DEF CalculateDelay, Documented
  <2>4. CASE mechanism.kind = "linear"
    BY <2>2, <2>4 DEF CalculateDelay, Documented
  <2>5. CASE mechanism.kind = "custom"
    <3>1. (k - 1) + 1 = k
      OBVIOUS
    <3> QED BY <2>2, <2>5, <3>1 DEF CalculateDelay, Documented
  <2> QED BY <2>3, <2>4, <2>5 DEF TypeOK, Mechanism
<1> QED BY <1>1, <1>2, <1>3, PTL DEF Spec

\* A build with overflow checks panics under exactly the policies whose largest
\* product does not fit: no other policy brings a task down, and none of these
\* lets a message through to its end (retry.rs:213).
THEOREM PanicsExactlyOnOverflow == Spec => []PanicsOnOverflow
<1>1. Init => History
  BY PolicyAssumption, InitHistory
<1>2. History /\ [Next]_vars => History'
  BY PolicyAssumption, NextHistory
<1>3. History => PanicsOnOverflow
  <2> SUFFICES ASSUME History PROVE PanicsOnOverflow
    OBVIOUS
  <2> USE DEF History
  <2>1. ASSUME outcome = "panicked" PROVE ~Fits
    <3>1. /\ mechanism.kind = "exponential" /\ Overflows(attempt)
          /\ attempt \in Nat /\ attempt < max_retries
      BY <2>1 DEF Unharmed, HasDelay, Counted
    <3>2. max_retries > 0
      BY <3>1 DEF Counted
    <3> QED BY <3>1, <3>2, PolicyAssumption, FitsMeansNoOverflow
  <2>2. ASSUME Checked, outcome = "exhausted" PROVE Fits
    <3>1. CASE mechanism.kind = "exponential" /\ max_retries > 0
      <4>1. attempt = max_retries
        BY <2>2, <3>1 DEF Counted, Retries
      <4>2. max_retries - 1 \in Nat /\ max_retries - 1 < attempt
        BY <3>1, <4>1 DEF Counted
      <4>3. ~Overflows(max_retries - 1)
        BY <2>2, <3>1, <4>2 DEF Unharmed
      <4> QED BY <3>1, <4>3, PolicyAssumption, FitsMeansNoOverflow
    <3>2. CASE ~(mechanism.kind = "exponential" /\ max_retries > 0)
      BY <3>2 DEF Fits
    <3> QED BY <3>1, <3>2
  <2> QED BY <2>1, <2>2 DEF PanicsOnOverflow
<1> QED BY <1>1, <1>2, <1>3, PTL DEF Spec
=============================================================================
