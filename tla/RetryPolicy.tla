----------------------------- MODULE RetryPolicy -----------------------------
(***************************************************************************)
(* RetryConfig::calculate_delay of src/retry.rs, for one message whose     *)
(* handler keeps failing.  Delays are milliseconds; the product of the     *)
(* exponential backoff is computed in Width bits (64 in the code): a       *)
(* release build wraps, a build with overflow checks panics.  Delays are   *)
(* whole milliseconds that fit the word, for which as_millis() as u64 is   *)
(* exact.                                                                  *)
(***************************************************************************)
EXTENDS Integers, Sequences

\* 2^n, as a function that the proofs can reason about.
Pow2[n \in Nat] == IF n = 0 THEN 1 ELSE 2 * Pow2[n - 1]

CONSTANTS
    Width,      \* bits of the product's type
    Ms,         \* delays a configuration may give
    Limit,      \* bound on max_retries
    Checked     \* the build checks overflow

ASSUME PolicyAssumption ==
    /\ Width \in Nat \ {0}
    /\ Ms \subseteq 0..(Pow2[Width] - 1)
    /\ Limit \in Nat
    /\ Checked \in BOOLEAN

Mechanism ==
    [kind : {"exponential"}, base_delay : Ms, max_delay : Ms]
      \cup [kind : {"linear"}, delay : Ms]
      \cup [kind : {"custom"}, delays : UNION {[1..n -> Ms] : n \in 0..Limit}]

VARIABLES
    max_retries, \* RetryConfig::max_retries
    mechanism,   \* RetryConfig::mechanism
    attempt,     \* the attempt that fails next
    delays,      \* the delays given so far
    outcome      \* "retrying", "exhausted" or "panicked"

vars == <<max_retries, mechanism, attempt, delays, outcome>>

TypeOK ==
    /\ max_retries \in 0..Limit
    /\ mechanism \in Mechanism
    /\ attempt \in 0..Limit
    /\ delays \in Seq(Ms \cup 0..(Pow2[Width] - 1))
    /\ outcome \in {"retrying", "exhausted", "panicked"}

\* The fields are public, so max_retries and a custom list may disagree.
Init ==
    /\ max_retries \in 0..Limit
    /\ mechanism \in Mechanism
    /\ attempt = 0
    /\ delays = <<>>
    /\ outcome = "retrying"

-----------------------------------------------------------------------------
Smaller(x, y) == IF x < y THEN x ELSE y

\* Mutant: the backoff starts at 2 * base_delay.
ProductDoubled(n) == (mechanism.base_delay * (Pow2[n + 1] % Pow2[Width])) % Pow2[Width]

\* 2_u64.pow(attempt), and its product with base_delay.
Power(n) == Pow2[n] % Pow2[Width]
Product(n) == (mechanism.base_delay * Power(n)) % Pow2[Width]

\* Mutant: the power of the next attempt is computed.
OverflowsEarly(n) == Pow2[n + 1] >= Pow2[Width]

Overflows(n) ==
    \/ Pow2[n] >= Pow2[Width]
    \/ mechanism.base_delay * Power(n) >= Pow2[Width]

\* Mutants: the initial attempt counts as a retry, or one retry too many.
HasDelayShort(n) ==
    /\ n + 1 < max_retries
    /\ mechanism.kind = "custom" => n < Len(mechanism.delays)

HasDelayLong(n) ==
    /\ n <= max_retries
    /\ mechanism.kind = "custom" => n < Len(mechanism.delays)

HasDelay(n) ==
    /\ n < max_retries
    /\ mechanism.kind = "custom" => n < Len(mechanism.delays)

CalculateDelay(n) ==
    CASE mechanism.kind = "exponential" -> Smaller(Product(n), mechanism.max_delay)
      [] mechanism.kind = "linear" -> mechanism.delay
      [] mechanism.kind = "custom" -> mechanism.delays[n + 1]

\* The handler failed and is to be called again after the delay.
Retry ==
    /\ outcome = "retrying"
    /\ HasDelay(attempt)
    /\ ~(Checked /\ mechanism.kind = "exponential" /\ Overflows(attempt))
    /\ delays' = Append(delays, CalculateDelay(attempt))
    /\ attempt' = attempt + 1
    /\ UNCHANGED <<max_retries, mechanism, outcome>>

\* The multiplication overflows in a build with overflow checks.
Panic ==
    /\ outcome = "retrying"
    /\ HasDelay(attempt)
    /\ Checked /\ mechanism.kind = "exponential" /\ Overflows(attempt)
    /\ outcome' = "panicked"
    /\ UNCHANGED <<max_retries, mechanism, attempt, delays>>

Exhaust ==
    /\ outcome = "retrying"
    /\ ~HasDelay(attempt)
    /\ outcome' = "exhausted"
    /\ UNCHANGED <<max_retries, mechanism, attempt, delays>>

Next == Retry \/ Panic \/ Exhaust

Spec == Init /\ [][Next]_vars

-----------------------------------------------------------------------------
(* Properties. *)

\* The k-th delay as retry.rs:60-71 documents it.
Documented(k) ==
    CASE mechanism.kind = "exponential" ->
            Smaller(mechanism.base_delay * Pow2[k - 1], mechanism.max_delay)
      [] mechanism.kind = "linear" -> mechanism.delay
      [] mechanism.kind = "custom" -> mechanism.delays[k]

\* Every delay given is the documented one: the backoff doubles up to max_delay
\* and then stays there, whatever the number of retries.
DocumentedSchedule == \A k \in 1..Len(delays) : delays[k] = Documented(k)

\* The largest product of the backoff, and the power in it, fit Width bits.
Fits ==
    mechanism.kind = "exponential" /\ max_retries > 0 =>
        /\ Pow2[max_retries - 1] < Pow2[Width]
        /\ mechanism.base_delay * Pow2[max_retries - 1] < Pow2[Width]

\* Overflow is a matter of the uncapped product: a build with overflow checks
\* brings a handler task down by calculate_delay exactly under the policies whose
\* largest product does not fit, even when max_delay caps every delay far below
\* that, and no message gets through all retries of such a policy (retry.rs:213).
PanicsOnOverflow ==
    /\ outcome = "panicked" => ~Fits
    /\ Checked /\ outcome = "exhausted" => Fits

\* A message is given up after max_retries retries, or when a custom list has
\* no more delays; the initial attempt is not counted.
FullSchedule ==
    outcome = "exhausted" =>
        Len(delays) = (IF mechanism.kind = "custom"
                       THEN Smaller(max_retries, Len(mechanism.delays))
                       ELSE max_retries)
=============================================================================
