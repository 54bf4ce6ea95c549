----------------------------- MODULE AtLeastOnce -----------------------------
(***************************************************************************)
(* What a consumer of src/consumer promises about each message, without    *)
(* the broker, the channels and the tasks: a message that was accepted is  *)
(* held until it is handled or may be given up, its handler fails at       *)
(* attempts 0, 1, ... in turn and never beyond a final one, and only a     *)
(* message that failed finally is dead-lettered.  Handlers may be called   *)
(* again for a message they have seen: duplicates are part of the promise. *)
(*                                                                         *)
(* RawConsumer and EnvelopeConsumer implement this specification, with     *)
(* different answers to what becomes of a message after its final failure. *)
(***************************************************************************)
EXTENDS Integers

CONSTANTS
    Msg,
    Attempts,      \* the attempts a handler may be called at
    Final,         \* Final[m]: attempts after whose failure m is not retried
    Undecodable,   \* messages no handler can be called for
    Fragile,       \* messages that a failure may cost before the final one
    OnExhaustion   \* "dead_letter", "best_effort" (a dead letter may be lost)
                   \* or "reject": what becomes of a message that failed finally

VARIABLES
    accepted,   \* messages a publisher has brought into the queue
    held,       \* messages the broker holds, in whatever queue
    handled,    \* messages whose handler succeeded
    failures,   \* the attempts each message has failed at
    dead        \* messages that have been dead-lettered

promise == <<accepted, held, handled, failures, dead>>

Init ==
    /\ accepted = {}
    /\ held = {}
    /\ handled = {}
    /\ failures = [m \in Msg |-> {}]
    /\ dead = {}

FailedFinally(m) == failures[m] \cap Final[m] # {}

\* The message may disappear: it was handled, it cannot be, its retry could not
\* be written after a failure, or it failed finally and the consumer does not
\* insist on a dead letter.
MayRelease(m) ==
    \/ m \in handled
    \/ m \in Undecodable
    \/ m \in Fragile /\ failures[m] # {}
    \/ OnExhaustion # "dead_letter" /\ FailedFinally(m)

-----------------------------------------------------------------------------
Accept(m) ==
    /\ m \notin accepted
    /\ accepted' = accepted \cup {m}
    /\ held' = held \cup {m}
    /\ UNCHANGED <<handled, failures, dead>>

Succeed(m) ==
    /\ m \in accepted \ Undecodable
    /\ handled' = handled \cup {m}
    /\ UNCHANGED <<accepted, held, failures, dead>>

\* The handler fails at attempt k: it failed at all earlier ones, and none of
\* them was final.
Fail(m, k) ==
    /\ m \in accepted \ Undecodable
    /\ \A j \in 0..(k - 1) : j \in failures[m] \ Final[m]
    /\ failures' = [failures EXCEPT ![m] = @ \cup {k}]
    /\ UNCHANGED <<accepted, held, handled, dead>>

\* A best-effort dead letter may come late, when the message was released.
DeadLetter(m) ==
    /\ OnExhaustion # "reject"
    /\ m \in IF OnExhaustion = "dead_letter" THEN held ELSE accepted
    /\ FailedFinally(m)
    /\ dead' = dead \cup {m}
    /\ held' = held \cup {m}
    /\ UNCHANGED <<accepted, handled, failures>>

\* One failure of the broker may take several messages.
Release(M) ==
    /\ \A m \in M : MayRelease(m)
    /\ held' = held \ M
    /\ UNCHANGED <<accepted, handled, failures, dead>>

Next ==
    \/ \E m \in Msg : Accept(m) \/ Succeed(m) \/ DeadLetter(m)
    \/ \E m \in Msg, k \in Attempts : Fail(m, k)
    \/ \E M \in SUBSET held : Release(M)

Spec == Init /\ [][Next]_promise

-----------------------------------------------------------------------------
\* Nothing that was accepted disappears, unless it may be released.
Kept == \A m \in accepted : m \in held \/ MayRelease(m)

\* The attempts a message failed at are consecutive, and end with the final one.
FailsInTurn ==
    \A m \in Msg, k \in Attempts :
        k \in failures[m] => \A j \in 0..(k - 1) : j \in failures[m] \ Final[m]

\* A dead letter was accepted and has failed finally, once.
DeadForGoodReason ==
    \A m \in dead :
        /\ m \in accepted \ Undecodable
        /\ \E k \in failures[m] : failures[m] \cap Final[m] = {k}
=============================================================================
