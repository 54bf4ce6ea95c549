-------------------------- MODULE EnvelopeConsumer --------------------------
(***************************************************************************)
(* Consumer::consume_envelopes() of src/consumer/envelope.rs: the attempt  *)
(* is metadata.retry_attempt inside the payload, a retry needs both the    *)
(* envelope's max_retries and the retry policy to allow it, and exhausted  *)
(* envelopes are dead-lettered by send_to_dlq: on a channel of its own,    *)
(* without a delivery mode, and with every error logged and forgotten      *)
(* before the delivery is acked.                                           *)
(*                                                                         *)
(* body.attempt stands for metadata.retry_attempt.  The dead letter        *)
(* channel belongs to the connection the session is on: losing that loses  *)
(* the frame, an exception on the session's channel does not.  AMQP orders *)
(* nothing between the two channels.                                       *)
(***************************************************************************)
EXTENDS Consumer

CONSTANTS
    EnvMax,           \* metadata.max_retries of each message
    Unserializable    \* messages whose payload may fail to serialize again

ASSUME EnvelopeAssumption ==
    /\ EnvMax \in [Msg -> Nat]
    /\ Unserializable \subseteq Msg
    /\ FirstHeaders = {0}

VARIABLE outDlq    \* dead letter frame of a delivery, not yet received

envVars == <<vars, outDlq>>

NoFrames == [c \in Copy |-> None]

Init ==
    /\ ConsumerInit
    /\ outDlq = [s \in Session |-> NoFrames]

-----------------------------------------------------------------------------
\* Mutants: the comparison is off by one, either way.
ExhaustedEarly(c) == Attempt(c) + 1 >= EnvMax[body[c].msg]
ExhaustedLate(c) == Attempt(c) > EnvMax[body[c].msg]

\* is_retry_exhausted of the envelope with_error returns for copy c.
IsRetryExhausted(c) == Attempt(c) + 1 > EnvMax[body[c].msg]

Retries(c) == HasRetry /\ ~IsRetryExhausted(c) /\ RetryDelay(Attempt(c)) # None
Exhausted(c) == HasRetry /\ ~Retries(c)

\* The handler returned an error; the delay index of the incremented attempt is
\* the old attempt.
HandlerErr(s, c) ==
    /\ HandlerReturns(s, c, FALSE)
    /\ Goto(s, c, CASE Retries(c) -> "declare"
                    [] Exhausted(c) -> "open_dlq"
                    [] OTHER -> "nack")
    /\ UNCHANGED outDlq

\* calculate_delay panics in a build with overflow checks: the handler has
\* returned an error, the task ends, and nothing settles the delivery.
CalculateDelayPanics(s, c) ==
    /\ HandlerReturns(s, c, FALSE)
    /\ Retries(c) /\ Attempt(c) \in Overflowing
    /\ Goto(s, c, "none")
    /\ UNCHANGED outDlq

\* Mutant: an envelope that cannot be written for its retry is acked.
RetrySerializeAcked(s, c) ==
    /\ HandlerReturns(s, c, FALSE)
    /\ Retries(c) /\ body[c].msg \in Unserializable
    /\ Goto(s, c, "ack")
    /\ UNCHANGED outDlq

\* to_vec of the envelope fails: it is rejected, with retries left.
RetrySerializeFails(s, c) ==
    /\ HandlerReturns(s, c, FALSE)
    /\ Retries(c) /\ body[c].msg \in Unserializable
    /\ Goto(s, c, "nack")
    /\ UNCHANGED outDlq

-----------------------------------------------------------------------------
(* send_to_dlq. *)

\* Connection::create_channel.  It reconnects after a lost connection, and
\* fails when it cannot or when the connection has no channel left.
OpenDlqChannel(s, c) ==
    /\ pc[s][c] = "open_dlq"
    /\ \/ Goto(s, c, "declare_dlq")
       \/ "dlq_channel" \in Faults /\ Goto(s, c, "ack")
    /\ UNCHANGED <<brokerVars, calls, outDlq>>

\* queue_declare with no arguments: a dead letter queue that has a TTL refuses,
\* and the exception closes the dead letter channel only.
DeclareDlq(s, c) ==
    /\ pc[s][c] = "declare_dlq"
    /\ IF DeclareAccepted(Dlq, NoTtl)
       THEN /\ args' = [args EXCEPT ![Dlq] = NoTtl]
            /\ Goto(s, c, "publish_dlq")
       ELSE /\ Goto(s, c, "ack")
            /\ UNCHANGED args
    /\ UNCHANGED <<place, body, owner, chan, outPub, outSettle, bound, calls, outDlq>>

\* The dead letter holds the envelope with its attempt and failure summary.
DlqBody(c) == [msg |-> body[c].msg, attempt |-> Attempt(c) + 1, persistent |-> FALSE]

\* Mutant: the delivery is not acked after it is dead-lettered.
PublishDlqOnly(s, c) ==
    /\ pc[s][c] = "publish_dlq"
    /\ outDlq' = [outDlq EXCEPT ![s][c] = [to |-> Dlq, body |-> DlqBody(c)]]
    /\ Goto(s, c, "none")
    /\ UNCHANGED <<brokerVars, calls>>

\* basic_publish with default properties.
PublishDlq(s, c) ==
    /\ pc[s][c] = "publish_dlq"
    /\ outDlq' = [outDlq EXCEPT ![s][c] = [to |-> Dlq, body |-> DlqBody(c)]]
    /\ Goto(s, c, "ack")
    /\ UNCHANGED <<brokerVars, calls>>

\* json! unwraps the serialization of the envelope: the task panics between the
\* declaration and the publish, and nothing settles the delivery.
DlqPayloadPanics(s, c) ==
    /\ pc[s][c] = "publish_dlq"
    /\ body[c].msg \in Unserializable
    /\ Goto(s, c, "none")
    /\ UNCHANGED <<brokerVars, calls, outDlq>>

\* A call on the dead letter channel fails because its connection is gone.
DlqCallFails(s, c) ==
    /\ pc[s][c] \in {"declare_dlq", "publish_dlq"}
    /\ chan[s] = "closed"
    /\ Goto(s, c, "ack")
    /\ UNCHANGED <<brokerVars, calls, outDlq>>

BrokerRecvDlq(s, c) ==
    /\ outDlq[s][c] # None
    /\ Enqueue("dlq", outDlq[s][c].body)
    /\ outDlq' = [outDlq EXCEPT ![s][c] = None]
    /\ UNCHANGED <<owner, chan, outPub, outSettle, args, bound, pc, calls>>

-----------------------------------------------------------------------------
(* Lost connections take the dead letter frames with them. *)

LoseConnection(s) ==
    /\ ConnectionLost(s)
    /\ outDlq' = [outDlq EXCEPT ![s] = NoFrames]

Crash(s) ==
    /\ ProcessCrash(s)
    /\ outDlq' = [outDlq EXCEPT ![s] = NoFrames]

Restart ==
    /\ BrokerRestarts
    /\ outDlq' = [s \in Session |-> NoFrames]

\* The connection a closed session's dead letter went out on is lost.
LoseDlqFrame(s, c) ==
    /\ "connection" \in Faults
    /\ chan[s] = "closed"
    /\ outDlq[s][c] # None
    /\ outDlq' = [outDlq EXCEPT ![s][c] = None]
    /\ UNCHANGED vars

-----------------------------------------------------------------------------
SharedTaskStep(s, c) ==
    \/ Dispatch(s, c)
    \/ HandlerOk(s, c)
    \/ CreateRetryQueue(s, c)
    \/ CreateDelayExchange(s, c)
    \/ SendRetry(s, c)
    \/ AckDelivery(s, c)
    \/ NackDelivery(s, c)

TaskStep(s, c) ==
    \/ SharedTaskStep(s, c) /\ UNCHANGED outDlq
    \/ HandlerErr(s, c)
    \/ CalculateDelayPanics(s, c)
    \/ RetrySerializeFails(s, c)
    \/ OpenDlqChannel(s, c)
    \/ DeclareDlq(s, c)
    \/ PublishDlq(s, c)
    \/ DlqPayloadPanics(s, c)
    \/ DlqCallFails(s, c)

BrokerStep(s, c) ==
    \/ (Deliver(s, c) \/ BrokerRecvPublish(s, c) \/ BrokerRecvSettle(s, c)) /\ UNCHANGED outDlq
    \/ BrokerRecvDlq(s, c)

Fault ==
    \/ \E s \in Session : StartFails(s) /\ UNCHANGED outDlq
    \/ \E s \in Session, c \in Copy : HandlerPanics(s, c) /\ UNCHANGED outDlq
    \/ \E s \in Session : LoseConnection(s)
    \/ \E s \in Session : Crash(s)
    \/ \E s \in Session, c \in Copy : LoseDlqFrame(s, c)
    \/ Restart

Next ==
    \/ \E m \in Msg : Publish(m) /\ UNCHANGED outDlq
    \/ \E s \in Session : StartConsumerChannel(s) /\ UNCHANGED outDlq
    \/ \E s \in Session, c \in Copy : TaskStep(s, c) \/ BrokerStep(s, c)
    \/ \E c \in Copy : (RetryDue(c) \/ DlqTtlPasses(c)) /\ UNCHANGED outDlq
    \/ Fault

Spec == Init /\ [][Next]_envVars

-----------------------------------------------------------------------------
(* Properties. *)

TypeOK ==
    /\ BrokerTypeOK
    /\ ConsumerTypeOK
    /\ outDlq \in [Session -> [Copy -> Frame \cup {None}]]

\* The handler failed the message at an attempt after which it is not retried.
FinalFailure(m) ==
    \E k \in 0..MaxRetries :
        /\ FailedAt(m, k)
        /\ k + 1 > EnvMax[m] \/ RetryDelay(k) = None

\* Messages the consumer may discard: by design, or because their handler failed
\* and the retry could not be written.
MayReject(m) ==
    \/ Rejectable(m)
    \/ m \in Unserializable /\ \E call \in calls : call.msg = m /\ ~call.ok

Carried(m) ==
    \/ \E c \in Copy : body[c] # None /\ body[c].msg = m /\ Live(c)
    \/ \E s \in Session, c \in Copy : outDlq[s][c] # None /\ outDlq[s][c].body.msg = m

\* Until its handler has failed for the last time an envelope is never lost,
\* whatever happens to the channel, the process and the broker: the retry path
\* acks only what it has republished, the dead letter path is taken by nothing but
\* a final failure, and what the broker discards was rejected by design, or could
\* not be serialized for a retry after its handler failed, and nothing else
\* (envelope.rs:85-236).
KeptUntilExhausted ==
    \A m \in Msg : Published(m) =>
        \/ Handled(m) \/ Carried(m)
        \/ MayReject(m) /\ Discarded(m)
        \/ HasRetry /\ FinalFailure(m)

\* An exhausted envelope is in the dead letter queue, on its way there, or still
\* to be processed (README.md:62: "exhausted messages go to DLQ").
ExhaustedKept ==
    \A m \in Msg : Published(m) /\ HasRetry /\ FinalFailure(m) => Handled(m) \/ Carried(m)

\* A retry policy gives an envelope its max_retries (message.rs:306: "Will be
\* set by retry config"): a dead letter failed at every attempt the policy has.
RetriesAsConfigured ==
    \A c \in Copy : place[c] = "dlq" => \A k \in 0..MaxRetries : FailedAt(body[c].msg, k)

\* Retries are earned: an envelope at attempt k was failed by the handler at
\* every attempt before k, in the main queue, a retry or the dead letter queue.
EarnedRetries ==
    \A c \in Copy : body[c] # None =>
        /\ \A k \in 0..(Attempt(c) - 1) : FailedAt(body[c].msg, k)
        /\ place[c] \in {"dlq", "expired"} => FinalFailure(body[c].msg)

\* The handler is never called at an attempt beyond the envelope's own limit
\* or the policy's.
AttemptLimit ==
    \A call \in calls : call.attempt <= EnvMax[call.msg] /\ call.attempt <= MaxRetries

\* An open channel settles a delivery it has, once.
SettleOnce ==
    \A s \in Session, c \in Copy :
        chan[s] = "open" =>
            /\ outSettle[s][c] # None => owner[c] = s /\ pc[s][c] = "none"
            /\ pc[s][c] # "none" => owner[c] = s

\* The task of copy c may have ended in the panic of calculate_delay or of json!.
Abandoned(c) ==
    /\ FailedAt(body[c].msg, Attempt(c))
    /\ \/ Retries(c) /\ Attempt(c) \in Overflowing
       \/ Exhausted(c) /\ body[c].msg \in Unserializable

\* No delivery is forgotten: every branch of the task that handles it, and every
\* failing call in between, ends in a settlement (envelope.rs:49-236), with three
\* exceptions and no other: the handler panics, calculate_delay panics on the
\* overflow of retry.rs:213, or json! panics on the payload of a dead letter
\* (envelope.rs:270).
NeverForgotten ==
    "panic" \notin Faults =>
        \A s \in Session, c \in Copy : Forgotten(s, c) => Abandoned(c)

\* The prefetch window and the semaphore, which count the same deliveries by
\* different means, never block each other, unless a task panics.  With a prefetch
\* count of 0 there are no permits at all (envelope.rs:30-49).
WindowMoves ==
    "panic" \notin Faults /\ Overflowing = {} /\ Unserializable = {} /\ Prefetch > 0 =>
        \A s \in Session : WindowFree(s)

\* Without a closed channel an envelope has one carrier at most, and none once
\* the handler has succeeded: the dead letter's channel makes no duplicate.
NoDuplicates ==
    (\A s \in Session : chan[s] # "closed") =>
        \A m \in Msg :
            Cardinality(CarryingCopies(m)) + Cardinality(CarryingFrames(m, outPub))
              + Cardinality(CarryingFrames(m, outDlq))
                <= (IF Handled(m) THEN 0 ELSE 1)

-----------------------------------------------------------------------------
(* The promise this consumer implements. *)

FailuresOf(m) == {k \in 0..MaxRetries : FailedAt(m, k)}

\* Dead letters go on counting as such when a restart of the broker loses them.
DeadLettered(m) == \E c \in Copy : /\ body[c] # None /\ body[c].msg = m
                                   /\ place[c] \in {"dlq", "expired", "lost"}

Promise == INSTANCE AtLeastOnce WITH
    Attempts     <- 0..MaxRetries,
    Final        <- [m \in Msg |-> {k \in 0..MaxRetries :
                        ~HasRetry \/ k + 1 > EnvMax[m] \/ RetryDelay(k) = None}],
    Undecodable  <- Malformed,
    Fragile      <- Unserializable,
    OnExhaustion <- IF HasRetry THEN "best_effort" ELSE "reject",
    accepted     <- {m \in Msg : Published(m)},
    held         <- {m \in Msg : Held(m)},
    handled      <- {m \in Msg : Handled(m)},
    failures     <- [m \in Msg |-> FailuresOf(m)],
    dead         <- {m \in Msg : DeadLettered(m)}

\* consume_envelopes() keeps the promise of AtLeastOnce with a best-effort dead
\* letter: whatever fails, an envelope leaves the broker only after it was
\* handled or failed finally by its own limit or the policy's, or could not be
\* serialized after a failure, and its handler fails at consecutive attempts
\* (envelope.rs:75-236).
KeepsPromise == Promise!Spec

-----------------------------------------------------------------------------
(* The inductive invariant behind the properties of one state. *)

\* Envelope m is retried after it has failed at attempt k.
Allowed(m, k) == HasRetry /\ k + 1 <= EnvMax[m] /\ RetryDelay(k) # None

\* The handler failed envelope b.msg at every attempt before the one b carries.
\* Dead letters are the bodies without a delivery mode: they follow a final
\* failure, and all others carry no attempt beyond the limits.
Earned(b) ==
    /\ \A k \in 0..(ReadRetryAttempt(b) - 1) :
          FailedAt(b.msg, k) /\ (b.persistent => Allowed(b.msg, k))
    /\ ~b.persistent => HasRetry /\ FinalFailure(b.msg)

\* A copy is unused, outstanding on an open channel, or nobody's; dead letters
\* stay out of the main queue.
CopyOK(c) ==
    /\ place[c] = "unused" <=> body[c] = None
    /\ owner[c] # None <=> place[c] = "unacked"
    /\ \A s \in Session : owner[c] = s => chan[s] = "open"
    /\ body[c] # None =>
          /\ Earned(body[c])
          /\ place[c] = "dropped" => MayReject(body[c].msg)
          /\ place[c] \in {"dlq", "expired"} => ~body[c].persistent
          /\ ~body[c].persistent => place[c] \in {"dlq", "expired", "lost"}

\* What a task has established when it reaches a step.
TaskOK(s, c) ==
    /\ pc[s][c] # "none" => body[c] # None /\ body[c].persistent /\ chan[s] # "new"
    /\ pc[s][c] # "none" /\ chan[s] = "open" => owner[c] = s
    /\ pc[s][c] = "handling" => body[c].msg \notin Malformed
    /\ pc[s][c] = "nack" /\ chan[s] = "open" => MayReject(body[c].msg)
    /\ pc[s][c] \in {"declare", "publish"} => Retries(c) /\ FailedAt(body[c].msg, Attempt(c))
    /\ pc[s][c] \in {"open_dlq", "declare_dlq", "publish_dlq"} =>
          Exhausted(c) /\ FinalFailure(body[c].msg) /\ FailedAt(body[c].msg, Attempt(c))

\* Frames on a session's channel belong to its outstanding deliveries, and what
\* is published was earned.
FrameOK(s, c) ==
    /\ outPub[s][c] # None \/ outSettle[s][c] # None => owner[c] = s
    /\ outSettle[s][c] # None => pc[s][c] = "none"
    /\ outSettle[s][c] = "nack" => MayReject(body[c].msg)
    /\ outPub[s][c] # None =>
          /\ HasRetry /\ outPub[s][c].to # Dlq
          /\ outPub[s][c].body.msg = body[c].msg
          /\ outPub[s][c].body.persistent /\ Earned(outPub[s][c].body)
          /\ ReadRetryAttempt(outPub[s][c].body) > Attempt(c)
    /\ outDlq[s][c] # None =>
          /\ body[c] # None /\ outDlq[s][c].body.msg = body[c].msg
          /\ ~outDlq[s][c].body.persistent /\ Earned(outDlq[s][c].body)

\* The delay exchange has a route back.
Durability ==
    /\ HasRetry /\ DelayedExchange =>
          /\ \A s \in Session : chan[s] = "open" => bound
          /\ \A c \in Copy : place[c] = "delayed" => bound
    /\ \A c \in Copy : place[c] = "delayed" => HasRetry

\* Nobody needs envelope m any more.
Done(m) == Handled(m) \/ Discarded(m) \/ (HasRetry /\ FinalFailure(m))

Active(c) == body[c] # None /\ place[c] \in {"ready", "unacked", "delayed"}

\* The broker may forget copy c: it is not needed, or continued further along.
Covered(c) ==
    \/ Done(body[c].msg)
    \/ \E d \in Copy : Active(d) /\ body[d].msg = body[c].msg /\ Attempt(d) > Attempt(c)

\* A delivery that is about to be acked may be forgotten, or may be once the
\* publish frame ahead of the ack arrives.
AcksCovered(s, c) ==
    chan[s] = "open" /\ (pc[s][c] = "ack" \/ outSettle[s][c] = "ack")
        => outPub[s][c] # None \/ Covered(c)

Kept == \A m \in Msg : Published(m) =>
            Done(m) \/ \E c \in Copy : Active(c) /\ body[c].msg = m

IInv ==
    /\ TypeOK /\ Durability /\ AttemptLimit /\ Kept
    /\ \A c \in Copy : CopyOK(c)
    /\ \A s \in Session, c \in Copy : TaskOK(s, c) /\ FrameOK(s, c) /\ AcksCovered(s, c)

\* Handler calls have an envelope, and it is carried once at most, by the main
\* queue and its retries or by a dead letter frame, and not at all once it was
\* handled.
Single ==
    /\ \A call \in calls : Published(call.msg)
    /\ AckFollows
    /\ Undisturbed => \A m \in Msg :
          /\ \A c, d \in Copy : Carries(c, m) /\ Carries(d, m) => c = d
          /\ \A x, y \in CarryingFrames(m, outDlq) : x = y
          /\ CarryingFrames(m, outDlq) = {} \/ \A c \in Copy : ~Carries(c, m)
          /\ Handled(m) => /\ CarryingFrames(m, outDlq) = {}
                           /\ \A c \in Copy : ~Carries(c, m)
=============================================================================
