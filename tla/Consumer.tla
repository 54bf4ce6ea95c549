------------------------------ MODULE Consumer ------------------------------
(***************************************************************************)
(* What the raw consumer (src/consumer/raw.rs) and the envelope consumer   *)
(* (src/consumer/envelope.rs) share: starting a channel and declaring the  *)
(* topology, the delivery loop with its semaphore, the settlement calls    *)
(* and the steps of a retry publish.  Each delivery the loop takes is      *)
(* handled by a spawned task; pc[s][c] is the await the task of copy c in  *)
(* session s has reached.                                                  *)
(*                                                                         *)
(* Every await that talks to the broker is a step of its own, and it takes *)
(* its error branch when the channel is closed by then.  queue_declare is  *)
(* a call with an answer, so its step includes the broker's part.          *)
(***************************************************************************)
EXTENDS Broker

CONSTANTS
    HasRetry,         \* retry_config is Some
    Delay,            \* calculate_delay, None when it has no delay to give
    Overflowing,      \* attempts whose backoff overflows before it is capped;
                      \* not the first, where it is the base delay itself
    DelayedExchange,  \* delay_strategy is DelayedExchange, not TTL
    Prefetch,         \* prefetch_count
    Malformed,        \* messages whose payload the consumer cannot decode
    FirstHeaders,     \* the attempt newly published messages carry
    Faults            \* the faults the environment may inject

ASSUME ConsumerAssumption ==
    /\ HasRetry \in BOOLEAN
    /\ Delay \in [0..(MaxRetries - 1) -> Ttl \cup {None}]
    /\ Overflowing \subseteq {k \in 1..(MaxRetries - 1) : Delay[k] # None}
    /\ DelayedExchange \in BOOLEAN
    /\ Prefetch \in Nat
    /\ Malformed \subseteq Msg
    /\ FirstHeaders \subseteq {None, 0}
    /\ Faults \subseteq {"start", "connection", "crash", "restart", "panic", "dlq_channel"}
    /\ None \notin Ttl

VARIABLES
    pc,     \* the step each delivery's task has reached
    calls   \* the handler calls that returned: message, attempt and outcome

vars == <<place, body, owner, chan, outPub, outSettle, args, bound, pc, calls>>

Steps == {"none", "buffered", "handling", "declare", "publish",
          "open_dlq", "declare_dlq", "publish_dlq", "ack", "nack"}
Call == [msg : Msg, attempt : Nat, ok : BOOLEAN]

ConsumerTypeOK ==
    /\ pc \in [Session -> [Copy -> Steps]]
    /\ calls \in SUBSET Call

ConsumerInit ==
    /\ BrokerInit
    /\ pc = [s \in Session |-> [c \in Copy |-> "none"]]
    /\ calls = {}

\* read_retry_attempt: a missing header counts as attempt 0.
ReadRetryAttempt(b) == IF b.attempt = None THEN 0 ELSE b.attempt
Attempt(c) == ReadRetryAttempt(body[c])

Goto(s, c, step) == pc' = [pc EXCEPT ![s][c] = step]

-----------------------------------------------------------------------------
(* Publishers, on connections of their own. *)

Publish(m) ==
    /\ ~Published(m)
    /\ \E attempt \in FirstHeaders :
        Enqueue("ready", [msg |-> m, attempt |-> attempt, persistent |-> TRUE])
    /\ UNCHANGED <<owner, chan, outPub, outSettle, args, bound, pc, calls>>

-----------------------------------------------------------------------------
(* The delivery loop. *)

\* Mutant: the main queue is never bound to the delay exchange.
StartUnbound(s) ==
    /\ chan[s] = "new"
    /\ chan' = [chan EXCEPT ![s] = "open"]
    /\ UNCHANGED <<place, body, owner, outPub, outSettle, args, bound, pc, calls>>

\* start_consumer_channel opens the channel, sets the prefetch count, declares
\* the topology and starts the consumer.
StartConsumerChannel(s) ==
    /\ chan[s] = "new"
    /\ chan' = [chan EXCEPT ![s] = "open"]
    /\ bound' = (bound \/ (HasRetry /\ DelayedExchange))
    /\ UNCHANGED <<place, body, owner, outPub, outSettle, args, pc, calls>>

\* One of its calls fails: consume() returns the error.
StartFails(s) ==
    /\ "start" \in Faults
    /\ chan[s] = "new"
    /\ chan' = [chan EXCEPT ![s] = "closed"]
    /\ UNCHANGED <<place, body, owner, outPub, outSettle, args, bound, pc, calls>>

\* A delivery arrives in the consumer's stream.
Deliver(s, c) ==
    /\ Send(s, c, Prefetch)
    /\ Goto(s, c, "buffered")
    /\ UNCHANGED calls

\* Tasks holding one of the Semaphore(prefetch_count) permits.
Running(s) == {c \in Copy : pc[s][c] \notin {"none", "buffered"}}

\* The loop takes a permit and spawns the task, which decodes the payload.
\* Deliveries that were in the stream when the channel closed may still be
\* taken.
Dispatch(s, c) ==
    /\ pc[s][c] = "buffered"
    /\ Cardinality(Running(s)) < Prefetch
    /\ Goto(s, c, IF body[c].msg \in Malformed THEN "nack" ELSE "handling")
    /\ UNCHANGED <<brokerVars, calls>>

\* The handler returned ok or an error for copy c.
HandlerReturns(s, c, ok) ==
    /\ pc[s][c] = "handling"
    /\ calls' = calls \cup {[msg |-> body[c].msg, attempt |-> Attempt(c), ok |-> ok]}
    /\ UNCHANGED brokerVars

HandlerOk(s, c) ==
    /\ HandlerReturns(s, c, TRUE)
    /\ Goto(s, c, "ack")

\* Mutants: a task that panics is acked or dead-lettered.
PanicAcks(s, c) ==
    /\ "panic" \in Faults
    /\ pc[s][c] = "handling"
    /\ Goto(s, c, "ack")
    /\ UNCHANGED <<brokerVars, calls>>

PanicDeadLetters(s, c) ==
    /\ "panic" \in Faults
    /\ pc[s][c] = "handling"
    /\ Goto(s, c, IF HasRetry THEN "declare_dlq" ELSE "nack")
    /\ UNCHANGED <<brokerVars, calls>>

\* The handler panicked: the task ends, its permit is released and nothing
\* settles the delivery.
HandlerPanics(s, c) ==
    /\ "panic" \in Faults
    /\ pc[s][c] = "handling"
    /\ Goto(s, c, "none")
    /\ UNCHANGED <<brokerVars, calls>>

-----------------------------------------------------------------------------
(* Declaring and publishing. *)

\* queue_declare of q by the task of copy c; the task goes on at step next, or
\* at step failed when the call fails: on a closed channel, or because q has
\* other arguments, which is a channel exception that closes the channel.
QueueDeclare(s, c, q, ttl, next, failed) ==
    \/ /\ chan[s] = "open"
       /\ DeclareAccepted(q, ttl)
       /\ args' = [args EXCEPT ![q] = ttl]
       /\ Goto(s, c, next)
       /\ UNCHANGED <<place, body, owner, chan, outPub, outSettle, bound, calls>>
    \/ /\ chan[s] = "open"
       /\ ~DeclareAccepted(q, ttl)
       /\ Close({s})
       /\ Goto(s, c, failed)
       /\ UNCHANGED calls
    \/ /\ chan[s] = "closed"
       /\ Goto(s, c, failed)
       /\ UNCHANGED <<brokerVars, calls>>

\* basic_publish of a frame; there are no publisher confirms, so the call
\* succeeds as soon as the frame is written.
BasicPublish(s, c, frame, next, failed) ==
    \/ /\ chan[s] = "open"
       /\ outPub' = [outPub EXCEPT ![s][c] = frame]
       /\ Goto(s, c, next)
       /\ UNCHANGED <<place, body, owner, chan, outSettle, args, bound, calls>>
    \/ /\ chan[s] = "closed"
       /\ Goto(s, c, failed)
       /\ UNCHANGED <<brokerVars, calls>>

\* calculate_delay of retry.rs for the error of this attempt.
RetryDelay(attempt) == IF attempt < MaxRetries THEN Delay[attempt] ELSE None

\* create_retry_queue, when delays are retry queues with a TTL.
CreateRetryQueue(s, c) ==
    /\ pc[s][c] = "declare"
    /\ ~DelayedExchange
    /\ QueueDeclare(s, c, RetryQueue(Attempt(c) + 1), Delay[Attempt(c)], "publish", "nack")

\* create_delay_exchange, an exchange_declare with arguments that never vary.
CreateDelayExchange(s, c) ==
    /\ pc[s][c] = "declare"
    /\ DelayedExchange
    /\ Goto(s, c, IF chan[s] = "open" THEN "publish" ELSE "nack")
    /\ UNCHANGED <<brokerVars, calls>>

\* Mutants: the retry queue is numbered from 0, the header is incremented twice,
\* the delivery mode is left out.
FrameNumberedFromZero(c) ==
    [to |-> IF DelayedExchange THEN DelayExchange ELSE RetryQueue(Attempt(c)),
     body |-> [msg |-> body[c].msg, attempt |-> Attempt(c) + 1, persistent |-> TRUE]]

FrameCountedTwice(c) ==
    [to |-> IF DelayedExchange THEN DelayExchange ELSE RetryQueue(Attempt(c) + 1),
     body |-> [msg |-> body[c].msg, attempt |-> Attempt(c) + 2, persistent |-> TRUE]]

FrameTransient(c) ==
    [to |-> IF DelayedExchange THEN DelayExchange ELSE RetryQueue(Attempt(c) + 1),
     body |-> [msg |-> body[c].msg, attempt |-> Attempt(c) + 1, persistent |-> FALSE]]

RetryFrame(c) ==
    [to |-> IF DelayedExchange THEN DelayExchange ELSE RetryQueue(Attempt(c) + 1),
     body |-> [msg |-> body[c].msg, attempt |-> Attempt(c) + 1, persistent |-> TRUE]]

\* Mutant: the delivery is not acked after the retry is published.
SendRetryOnly(s, c) ==
    /\ pc[s][c] = "publish"
    /\ BasicPublish(s, c, RetryFrame(c), "none", "nack")

\* The publish of send_to_retry_queue_with_headers and of
\* send_to_delay_exchange_with_headers.
SendRetry(s, c) ==
    /\ pc[s][c] = "publish"
    /\ BasicPublish(s, c, RetryFrame(c), "ack", "nack")

\* ack_delivery and nack_delivery: an error is logged and forgotten.
Settle(s, c, kind) ==
    /\ pc[s][c] = kind
    /\ outSettle' = IF chan[s] = "open" THEN [outSettle EXCEPT ![s][c] = kind] ELSE outSettle
    /\ Goto(s, c, "none")
    /\ UNCHANGED <<place, body, owner, chan, outPub, args, bound, calls>>

\* Mutant: the branch that acks does not return.
AckFallsThrough(s, c) ==
    /\ pc[s][c] = "ack"
    /\ outSettle' = IF chan[s] = "open" THEN [outSettle EXCEPT ![s][c] = "ack"] ELSE outSettle
    /\ Goto(s, c, "nack")
    /\ UNCHANGED <<place, body, owner, chan, outPub, args, bound, calls>>

AckDelivery(s, c) == Settle(s, c, "ack")
NackDelivery(s, c) == Settle(s, c, "nack")

-----------------------------------------------------------------------------
(* The broker's steps and the failures of the environment. *)

BrokerRecvPublish(s, c) == RecvPublish(s, c) /\ UNCHANGED <<pc, calls>>
BrokerRecvSettle(s, c) == RecvSettle(s, c) /\ UNCHANGED <<pc, calls>>
RetryDue(c) == ExpireRetry(c, DelayedExchange) /\ UNCHANGED <<pc, calls>>
DlqTtlPasses(c) == ExpireDlq(c) /\ UNCHANGED <<pc, calls>>

\* The connection is lost or closed.  The tasks of the session run on.
ConnectionLost(s) ==
    /\ "connection" \in Faults
    /\ chan[s] = "open"
    /\ Close({s})
    /\ UNCHANGED <<pc, calls>>

\* The process dies, and its tasks with it.
ProcessCrash(s) ==
    /\ "crash" \in Faults
    /\ chan[s] = "open"
    /\ Close({s})
    /\ pc' = [pc EXCEPT ![s] = [c \in Copy |-> "none"]]
    /\ UNCHANGED calls

BrokerRestarts ==
    /\ "restart" \in Faults
    /\ \E s \in Session : chan[s] = "open"
    /\ BrokerRestart
    /\ UNCHANGED <<pc, calls>>

-----------------------------------------------------------------------------
(* Vocabulary of the properties. *)

Handled(m) == \E call \in calls : call.msg = m /\ call.ok
FailedAt(m, k) == [msg |-> m, attempt |-> k, ok |-> FALSE] \in calls

\* A copy that is in the broker, or whose dead-lettered life ended by the TTL
\* the operator asked for.
Live(c) == place[c] \in {"ready", "unacked", "delayed", "dlq", "expired"}

\* The broker holds the message, in whatever queue.
Held(m) == \E c \in Copy : body[c] # None /\ body[c].msg = m /\ Live(c)

\* Messages the consumer may discard by design: it cannot decode them, or their
\* handler failed and there is no retry policy, hence no dead letter queue.
Rejectable(m) ==
    \/ m \in Malformed
    \/ ~HasRetry /\ \E call \in calls : call.msg = m /\ ~call.ok

\* The broker discarded a copy of the message when the consumer nacked it.
Discarded(m) == \E c \in Copy : body[c] # None /\ body[c].msg = m /\ place[c] = "dropped"

\* The broker waits for a settlement of copy c that no task is going to send: the
\* delivery keeps its slot of the prefetch window for as long as the channel is
\* open, and its message with it.
Forgotten(s, c) == owner[c] = s /\ pc[s][c] = "none" /\ outSettle[s][c] = None

\* Of the deliveries outstanding on a channel, one is on the way to its
\* settlement, or in a running task, or in the stream with a permit free for it.
WindowFree(s) ==
    Outstanding(s) # {} =>
        \E c \in Outstanding(s) :
            \/ outSettle[s][c] # None
            \/ c \in Running(s)
            \/ pc[s][c] = "buffered" /\ Cardinality(Running(s)) < Prefetch

\* What a message can still be processed from: copies to deliver or deliver
\* again, and publish frames that will become one.  A delivery that is only
\* waiting for its ack, or has its republication on the way, does not count.
WaitsForAck(c) ==
    \E s \in Session : pc[s][c] = "ack" \/ outSettle[s][c] # None \/ outPub[s][c] # None

CarryingCopies(m) ==
    {c \in Copy : /\ body[c] # None /\ body[c].msg = m
                  /\ \/ place[c] \in {"ready", "delayed", "dlq", "expired"}
                     \/ place[c] = "unacked" /\ ~WaitsForAck(c)}

CarryingFrames(m, out) ==
    {d \in Session \X Copy : /\ out[d[1]][d[2]] # None
                             /\ out[d[1]][d[2]].body.msg = m}

-----------------------------------------------------------------------------
(* What makes NoDuplicates of both consumers inductive. *)

Undisturbed == \A s \in Session : chan[s] # "closed"

\* Message m can still be processed from copy c, or from the frame on the
\* session's channel that was published for it.
Carries(c, m) ==
    /\ body[c] # None /\ body[c].msg = m
    /\ \/ place[c] \in {"ready", "delayed", "dlq", "expired"}
       \/ \E s \in Session :
             /\ owner[c] = s
             /\ outPub[s][c] # None \/ (pc[s][c] # "ack" /\ outSettle[s][c] = None)

\* A publish on the session's channel is followed by the ack.
AckFollows ==
    \A s \in Session, c \in Copy :
        outPub[s][c] # None => pc[s][c] = "ack" \/ outSettle[s][c] # None
=============================================================================
