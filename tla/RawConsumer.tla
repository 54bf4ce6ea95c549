----------------------------- MODULE RawConsumer -----------------------------
(***************************************************************************)
(* Consumer::consume() of src/consumer/raw.rs: the attempt travels in the  *)
(* x-retry-attempt header, retries are published with attempt + 1, and     *)
(* exhausted messages are dead-lettered on the delivery's own channel      *)
(* before the delivery is acked.                                           *)
(***************************************************************************)
EXTENDS Consumer

CONSTANTS
    DlqTtl         \* RetryConfig::dlq_ttl, NoTtl for none

ASSUME RawAssumption == DlqTtl \in Ttl \cup {NoTtl}

-----------------------------------------------------------------------------
Retries(attempt) == HasRetry /\ RetryDelay(attempt) # None
Exhausted(attempt) == HasRetry /\ RetryDelay(attempt) = None

\* Mutant: an exhausted message is rejected, as if the queue had a dead letter
\* exchange.
HandlerErrRejects(s, c) ==
    /\ HandlerReturns(s, c, FALSE)
    /\ Goto(s, c, IF Retries(Attempt(c)) THEN "declare" ELSE "nack")

\* Mutant: the branch without a delay forgets to settle.
HandlerErrUnsettled(s, c) ==
    /\ HandlerReturns(s, c, FALSE)
    /\ Goto(s, c, CASE Retries(Attempt(c)) -> "declare"
                    [] Exhausted(Attempt(c)) -> "none"
                    [] OTHER -> "nack")

\* The handler returned an error.
HandlerErr(s, c) ==
    /\ HandlerReturns(s, c, FALSE)
    /\ Goto(s, c, CASE Retries(Attempt(c)) -> "declare"
                    [] Exhausted(Attempt(c)) -> "declare_dlq"
                    [] OTHER -> "nack")

\* calculate_delay panics in a build with overflow checks: the handler has
\* returned an error, the task ends, and nothing settles the delivery.
CalculateDelayPanics(s, c) ==
    /\ HandlerReturns(s, c, FALSE)
    /\ Retries(Attempt(c)) /\ Attempt(c) \in Overflowing
    /\ Goto(s, c, "none")

\* create_dlq; the caller of send_to_dlq_simple logs its error and goes on to
\* ack.
CreateDlq(s, c) ==
    /\ pc[s][c] = "declare_dlq"
    /\ QueueDeclare(s, c, Dlq, DlqTtl, "publish_dlq", "ack")

\* Mutant: the dead letter has no delivery mode.
DlqFrameTransient(c) ==
    [to |-> Dlq, body |-> [msg |-> body[c].msg, attempt |-> None, persistent |-> FALSE]]

\* The dead letter carries no headers.
DlqFrame(c) ==
    [to |-> Dlq, body |-> [msg |-> body[c].msg, attempt |-> None, persistent |-> TRUE]]

\* Mutant: the delivery is not acked after it is dead-lettered.
SendToDlqOnly(s, c) ==
    /\ pc[s][c] = "publish_dlq"
    /\ BasicPublish(s, c, DlqFrame(c), "none", "ack")

SendToDlq(s, c) ==
    /\ pc[s][c] = "publish_dlq"
    /\ BasicPublish(s, c, DlqFrame(c), "ack", "ack")

-----------------------------------------------------------------------------
Init == ConsumerInit

TaskStep(s, c) ==
    \/ Dispatch(s, c)
    \/ HandlerOk(s, c)
    \/ HandlerErr(s, c)
    \/ CalculateDelayPanics(s, c)
    \/ CreateRetryQueue(s, c)
    \/ CreateDelayExchange(s, c)
    \/ SendRetry(s, c)
    \/ CreateDlq(s, c)
    \/ SendToDlq(s, c)
    \/ AckDelivery(s, c)
    \/ NackDelivery(s, c)

BrokerStep(s, c) ==
    \/ Deliver(s, c)
    \/ BrokerRecvPublish(s, c)
    \/ BrokerRecvSettle(s, c)

Fault ==
    \/ \E s \in Session : StartFails(s)
    \/ \E s \in Session : ConnectionLost(s)
    \/ \E s \in Session : ProcessCrash(s)
    \/ \E s \in Session, c \in Copy : HandlerPanics(s, c)
    \/ BrokerRestarts

Next ==
    \/ \E m \in Msg : Publish(m)
    \/ \E s \in Session : StartConsumerChannel(s)
    \/ \E s \in Session, c \in Copy : TaskStep(s, c) \/ BrokerStep(s, c)
    \/ \E c \in Copy : RetryDue(c) \/ DlqTtlPasses(c)
    \/ Fault

Spec == Init /\ [][Next]_vars

\* The runtime runs every task and the loop, handlers return, and the broker
\* works through its frames, timers and queues; nothing is said about starts,
\* faults, publishers or the TTL of the dead letter queue.
Fairness ==
    /\ \A s \in Session, c \in Copy :
          /\ WF_vars(TaskStep(s, c))
          /\ WF_vars(BrokerRecvPublish(s, c))
          /\ WF_vars(BrokerRecvSettle(s, c))
    /\ \A s \in Session : WF_vars(\E c \in Copy : Deliver(s, c))
    /\ \A c \in Copy : WF_vars(RetryDue(c))

FairSpec == Spec /\ Fairness

-----------------------------------------------------------------------------
(* Properties. *)

TypeOK == BrokerTypeOK /\ ConsumerTypeOK

\* A published message is never lost: its handler succeeded, or a copy of it is
\* in the broker, or the consumer rejected it by design, and the broker discarded
\* it for that and for nothing else.  It must survive any interleaving of acks
\* with connection losses, crashes and broker restarts, and every failing call of
\* the retry and dead letter paths, some of which end in an ack and some in a
\* discarding nack (raw.rs:128-204).
NoLoss ==
    \A m \in Msg : Published(m) =>
        Handled(m) \/ Held(m) \/ (Rejectable(m) /\ Discarded(m))

\* The task of copy c may have ended in the panic of calculate_delay.
Abandoned(c) ==
    /\ FailedAt(body[c].msg, Attempt(c))
    /\ Retries(Attempt(c)) /\ Attempt(c) \in Overflowing

\* No delivery is forgotten: every branch of the task that handles it, and every
\* failing call in between, ends in a settlement (raw.rs:41-205).  A handler that
\* panics settles nothing, and so does calculate_delay when it panics on the
\* overflow of retry.rs:213; nothing else is excused.
NeverForgotten ==
    "panic" \notin Faults =>
        \A s \in Session, c \in Copy : Forgotten(s, c) => Abandoned(c)

\* The prefetch window and the semaphore, which count the same deliveries by
\* different means, never block each other, unless a task panics.  With a prefetch
\* count of 0 there are no permits at all (raw.rs:28-41).
WindowMoves ==
    "panic" \notin Faults /\ Overflowing = {} /\ Prefetch > 0 =>
        \A s \in Session : WindowFree(s)

\* An ack or nack on an open channel names a delivery outstanding on it, and a
\* task that is about to settle has not settled before; anything else is a
\* channel exception that would requeue every other delivery of the session.
SettleOnce ==
    \A s \in Session, c \in Copy :
        chan[s] = "open" =>
            /\ outSettle[s][c] # None => owner[c] = s
            /\ outSettle[s][c] # None => pc[s][c] = "none"
            /\ pc[s][c] # "none" => owner[c] = s

\* Retries are earned: a copy that carries attempt k exists only after the
\* handler failed the message at every attempt before k, and a dead letter only
\* after it also failed at an attempt the policy does not retry.
EarnedRetries ==
    \A c \in Copy : body[c] # None =>
        /\ \A k \in 0..(Attempt(c) - 1) : FailedAt(body[c].msg, k)
        /\ place[c] \in {"dlq", "expired"} =>
              \E k \in 0..MaxRetries :
                  /\ Exhausted(k)
                  /\ \A j \in 0..k : FailedAt(body[c].msg, j)

\* Without a closed channel there are no duplicates: one carrier of a message at
\* most, and none once the handler has succeeded.
NoDuplicates ==
    (\A s \in Session : chan[s] # "closed") =>
        \A m \in Msg :
            Cardinality(CarryingCopies(m)) + Cardinality(CarryingFrames(m, outPub))
                <= (IF Handled(m) THEN 0 ELSE 1)

\* A copy leaves the broker unhandled only by design: a nack discards nothing
\* but messages that cannot be decoded or that have no retry policy.
DiscardsByDesign ==
    [][\A c \in Copy : place'[c] = "dropped" /\ place[c] # "dropped"
            => Rejectable(body[c].msg)]_vars

\* The outcome of a message has been reached.
Settled(m) ==
    \/ Handled(m)
    \/ \E c \in Copy : /\ body[c] # None /\ body[c].msg = m
                       /\ place[c] \in {"dlq", "expired", "dropped"}

\* While some session stays open, every message is handled, dead-lettered or
\* rejected in the end, whatever other sessions and crashes do to it.
EventuallySettled ==
    (\E s \in Session : <>[](chan[s] = "open"))
        => \A m \in Msg : Published(m) ~> Settled(m)

-----------------------------------------------------------------------------
(* The promise this consumer implements. *)

DeadLettered(m) == \E c \in Copy : /\ body[c] # None /\ body[c].msg = m
                                   /\ place[c] \in {"dlq", "expired"}
FailuresOf(m) == {k \in 0..MaxRetries : FailedAt(m, k)}

Promise == INSTANCE AtLeastOnce WITH
    Attempts     <- 0..MaxRetries,
    Final        <- [m \in Msg |-> {k \in 0..MaxRetries : ~Retries(k)}],
    Undecodable  <- Malformed,
    Fragile      <- {},
    OnExhaustion <- IF HasRetry THEN "dead_letter" ELSE "reject",
    accepted     <- {m \in Msg : Published(m)},
    held         <- {m \in Msg : Held(m)},
    handled      <- {m \in Msg : Handled(m)},
    failures     <- [m \in Msg |-> FailuresOf(m)],
    dead         <- {m \in Msg : DeadLettered(m)}

\* consume() keeps the promise of AtLeastOnce: over crashes, lost connections,
\* restarts and failing calls, each step changes the fate of one message at
\* most, its handler fails at consecutive attempts, a dead letter follows a
\* final failure, and nothing but a handled or undecodable message, or a failed
\* one without a retry policy, leaves the broker (raw.rs:86-204).
KeepsPromise == Promise!Spec

-----------------------------------------------------------------------------
(* The inductive invariant behind SettleOnce and, for the most part, NoLoss. *)

\* Who has a copy: a session with an open channel, exactly while it is unacked.
Ownership ==
    /\ \A c \in Copy : place[c] = "unused" <=> body[c] = None
    /\ \A c \in Copy : owner[c] # None <=> place[c] = "unacked"
    /\ \A s \in Session, c \in Copy : owner[c] = s => chan[s] = "open"

\* What a task has established when it reaches a step.
Tasks ==
    \A s \in Session, c \in Copy :
        /\ pc[s][c] # "none" => body[c] # None /\ chan[s] # "new"
        /\ pc[s][c] # "none" /\ chan[s] = "open" => owner[c] = s
        /\ pc[s][c] \in {"declare", "publish"} => Retries(Attempt(c))
        /\ pc[s][c] \in {"declare_dlq", "publish_dlq"} => HasRetry

\* Frames in flight belong to outstanding deliveries of open channels, and a
\* publish frame carries its delivery's message further.
Frames ==
    \A s \in Session, c \in Copy :
        /\ outPub[s][c] # None \/ outSettle[s][c] # None => owner[c] = s
        /\ outSettle[s][c] # None => pc[s][c] = "none"
        /\ outPub[s][c] # None =>
              /\ HasRetry
              /\ outPub[s][c].body.msg = body[c].msg
              /\ outPub[s][c].body.persistent
              /\ \/ outPub[s][c].to = Dlq
                 \/ ReadRetryAttempt(outPub[s][c].body) > Attempt(c)

\* Nothing the broker does by itself loses a copy: copies are persistent, and
\* the delay exchange has a route back.
Durability ==
    /\ \A c \in Copy : body[c] # None => body[c].persistent
    /\ HasRetry /\ DelayedExchange =>
          /\ \A s \in Session : chan[s] = "open" => bound
          /\ \A c \in Copy : place[c] = "delayed" => bound
    /\ \A c \in Copy : place[c] = "delayed" => HasRetry

\* A copy that carries what copy c carries, but further along.
Continues(d, c) ==
    /\ body[d] # None
    /\ body[d].msg = body[c].msg
    /\ \/ place[d] \in {"dlq", "expired"}
       \/ place[d] \in {"ready", "unacked", "delayed"} /\ Attempt(d) > Attempt(c)

\* The broker may forget copy c.
Covered(c) ==
    \/ Handled(body[c].msg)
    \/ Rejectable(body[c].msg)
    \/ \E d \in Copy : Continues(d, c)

\* A delivery is about to be acked only when it is covered, or will be once the
\* publish frame ahead of the ack arrives.
AcksCovered ==
    \A s \in Session, c \in Copy :
        chan[s] = "open" /\ (pc[s][c] = "ack" \/ outSettle[s][c] = "ack")
            => outPub[s][c] # None \/ Covered(c)

\* A delivery is about to be discarded only by design.
NacksDeserved ==
    \A s \in Session, c \in Copy :
        chan[s] = "open" /\ (pc[s][c] = "nack" \/ outSettle[s][c] = "nack")
            => Rejectable(body[c].msg)

\* A message without a copy in the broker is not needed there.
Accounted ==
    \A m \in Msg : Published(m) => Handled(m) \/ Held(m) \/ Rejectable(m)

IInv ==
    /\ TypeOK /\ Ownership /\ Tasks /\ Frames /\ Durability
    /\ AcksCovered /\ NacksDeserved /\ Accounted

-----------------------------------------------------------------------------
(* What makes NoLoss inductive, beside IInv: the messages that are rejected. *)

\* Neither a retry nor a dead letter is ever made of message m.
Unretried(m) == ~HasRetry \/ m \in Malformed

\* Such a message is acked only when it was handled, and stays in the queue or on
\* a channel, or is discarded.
Rejects ==
    /\ \A s \in Session, c \in Copy :
          /\ pc[s][c] \notin {"none", "buffered", "ack", "nack"} => body[c].msg \notin Malformed
          /\ chan[s] = "open" /\ (pc[s][c] = "ack" \/ outSettle[s][c] = "ack")
                /\ Unretried(body[c].msg)
                => Handled(body[c].msg)
    /\ \A c \in Copy :
          body[c] # None /\ Unretried(body[c].msg)
                => Handled(body[c].msg) \/ Live(c) \/ place[c] = "dropped"

-----------------------------------------------------------------------------
(* What makes EarnedRetries and KeepsPromise inductive, beside IInv. *)

\* The handler failed message m at every attempt before k, and the policy
\* retries each of them.
EarnedTo(m, k) == \A j \in 0..(k - 1) : FailedAt(m, j) /\ Retries(j)

\* It failed m at an attempt the policy does not retry, and at all before.
Spent(m) ==
    \E k \in 0..MaxRetries : Exhausted(k) /\ FailedAt(m, k) /\ EarnedTo(m, k)

\* What a task that has reached this step knows of its delivery.
TaskEarned(step, b) ==
    /\ step = "handling" => b.msg \notin Malformed
    /\ step \in {"declare", "publish"} => FailedAt(b.msg, ReadRetryAttempt(b))
    /\ step \in {"declare_dlq", "publish_dlq"} => Spent(b.msg)

\* What is true of a message instance in the broker or on its way there.
CopyEarned(b, dead) ==
    /\ EarnedTo(b.msg, ReadRetryAttempt(b))
    /\ dead => Spent(b.msg)

Earned ==
    /\ \A c \in Copy : body[c] # None => CopyEarned(body[c], place[c] \in {"dlq", "expired"})
    /\ \A s \in Session, c \in Copy : TaskEarned(pc[s][c], body[c])
    /\ \A s \in Session, c \in Copy :
          outPub[s][c] # None => CopyEarned(outPub[s][c].body, outPub[s][c].to = Dlq)
    /\ \A call \in calls : call.attempt <= MaxRetries

\* Handler calls have a message, and it is carried once at most, and not at all
\* once it was handled.
Single ==
    /\ \A call \in calls : Published(call.msg)
    /\ AckFollows
    /\ Undisturbed => \A m \in Msg :
          /\ \A c, d \in Copy : Carries(c, m) /\ Carries(d, m) => c = d
          /\ Handled(m) => \A c \in Copy : ~Carries(c, m)
=============================================================================
