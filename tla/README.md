# A verification project for rust-rabbit

TLA+ models of `rust-rabbit` (a retrying RabbitMQ client in Rust), checked with
TLC on small instances, and TLAPS proofs about most of them. The models are
written from `src/src`; where a document of the repository says something the
code does not do, a run shows the difference ([Disagreements](#disagreements)).

## The system

| Component | State | Operations | Modelled in |
| --- | --- | --- | --- |
| Raw consumer (`consumer/raw.rs`) | one channel, a semaphore, a task per delivery; the attempt is the `x-retry-attempt` header | deliver, decode, handle, retry, dead-letter, ack, nack | `RawConsumer` |
| Envelope consumer (`consumer/envelope.rs`) | the same; the attempt and a retry limit are in the payload; a channel per dead letter | the same, `send_to_dlq` | `EnvelopeConsumer` |
| Topology (`consumer/topology.rs`) | queues, their arguments, one binding | declare, bind, publish | `Consumer`, `Broker` |
| Retry policy (`retry.rs`) | mechanism, `max_retries` | `calculate_delay` | `RetryPolicy` |
| Connection (`connection.rs`) | `RwLock<Option<lapin::Connection>>`, `reconnect_lock` | `create_channel`, `reconnect`, `close` | `Connection` |
| Envelope data (`message.rs`) | `retry_attempt`, `max_retries` | `with_error`, `is_retry_exhausted`, decoding | `EnvelopeConsumer`, `PayloadFormat` |
| MassTransit format (`message.rs`) | none | wrap, detect, extract | `PayloadFormat` |
| Publisher (`publisher/`) | a shared connection, a channel per call | publish to a queue or an exchange, in three formats | `Publisher` |
| Builder (`consumer/mod.rs`) | the settings of a consumer | build | its result: `Config` of `Publisher` and the constants of the consumers |
| Errors, library root | none | | not modelled: no behaviour of their own |
| Broker, lapin | messages, channels, queues | | `Broker`, and the broker's steps of `Publisher` (external) |

How they interact. A consumer asks the shared `Connection` for a channel, sets
the prefetch count, declares its queue and, with the delayed-exchange strategy,
the delay exchange and its binding. Its loop takes a semaphore permit per
delivery and spawns a task, which calls the user's handler. On an error the task
publishes a copy with a larger attempt to a TTL queue or to the delay exchange,
or a dead letter, and then acks the delivery. All tasks of a session share one
channel, so a channel exception of one is the problem of all. Nothing else is
shared; there is no persistence in the client. What survives a crash is what the
broker holds.

What is hard: an ack is separated from the publish that justifies it by awaits,
during which the channel, the process or the broker may go; errors on these
paths are logged and followed by an ack; deliveries are repeated after every
loss; the callers of one `Connection` race for its locks.

What makes each component correct:

* consumers: no published message is lost, each delivery is settled, and once, a
  retry or dead letter was earned by failures, nothing is duplicated without a
  channel loss, everything comes to rest;
* retry policy: the schedule is the documented one, to its end;
* publisher: what a call declared stays, an `Ok` can account for its message, an
  error is the call's own, and the consumer it is meant for reads what was written;
* connection: one replacement per loss, errors only for a reason, no deadlock.

`PROJECT.json` lists the hazards at their lines, each with the properties that
would catch it going wrong.

## The modules

```
Broker ── Consumer ──┬── RawConsumer ──┬── MCRaw
                     │        :        └── RawConsumerProofs ── RawPromiseProofs
                     │   AtLeastOnce ── AtLeastOnceProofs
                     │        :
                     └── EnvelopeConsumer ──┬── MCEnvelope
                                            └── EnvelopeConsumerProofs ── EnvelopePromiseProofs

PayloadFormat ── Publisher ──┬── MCPublisher        Connection ── ConnectionProofs
                             └── PublisherProofs    RetryPolicy ── RetryPolicyProofs
```

Lines are `EXTENDS`; the dotted ones are refinements: both consumers instantiate
`AtLeastOnce` and implement it.

`Broker` is the part outside the repository. A *copy* is one message instance:
publishing makes one, settling ends one. `place` says where it is, `body` what
it carries, `owner` which session it is unacked in. A *session* is one call of
`consume()`; its channel is `new`, `open` or `closed`. A publish, ack or nack is
a frame (`outPub`, `outSettle`) that the broker acts on later, or never when the
channel closes first. `args` are the `x-message-ttl`s queues were declared with,
`bound` is the delay exchange's binding.

`Consumer` holds what both consumers share. `pc[s][c]` is the await that the task
of copy `c` in session `s` has reached: `buffered` (delivered and not yet taken
by the loop, which is waiting for a permit), `handling`, `declare` and `publish`
(retry), `open_dlq`, `declare_dlq` and `publish_dlq` (dead letter), `ack` and
`nack`. `calls` records the handler calls that returned.

| Action | Code |
| --- | --- |
| `StartConsumerChannel`, `StartFails` | `start_consumer_channel`, `setup_infrastructure` |
| `Deliver`, `Dispatch` | the loop, raw.rs:31-38 and the decoding, 46-89 |
| `HandlerOk`, `HandlerErr`, `HandlerPanics` | raw.rs:95-205, envelope.rs:59-220 |
| `CalculateDelayPanics` | retry.rs:213, called at raw.rs:109 and envelope.rs:91 |
| `RetrySerializeFails` | envelope.rs:158-170 |
| `CreateRetryQueue`, `CreateDelayExchange`, `SendRetry` | topology.rs:11-47, 76-135, 161-262 |
| `CreateDlq`, `SendToDlq` | topology.rs:49-74, 137-159 (raw consumer) |
| `OpenDlqChannel`, `DeclareDlq`, `PublishDlq`, `DlqPayloadPanics`, `DlqCallFails` | `send_to_dlq`, envelope.rs:242-300 |
| `AckDelivery`, `NackDelivery` | mod.rs:176-198 |
| `Publish`, `ConnectionLost`, `ProcessCrash`, `BrokerRestarts` | publishers, the environment |

`QueueDeclare` is a call with an answer and one step with the broker's part: it
succeeds, or the arguments differ and the exception closes the session's
channel, or the channel is closed already.

`RawConsumer` and `EnvelopeConsumer` add the decision after a handler error and
the dead letter path. The envelope consumer's second channel is `outDlq`: frames
on it are lost with the connection but not with the session's channel, and are
not ordered with the ack.

`AtLeastOnce` is what a consumer promises, without broker, channels and tasks: a
message that was accepted is held until it is handled or may be released, its
handler fails at attempts 0, 1, ... in turn and never beyond a final one, and
only a final failure makes a dead letter. `OnExhaustion` is what becomes of a
message after its final failure, and where the consumers differ: `dead_letter`
(raw), `best_effort` (envelopes, whose dead letter may get lost) or `reject`
(no retry policy). `Fragile` messages may also go after a failure that was not
final: envelopes whose payload may fail to serialize for the retry. The refinement mapping `Promise` reads `accepted`, `held`,
`handled` and `dead` off the copies and `failures` off `calls`. A step of the
detailed models is one step of the promise or none; the publish of a retry, its
arrival, the ack and a redelivery are all invisible.

`Publisher` has two kinds of actors, publish calls and consumers that start, with
`pc` the await each has reached and `open` the channels. Queues, exchanges and
bindings are the broker's; `stored`, `wire`, `lost`, `dropped` and `taken` say
where a call's message is. `TakeMessage` stands for everything the consumer
modules detail about a delivery. What is on the wire is in `PayloadFormat`: JSON
values with the fields that decide how they are read, `Serialize` for all five
calls of the API and both options, and `Consume` and `ConsumeEnvelope` for the
decoding at the top of the two loops.

| Action | Code |
| --- | --- |
| `StartCall`, `StartConsumer` | core.rs:113-152, mod.rs:151-155, up to the channel |
| `DeclareQueue`, `DeclareExchange` | core.rs:124-164 |
| `SerializeFails`, `PublishSerialized` | core.rs:48-111, 166-197 |
| `DeclareConsumerQueue`, `BindQueue`, `BasicConsume` | topology.rs:264-315, mod.rs:151-174 |
| `StartAgain`, `TakeMessage` | the application, the consumer loops |
| `RecvPublish`, `ConnectionLost`, `BrokerRestarts` | the broker, the environment |

`Connection` has one variable per lock and queue: `rwQueue`, `guards`, `writer`
for the fair `RwLock`, `lockQueue` for the mutex. `is_connected` takes and drops
its guard without an await, so its step is the grant; `create_channel` keeps a
read guard and `close` the write guard over lapin's answer.

`RetryPolicy` walks one always failing message through `calculate_delay`, with
the product of the backoff in `Width` bits.

Definitions with a comment that starts with *Mutant* are not part of the model:
each is a plausible mistake in the definition that follows it, kept to show
which property notices the mistake.

### Abstractions

* Message contents are the message's identity, its attempt and its delivery
  mode. Whether a payload decodes is a constant (`Malformed`). Header tables,
  correlation ids and the error history are carried along by the code and read
  by nothing that decides.
* Payloads are the application's types, and their `Serialize` may fail although
  it succeeded before. `Unserializable` are the messages this may happen to, each
  time or not: a failing step stands beside the succeeding one. Where the code
  handles it (the retry, envelope.rs:158-170) the delivery is nacked, where it
  does not (`json!` in `send_to_dlq`, envelope.rs:270) the task panics. The
  `to_vec` that follows, envelope.rs:276, is given a `serde_json::Value` and
  cannot fail; nor can the header table of the raw consumer.
* `Overflowing` are the attempts at which the backoff overflows before it is
  capped, not the first, where the product is the base itself. Both builds are
  covered: the task panics, or goes on with a wrapped delay, which is one of `Ttl`.
* The delays of a policy are whole milliseconds below 2^64, where the conversion
  `as_millis() as u64` of retry.rs:213 is exact. A `Duration` below a millisecond
  would be cut off there, one of more than half a billion years truncated.
* Frames of one delivery are ordered; frames of different deliveries are not.
  On one channel they are ordered in reality: the model allows more.
* The main queue is a set: any ready copy may be delivered next.
* A connection loss ends the session's channel and requeues at once; tasks run
  on and find the channel closed. A half-open connection, where the client
  notices later than the broker, shows in the model as a frame that was written
  and never received.
* `StartConsumerChannel` is one step: its calls have no effect on messages
  besides the binding, and a failure in between is `StartFails`.
* Queues are durable and a broker that has received a persistent message keeps
  it. Publisher confirms are not used by the code, and a broker that crashes
  between receiving a message and writing it to disk is not modelled.
* `manual_ack()` makes both `consume` calls return an error at once
  (mod.rs:124-132), so the models have automatic acks only.
* In `Publisher` a consumer takes a message for good: redelivery and settlement
  are the consumer modules' subject. Every actor is on one of two connections;
  properties of calls mention the connection only as the reason for an error.
* Priority, expiration, addresses, message ids and headers of published messages
  are left out. `mandatory` has no effect on the caller, as nothing listens for
  returned messages; `immediate` is refused by brokers since RabbitMQ 3.
* The consumer being cancelled by the broker (its queue is deleted) is not
  modelled.

## Runs

| Run | Instance | Shows |
| --- | --- | --- |
| `raw_window` | 2 messages, one of them undecodable, 2 sessions, prefetch 2, 1 retry of a policy of 2 (a short delay list), all faults | interleaved settlement of two deliveries on one channel; retries, dead letters and rejections under all faults; `AtLeastOnce` |
| `raw_topology` | 1 message, 2 sessions, 2 retries, the second one's delay overflows, any earlier queue arguments, DLQ TTL | refused declarations leave no delivery unsettled, and only an overflow may; messages with and without the attempt header; `AtLeastOnce` |
| `raw_live` | 1 message, 2 sessions, 1 retry, prefetch 2, delay exchange, conflicting DLQ, fair | the binding, over crashes and restarts; everything comes to rest |
| `envelope_faults` | 1 envelope that may fail to serialize, limit 1 of a policy of 2, 2 sessions, prefetch 2, all faults, conflicting queues | envelopes are kept until their last failure or a retry that could not be written; `AtLeastOnce` with a best-effort dead letter |
| `envelope_window` | 3 messages: envelopes with limits 2 and 0, the first may fail to serialize, one undecodable; delay exchange, second delay overflows, failing dead letter channel | per-envelope limits; the second channel duplicates nothing; every delivery ends in a settlement or one of two panics |
| `connection` | 3 tasks, 3 connections | one replacement per loss, the two locks never wait for each other, calls return |
| `publisher` | 2 calls, a raw and an envelope consumer on one topic exchange, 5 kinds of request, lost connections, broker restarts, conflicting queues and exchanges | declarations stay, every message is accounted for, every error explained, every format read back |
| `policy_schedule` | 5-bit words, up to 6 retries, all configurations over 4 delays, checked build | the documented schedule to its end, or a panic under exactly the policies whose products do not fit |

Consumers without a retry policy have no run of their own: the theorems about
both consumers cover them.

`NoLoss` and `KeptUntilExhausted` ask for a witness: a message that is neither
handled nor held was discarded by a nack that the code means for it (undecodable,
or failed without a policy), or, with envelopes, failed for the last time or
failed and could not be serialized for its retry. That
some message *may* be rejected excuses no copy that got lost some other way.

`NeverForgotten` is about the branches of a task that settle nothing. They are
panics: the handler's (the premise of the property), that of `calculate_delay`,
which only a build with overflow checks has, and with envelopes that of `json!`.
The last two are excused for a delivery whose attempt has failed and leads to
that very call (`Abandoned`), and for no other.

`NoDuplicates` speaks of the time before the first channel is closed, and of
nothing after it: a crash or a lost connection duplicates messages by design.
What must hold then is `NoLoss`, `SettleOnce` and the promise.

Bounds. `Copy` bounds how many message instances exist in a behaviour: 5 or 6 let a
message go through all its attempts and still be duplicated by crashes; when
there is no copy left, a publish waits (`HasFresh`), which hides only later
duplicates. `Session` bounds how often `consume()` is called: two sessions give
a live and a dead consumer at the same time.
`MaxRetries` 2 has a first, a middle and a last attempt. `Ttl` has two values,
enough for equal and different queue arguments. 3 connections for 3 tasks leave an
unused id whenever one is needed, since an id nobody refers to is reused. In
`Publisher`, two calls meet on one queue, on one exchange and on one connection,
and a third would only repeat one of them; the proofs are for any number. In
`RetryPolicy`, `Width` 5 makes products and powers overflow within `Limit`, as
64 bits do within 64 attempts. Deadlock is checked for `Connection`, by TLC and as
`NoDeadlock`, which also excludes that some tasks block each other while others go
on; the consumers and the policy may stop (all messages settled, all sessions
ended).

Fairness. `RawConsumer!FairSpec`: the runtime runs every task and the loop,
handlers return, the broker reads its sockets, delivers ready messages to an open
consumer, and its timers fire. Nothing is assumed of publishers, faults or new
`consume()` calls. `EventuallySettled` assumes that one session stays open, as
the code does not start a consumer again. Handler panics are excluded there: a
panicked task leaves its delivery unacked as long as the channel lives, and with
it a slot of the window. `Connection!Spec` is fair to each task's steps: tokio
schedules tasks, its locks are fair, `connect` has a timeout, and lapin is
assumed to answer `create_channel` and `close`. Nothing in the code bounds the
latter two.

### Disagreements

| Run | Document | Code |
| --- | --- | --- |
| `envelope_dlq_refused` | README.md:62 "exhausted messages go to DLQ" | `send_to_dlq` swallows every error and the envelope is acked (envelope.rs:194-208, 264-267); the dead letter queue that `create_dlq` makes with a `dlq_ttl` refuses the envelope consumer's declaration. The same property fails when the broker restarts: envelope.rs:283 publishes the dead letter without a delivery mode, although CHANGELOG.md:126 says "Persistent messages by default" |
| `envelope_new_limit` | message.rs:306 "Will be set by retry config" | nothing sets it: the first failure dead-letters |
| `publisher_format` | README.md:63 "works with raw payloads and detects MassTransit envelopes automatically" | `MassTransitEnvelope` requires nothing but a field `message` (message.rs:32-66), so a plain payload that has one is taken for an envelope and nacked when its `message` is not the payload (raw.rs:53-68); the notifications of examples/production_setup.rs are |
| `policy_overflow` | retry.rs:60 "base_delay * 2^attempt, capped at max_delay" | the product wraps before it is capped, retry.rs:213 |

## Proofs

The theorems hold for all values of the constants that satisfy the named
assumptions of the modules: any number of messages, copies, sessions, retries,
tasks, calls and connections, any delay table and per-envelope limits, both
delay strategies, any faults and any earlier queue arguments. Each proof module
has one `Invariance` theorem or lemma about an inductive `IInv`, which stands at
the end of the module it is about and was first checked with TLC; one lemma per
action says that the action preserves it.

| Module | Theorems |
| --- | --- |
| `RawConsumerProofs` | `TypeCorrect`, `NothingLost` (`NoLoss`), `SettledOnce`, `DiscardsOnlyByDesign`, `NeverDuplicated` (`NoDuplicates`), `AllDeliveriesEnd` (`NeverForgotten`), `WindowNeverBlocks` |
| `RawPromiseProofs` | `RetriesEarned`, `PromiseKept`: the raw consumer implements `AtLeastOnce` |
| `EnvelopeConsumerProofs` | `TypeCorrect`, `LostOnlyWhenExhausted` (`KeptUntilExhausted`), `RetriesEarned`, `WithinLimits` (`AttemptLimit`), `SettledOnce`, `NeverDuplicated`, `AllDeliveriesEnd`, `WindowNeverBlocks` |
| `EnvelopePromiseProofs` | `PromiseKept`: the envelope consumer implements `AtLeastOnce`, dead letters excepted |
| `AtLeastOnceProofs` | `PromiseMeansKept`, `PromiseMeansTurns`, `PromiseMeansDeserved`: what the promise amounts to |
| `PublisherProofs` | `TypeCorrect`, `DirectAlwaysRouted`, `StaysDeclared`, `OkIsAccountedFor`, `ErrorsAreOwn`, `StartedIsRouted`, `ReadBack` |
| `ConnectionProofs` | `TypeCorrect`, `ErrorsComeFromClose`, `GuardsPin`, `ReplacesOnlyLost`, `LocksNeverDeadlock` (`NoDeadlock`) |
| `RetryPolicyProofs` | `TypeCorrect`, `ScheduleIsFull` (`FullSchedule`), `ScheduleAsDocumented` (`DocumentedSchedule`), `PanicsExactlyOnOverflow` (`PanicsOnOverflow`) |

**Raw consumer.** `NoLoss` is not inductive: an ack that arrives ends a copy,
and whether the message survives depends on what the task did before. `IInv`
records that: `AcksCovered` says that a delivery whose ack is due or in flight
has its publish frame ahead of it or is `Covered` (handled, rejectable, or
continued by another copy). A copy that continues another is in the dead letter
queue or has a larger attempt: this order is what makes the argument go through
when several copies of a message are acked in turn, since two copies cannot
cover each other. `Ownership`, `Tasks` and `Frames` tie tasks and frames to
outstanding deliveries, so that an ack can only end the copy it was meant for;
`Durability` says that restarts and the delay exchange lose nothing;
`NacksDeserved` is the counterpart of `AcksCovered` for discarding. A message with
no copy left in the broker is only known to be handled or rejectable by these
(`Accounted`); that a rejectable one was in fact rejected, with a nack the broker
acted on, is a layer of its own, `Rejects`: of a message that is never retried
each copy ends with a success or a discarding nack.
The panic of `calculate_delay` is one more way for a task to end and changes none
of this: it leaves its copy unacked.

`EarnedRetries` needs more: not only what a copy carries must be earned, but what
a task is about to publish and what is in a frame, and every failure on the way
must be one the policy retries (`EarnedTo`, `Spent`). This is `Earned`, proved in
`RawPromiseProofs` on top of `IInv`. Together they give the refinement: that a
failure comes at the next attempt, which `AtLeastOnce` demands of `Fail`, is
`Earned`, that only released messages lose their last copy is `NoLoss`.

**Envelope consumer.** Its `IInv` is stated per item: `CopyOK` for a copy,
`TaskOK` and `FrameOK` for a task and the frames of its delivery, so that an
action needs an argument for the one it changes only. Dead letters are exactly
the bodies without a delivery mode. This is what separates the envelopes that
may get lost from those that may not: `Kept` counts the copies that are ready,
unacked or delayed, all of them persistent, and the theorem says that a broker
restart, which drops what is not persistent, takes dead letters only.
`AcksCovered` is about acks only. A nack needs another justification: it may
discard an envelope with retries left, of which nothing else is left. It has
`MayReject` (undecodable, no policy, or a failed serialization after a failure of the
handler), which goes with it from the task to the frame to the discarded copy. `Done`
are the reasons for forgetting an envelope: it was handled, a nack has discarded
it, or its failure was final, after which the ack does not wait for the dead
letter. `LostOnlyWhenExhausted` reads off these: no copy left, not handled and
not finally failed means discarded, and what is discarded could be rejected. `AttemptLimit` is part of the
invariant, since a retry is earned only within the envelope's limit.

**No duplicates.** Both consumers, on top of `IInv`: `Single` says that while no
channel has closed, one copy at most carries a message (`Carries`), itself or by
the publish frame written for its delivery, and none does once the handler has
succeeded. Each step hands the message from one carrier to the next: from the
delivery to its frame, which the ack follows (`AckFollows`), and from the frame to
the new copy. With envelopes the dead letter frame is a third kind of carrier;
its channel is not ordered with the ack, and need not be, since the delivery
stops carrying when the frame is written. `CarriersCounted` turns this into the
cardinalities of `NoDuplicates`.

**No delivery is forgotten.** For each session and copy, on top of `IInv`: a copy
the session owns has a task or a settlement in flight. A task ends only in the
step that writes the settlement, or when its channel is closed, and then the
copy has no owner any more. The panics of `calculate_delay` and `json!` are the
exceptions, and the state shows that the task could reach them: the handler
failed at the attempt of the copy, which is retried at an overflowing attempt, or
exhausted with a payload that may not serialize. That stays true as long as the
delivery is outstanding. Without such attempts and payloads
`WindowNeverBlocks` follows by counting: if no
outstanding delivery is settling or in a running task, all of them wait in the
stream, and the semaphore has all its permits.

**What the promise gives.** `AtLeastOnce` is an abstract machine, and its
consequences are proved of it once and hold of both consumers by refinement: what
was accepted is held or may be released, failures come at attempts 0, 1, ... without
a gap and at none after a final one, and a dead letter has failed finally, once.

**Publisher.** `Calls`: a call at its publish has declared its target, and its
channel is open unless its connection is broken. `Services`: a consumer that is
about to read its queue is bound. `Durable`: every exchange was declared durable,
so a restart undoes nothing. `StartedIsRouted` is a property of steps and follows
from `Services`; `ReadBack` needs that only what was received is taken, and that
reading undoes writing for each pair of API call and entry point.

**Connection.** `Exclusive`: `reconnect_lock` belongs to the head of its queue,
and while a caller of `create_channel` connects under it nobody else brings
a connection up, so that the caller replaces a lost one only. `Separate`: a
connection is stored or in the hands of one task, so that nobody closes the one
that another is opening a channel on. The types include that each waiting task
is in its queue once and nobody else is. Deadlock freedom needs who the holders of
a guard are (`Holders`): tasks that wait for lapin, and nobody else. So a
caller first in line for the `RwLock` waits for one of those at most, whatever it
holds itself, and the head of `reconnect_lock` goes on, or waits in the queue of the
`RwLock`, never for another caller of the lock. The order of the two locks, which no
comment of the code states, is this: `reconnect_lock` comes before a guard, and
nobody who holds a guard waits for a lock.

**Retry policy.** For each mechanism, any width and both kinds of build, delays
stay within the word, wrapped products included, and a message is given up after
`max_retries` retries or at the end of a custom list, never before.
`ScheduleAsDocumented` has a premise that the code needs: the build checks
overflow, or the products of the policy fit. `policy_overflow` is what happens
otherwise. Both theorems about overflow rest on powers of two being positive and
growing, which is induction; powers are the recursive function `Pow2`, and the
induction is done on the set of numbers that lack the property, which has a least
element if it has any. The invariant `History` says that every delay given so
far is what `calculate_delay` returned for its attempt (`Given`), and that in a
build with overflow checks no product before it overflowed (`Unharmed`).

Every invariant and action property of the passing runs is proved. Only
model-checked are:

* `EventuallySettled` and `CallsReturn`: liveness under fairness, out of reach of
  the prover. `WindowNeverBlocks` and `LocksNeverDeadlock` are their safety part;
* the properties of the runs that expect a violation;
* that the code's products are those of 64-bit words: `Width` is a constant, and
  the theorems hold for each of its values.

## Plan

Done: the consumers, the connection and the policy with their safety properties
and the proofs about them; the abstract specification and both refinements,
checked and proved; the publisher with the payload formats and the consumers it
publishes to.

Left, in this order:

1. `Connection` composed with running consumers: `reconnect()` and `close()` end
   their channels, which the consumer modules take for a lost connection.
2. Several consumers of one policy: `with_dead_letter` gives them the same
   exchange, and consumers of both kinds on one queue read each other's retries.
3. An abstract specification of `Connection` (one live connection, or none, that
   its callers share) and a proof that the locks implement it.

## Not modelled

* The builder's steps: it is sequential data, and its result is a constant of
  the models (`Config`, `Prefetch`, `HasRetry`, `EnvMax`, ...).
* Errors, prelude and library root: no behaviour. `is_retryable` is called by
  nothing in the library.
* The other examples and the tests, which are read as documents. Of
  `examples/production_setup.rs` the consumers and publishers are an instance of
  `Publisher`; its timers, statistics and shutdown are the application's.
* A `create_channel` that never returns on a half-open connection: it keeps the
  read guard and with it every `reconnect` and `close`. Nothing in the code bounds
  it, and `CallsReturn` assumes that it does not happen.
* A prefetch count of 0, which means "no limit" to the broker and "no permit" to
  the semaphore. The models allow it, no document says what should happen.
* Envelopes published with the MassTransit option: no entry point reads them,
  `Consumable` excludes them.
* The error history, headers, priorities and expiration of messages: carried
  along, and read by nothing that decides.
