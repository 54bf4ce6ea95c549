------------------------------ MODULE Publisher ------------------------------
(***************************************************************************)
(* Publishing (src/publisher) beside consumers that start (start_consumer_ *)
(* channel and setup_infrastructure of src/consumer): each call of the     *)
(* publisher's API opens a channel of its own, declares its queue or its   *)
(* topic exchange, serializes the message and publishes it, and a consumer *)
(* declares its queue and binds it to an exchange that somebody else must  *)
(* have declared.  Calls and consumers are actors; each is a task on some  *)
(* connection, and every await that talks to the broker is a step.         *)
(*                                                                         *)
(* As in Broker, basic_publish returns when its frame is written and the   *)
(* broker routes the frame later, or never when the connection is lost.    *)
(* What happens to a delivery after it is decoded is in the consumers'     *)
(* modules; here a consumer takes a message and its handler gets a value,  *)
(* or nothing when the delivery is nacked.                                 *)
(***************************************************************************)
EXTENDS PayloadFormat

CONSTANTS
    Call,         \* publish calls
    Service,      \* consumers, each with a queue, a payload type, ...
    Config,       \* ... and the other settings of its ConsumerBuilder
    Request,      \* what the calls may be asked to publish
    Queue, Exchange,
    Connection,   \* Connection objects
    ConnectionOf, \* the one each actor uses
    Existing,     \* what the queues may have been declared with before
    ExistingKind, \* what the exchanges may have been declared as before
    Unserializable, \* payload types that do not serialize
    Faults        \* the faults the environment may inject

Actor == Call \cup Service
Undeclared == "undeclared"
Taken == [call : Call, service : Service]

ASSUME PublisherAssumption ==
    /\ Call \cap Service = {}
    /\ None \notin Queue \cup Exchange \cup Request
    /\ \A r \in Request : /\ r.exchange \in Exchange \cup {None}
                          /\ r.queue \in Queue \cup {None}
                          /\ (r.queue = None) # (r.exchange = None)
                          /\ r.api \in Api /\ r.type \in Type
    /\ \A s \in Service : /\ Config[s].queue \in Queue
                          /\ Config[s].exchange \in Exchange \cup {None}
    /\ ConnectionOf \in [Actor -> Connection]
    /\ Existing \subseteq {Undeclared, "durable", "ttl"}
    /\ ExistingKind \subseteq {Undeclared, "topic", "direct"}
    /\ Unserializable \subseteq Type
    /\ Faults \subseteq {"connection", "restart"}

VARIABLES
    pc,         \* the step each actor has reached
    req,        \* what each call publishes
    open,       \* the actors whose channel is open
    wire,       \* calls whose publish frame the broker has not received
    queues,     \* what each queue is declared with
    exchanges,  \* what each exchange is declared as
    bindings,   \* the consumers whose queue is bound to their exchange
    stored,     \* the messages in each queue, by the call that published them
    taken,      \* what the consumers got: which message, and the handler's value
    dropped,    \* messages the broker could not route
    lost,       \* frames that were lost with their connection
    started,    \* consumers whose start has succeeded at some time
    broken      \* connections that have been lost at some time

vars == <<pc, req, open, wire, queues, exchanges, bindings, stored, taken,
          dropped, lost, started, broken>>
history == <<dropped, lost, started, broken>>
topology == <<queues, exchanges, bindings>>

TypeOK ==
    /\ pc \in [Actor -> {"idle", "declare", "bind", "publish", "consume",
                         "consuming", "ok", "err"}]
    /\ req \in [Call -> Request \cup {None}]
    /\ open \subseteq Actor
    /\ wire \subseteq Call /\ dropped \subseteq Call /\ lost \subseteq Call
    /\ queues \in [Queue -> {Undeclared, "durable", "ttl"}]
    /\ exchanges \in [Exchange -> {Undeclared, "topic", "direct", "transient"}]
    /\ bindings \subseteq Service /\ started \subseteq Service
    /\ stored \in [Queue -> SUBSET Call]
    /\ {[call |-> t.call, service |-> t.service] : t \in taken} \subseteq Taken
    /\ broken \subseteq Connection

Init ==
    /\ pc = [a \in Actor |-> "idle"]
    /\ req = [c \in Call |-> None]
    /\ open = {}
    /\ wire = {}
    /\ queues \in [Queue -> Existing]
    /\ exchanges \in [Exchange -> ExistingKind]
    /\ bindings = {}
    /\ stored = [q \in Queue |-> {}]
    /\ taken = {}
    /\ dropped = {} /\ lost = {} /\ started = {} /\ broken = {}

Goto(a, step) == pc' = [pc EXCEPT ![a] = step]

\* The call or the start returns an error, or consume() ends; its channel goes
\* with it.
Fail(a) ==
    /\ Goto(a, "err")
    /\ open' = open \ {a}

-----------------------------------------------------------------------------
(* Channels and declarations, for calls and consumers alike. *)

\* Connection::create_channel: it reconnects a lost connection, or fails.
CreateChannel(a) ==
    \/ /\ Goto(a, "declare")
       /\ open' = open \cup {a}
    \/ /\ ConnectionOf[a] \in broken
       /\ Fail(a)

\* A call of a's channel that the channel's end makes fail.
OnClosedChannel(a) ==
    /\ pc[a] \in {"declare", "bind", "publish", "consume", "consuming"}
    /\ a \notin open
    /\ Fail(a)
    /\ UNCHANGED <<req, wire, topology, stored, taken, history>>

\* queue_declare with durable and no arguments.
QueueDeclared(q) == queues' = [queues EXCEPT ![q] = "durable"]
QueueAccepts(q) == queues[q] \in {Undeclared, "durable"}

\* Mutants: the exchange is declared without durable or as a fanout exchange,
\* and messages are published without a delivery mode.
TransientExchange == "transient"
FanoutExchange == "fanout"
TransientMessage == 1

\* exchange_declare with durable; an exchange of another kind refuses.
DeclaredExchange == "topic"
ExchangeAccepts(x) == exchanges[x] \in {Undeclared, DeclaredExchange}

\* build_properties.
DeliveryMode == 2

-----------------------------------------------------------------------------
(* publish_to_queue, publish_to_exchange and the calls built on them. *)

StartCall(c, r) ==
    /\ pc[c] = "idle"
    /\ req' = [req EXCEPT ![c] = r]
    /\ CreateChannel(c)
    /\ UNCHANGED <<wire, topology, stored, taken, history>>

\* Mutant: the queue is not declared.
DeclareNothing(c) ==
    /\ pc[c] = "declare"
    /\ c \in open
    /\ c \in Call
    /\ req[c].queue # None
    /\ Goto(c, "publish")
    /\ UNCHANGED <<req, open, wire, topology, stored, taken, history>>

\* Mutant: publishing shares one channel per connection, so a refused
\* declaration closes it for all calls.
DeclareOnSharedChannel(c) ==
    /\ pc[c] = "declare"
    /\ c \in open
    /\ c \in Call
    /\ req[c].queue # None
    /\ IF QueueAccepts(req[c].queue)
       THEN /\ QueueDeclared(req[c].queue)
            /\ Goto(c, "publish")
            /\ UNCHANGED open
       ELSE /\ Goto(c, "err")
            /\ open' = {a \in open : ConnectionOf[a] # ConnectionOf[c]}
            /\ UNCHANGED queues
    /\ UNCHANGED <<req, wire, exchanges, bindings, stored, taken, history>>

\* queue_declare of publish_to_queue; a queue with other arguments refuses.
DeclareQueue(c) ==
    /\ pc[c] = "declare"
    /\ c \in open
    /\ c \in Call
    /\ req[c].queue # None
    /\ IF QueueAccepts(req[c].queue)
       THEN /\ QueueDeclared(req[c].queue)
            /\ Goto(c, "publish")
            /\ UNCHANGED open
       ELSE /\ Fail(c)
            /\ UNCHANGED queues
    /\ UNCHANGED <<req, wire, exchanges, bindings, stored, taken, history>>

\* exchange_declare of publish_to_exchange.
DeclareExchange(c) ==
    /\ pc[c] = "declare"
    /\ c \in open
    /\ c \in Call
    /\ req[c].exchange # None
    /\ IF ExchangeAccepts(req[c].exchange)
       THEN /\ exchanges' = [exchanges EXCEPT ![req[c].exchange] = DeclaredExchange]
            /\ Goto(c, "publish")
            /\ UNCHANGED open
       ELSE /\ Fail(c)
            /\ UNCHANGED exchanges
    /\ UNCHANGED <<req, wire, queues, bindings, stored, taken, history>>

\* serialize_message fails: the target has been declared by then.
SerializeFails(c) ==
    /\ pc[c] = "publish"
    /\ req[c].type \in Unserializable
    /\ Fail(c)
    /\ UNCHANGED <<req, wire, topology, stored, taken, history>>

\* publish_serialized.  Confirms are not selected on the channel, so the
\* confirmation it waits for says nothing; mandatory messages are returned to
\* a channel nobody listens on.
PublishSerialized(c) ==
    /\ pc[c] = "publish"
    /\ c \in open
    /\ req[c].type \notin Unserializable
    /\ wire' = wire \cup {c}
    /\ Goto(c, "ok")
    /\ open' = open \ {c}
    /\ UNCHANGED <<req, topology, stored, taken, history>>

-----------------------------------------------------------------------------
(* start_consumer_channel and setup_infrastructure. *)

StartConsumer(s) ==
    /\ pc[s] = "idle"
    /\ CreateChannel(s)
    /\ UNCHANGED <<req, wire, topology, stored, taken, history>>

DeclareConsumerQueue(s) ==
    /\ pc[s] = "declare"
    /\ s \in open
    /\ s \in Service
    /\ IF QueueAccepts(Config[s].queue)
       THEN /\ QueueDeclared(Config[s].queue)
            /\ Goto(s, IF Config[s].exchange = None THEN "consume" ELSE "bind")
            /\ UNCHANGED open
       ELSE /\ Fail(s)
            /\ UNCHANGED queues
    /\ UNCHANGED <<req, wire, exchanges, bindings, stored, taken, history>>

\* queue_bind: an exchange that does not exist is a channel exception.
BindQueue(s) ==
    /\ pc[s] = "bind"
    /\ s \in open
    /\ IF exchanges[Config[s].exchange] = Undeclared
       THEN /\ Fail(s)
            /\ UNCHANGED bindings
       ELSE /\ bindings' = bindings \cup {s}
            /\ Goto(s, "consume")
            /\ UNCHANGED open
    /\ UNCHANGED <<req, wire, queues, exchanges, stored, taken, history>>

BasicConsume(s) ==
    /\ pc[s] = "consume"
    /\ s \in open
    /\ started' = started \cup {s}
    /\ Goto(s, "consuming")
    /\ UNCHANGED <<req, open, wire, topology, stored, taken, dropped, lost, broken>>

\* The application calls consume() again.
StartAgain(s) ==
    /\ pc[s] = "err"
    /\ s \in Service
    /\ Goto(s, "idle")
    /\ UNCHANGED <<req, open, wire, topology, stored, taken, history>>

\* What the handler gets of call c's message, None when the task nacks it.
Received(s, c) ==
    IF Config[s].envelopes
    THEN ConsumeEnvelope(Config[s].type, Serialize(req[c], c))
    ELSE Consume(Config[s].type, Serialize(req[c], c))

TakeMessage(s, c) ==
    /\ pc[s] = "consuming"
    /\ s \in open
    /\ c \in stored[Config[s].queue]
    /\ stored' = [stored EXCEPT ![Config[s].queue] = @ \ {c}]
    /\ taken' = taken \cup {[call |-> c, service |-> s, value |-> Received(s, c)]}
    /\ UNCHANGED <<pc, req, open, wire, topology, history>>

-----------------------------------------------------------------------------
(* The broker, and the failures of the environment. *)

\* The consumer's queue is bound for what call c publishes.
Wants(s, c) ==
    /\ req[c].exchange # None
    /\ Config[s].exchange = req[c].exchange
    /\ req[c].routing_key \in Config[s].routing_keys

\* The queues a message goes to: by name, or by the bindings of its exchange.
Routes(c) ==
    {q \in Queue : \/ req[c].queue = q /\ queues[q] # Undeclared
                   \/ \E s \in bindings : Wants(s, c) /\ Config[s].queue = q}

RecvPublish(c) ==
    /\ c \in wire
    /\ wire' = wire \ {c}
    /\ stored' = [q \in Queue |-> IF q \in Routes(c) THEN stored[q] \cup {c} ELSE stored[q]]
    /\ dropped' = IF Routes(c) = {} THEN dropped \cup {c} ELSE dropped
    /\ UNCHANGED <<pc, req, open, topology, taken, lost, started, broken>>

\* Connections are lost with their channels and the frames on their way.
Disconnect(ks) ==
    /\ open' = {a \in open : ConnectionOf[a] \notin ks}
    /\ wire' = {c \in wire : ConnectionOf[c] \notin ks}
    /\ lost' = lost \cup {c \in wire : ConnectionOf[c] \in ks}
    /\ broken' = broken \cup ks

ConnectionLost(k) ==
    /\ "connection" \in Faults
    /\ Disconnect({k})
    /\ UNCHANGED <<pc, req, topology, stored, taken, dropped, started>>

\* Durable queues and exchanges with their bindings, and persistent messages,
\* survive.
BrokerRestarts ==
    /\ "restart" \in Faults
    /\ Disconnect(Connection)
    /\ exchanges' = [x \in Exchange |-> IF exchanges[x] = "transient" THEN Undeclared ELSE exchanges[x]]
    /\ bindings' = {s \in bindings : exchanges[Config[s].exchange] # "transient"}
    /\ stored' = [q \in Queue |-> IF DeliveryMode = 2 THEN stored[q] ELSE {}]
    /\ UNCHANGED <<pc, req, queues, taken, dropped, started>>

-----------------------------------------------------------------------------
CallStep(c) ==
    \/ \E r \in Request : StartCall(c, r)
    \/ DeclareQueue(c)
    \/ DeclareExchange(c)
    \/ SerializeFails(c)
    \/ PublishSerialized(c)
    \/ RecvPublish(c)

ServiceStep(s) ==
    \/ StartConsumer(s)
    \/ DeclareConsumerQueue(s)
    \/ BindQueue(s)
    \/ BasicConsume(s)
    \/ StartAgain(s)
    \/ \E c \in Call : TakeMessage(s, c)

Next ==
    \/ \E c \in Call : CallStep(c)
    \/ \E s \in Service : ServiceStep(s)
    \/ \E a \in Actor : OnClosedChannel(a)
    \/ \E k \in Connection : ConnectionLost(k)
    \/ BrokerRestarts

Spec == Init /\ [][Next]_vars

-----------------------------------------------------------------------------
(* Properties. *)

\* A message published to a queue is never unroutable, on a new broker, after a
\* restart or beside a queue that refuses: its call declares the queue before it
\* publishes (core.rs:151-164).
DirectRouted == \A c \in dropped : req[c].queue = None

\* Once a consumer has started, nothing published for it is unroutable, not even
\* when the consumer is down or the broker was restarted in between.
BoundRouted == [][\A c \in dropped' \ dropped, s \in started : ~Wants(s, c)]_vars

\* The target of call c has been declared.
Declared(c) ==
    IF req[c].queue # None
    THEN queues[req[c].queue] # Undeclared
    ELSE exchanges[req[c].exchange] # Undeclared

\* What a successful call has declared stays: a consumer that starts after a
\* message was published to its exchange can bind to it, restarts or not.
DeclaredForGood == \A c \in Call : pc[c] = "ok" => Declared(c)

Stored == UNION {stored[q] : q \in Queue}

\* The message of a successful call is on its way, in a queue, taken, lost with
\* the publisher's connection or unroutable, and nothing else; a call that
\* returned an error has left no message and may be repeated.
OkAccounted ==
    \A c \in Call : pc[c] = "ok" <=>
        c \in wire \cup lost \cup dropped \cup Stored \cup {t.call : t \in taken}

\* A call fails only by its own doing or with its connection: no refused
\* declaration and no start of a consumer disturbs another call.
ErrorsExplained ==
    \A c \in Call : pc[c] = "err" =>
        \/ ConnectionOf[c] \in broken
        \/ req[c].type \in Unserializable
        \/ req[c].queue # None /\ ~QueueAccepts(req[c].queue)
        \/ req[c].exchange # None /\ ~ExchangeAccepts(req[c].exchange)

\* The consumer is made for what call c publishes: the same payload type, and
\* the entry point that README.md:63-64 names for the format.
Suited(s, c) ==
    /\ Config[s].type = req[c].type
    /\ IF Config[s].envelopes
       THEN req[c].api \in Envelope /\ ~req[c].masstransit
       ELSE req[c].api \notin Envelope

Intact(s, c) ==
    LET message == Payload(req[c].type, c)
    IN IF Config[s].envelopes
       THEN [payload |-> message, max_retries |-> req[c].max_retries]
       ELSE message

PlainAmbiguous(c) == req[c].api = "publish" /\ ~req[c].masstransit /\ Ambiguous(req[c].type)

\* The handler gets what was published, in every format and by every call of the
\* API, but for plain payloads that read as MassTransit envelopes.
Consumable ==
    \A t \in taken : Suited(t.service, t.call) /\ ~PlainAmbiguous(t.call)
                        => t.value = Intact(t.service, t.call)

\* "consume() works with raw payloads and detects MassTransit envelopes
\* automatically" (README.md:63).
RawPayloadsWork ==
    \A t \in taken : Suited(t.service, t.call) => t.value = Intact(t.service, t.call)

-----------------------------------------------------------------------------
(* The inductive invariant behind these properties. *)

\* What a call has established when it reaches a step.
Calls ==
    \A c \in Call :
        /\ pc[c] \in {"idle", "declare", "publish", "ok", "err"}
        /\ pc[c] # "idle" => req[c] \in Request
        /\ pc[c] \in {"publish", "ok"} => Declared(c)
        /\ pc[c] \in {"declare", "publish"} => c \in open \/ ConnectionOf[c] \in broken

\* A consumer that has started, or is about to, is bound for good.
Services ==
    \A s \in Service :
        s \in started \/ pc[s] \in {"consume", "consuming"}
            => Config[s].exchange = None \/ s \in bindings

Durable == \A x \in Exchange : exchanges[x] # "transient"

IInv ==
    /\ TypeOK /\ Calls /\ Services /\ Durable
    /\ OkAccounted /\ ErrorsExplained /\ DirectRouted
=============================================================================
