--------------------------- MODULE PublisherProofs ---------------------------
(***************************************************************************)
(* Proofs about Publisher, for any number of calls, consumers, queues,     *)
(* exchanges and connections, any requests and any faults.                 *)
(***************************************************************************)
EXTENDS Publisher, TLAPS

Steps == {"idle", "declare", "bind", "publish", "consume", "consuming", "ok", "err"}

\* What every step does to the topology: what is declared stays declared, what
\* refuses goes on refusing, what is bound stays bound.
TopologyKept ==
    /\ \A q \in Queue : /\ queues[q] # Undeclared => queues'[q] # Undeclared
                        /\ ~QueueAccepts(q) => ~QueueAccepts(q)'
    /\ \A x \in Exchange : /\ exchanges[x] # Undeclared => exchanges'[x] # Undeclared
                           /\ ~ExchangeAccepts(x) => ~ExchangeAccepts(x)'
    /\ \A s \in Service : Config[s].exchange # None /\ s \in bindings => s \in bindings'

\* Why a call failed.
Explained(c) ==
    \/ ConnectionOf[c] \in broken
    \/ req[c].type \in Unserializable
    \/ req[c].queue # None /\ ~QueueAccepts(req[c].queue)
    \/ req[c].exchange # None /\ ~ExchangeAccepts(req[c].exchange)

\* Where the message of call c is.
Somewhere(c) == c \in wire \cup lost \cup dropped \cup Stored \cup {t.call : t \in taken}

-----------------------------------------------------------------------------
(* Facts that do not depend on an action. *)

\* A request names one target, a queue or an exchange.
LEMMA Target ==
    ASSUME NEW r \in Request
    PROVE  \/ r.queue \in Queue /\ r.queue # None /\ r.exchange = None
           \/ r.queue = None /\ r.exchange \in Exchange
BY PublisherAssumption

\* The target of a call stays declared, and its excuse stays one.
LEMMA CallStays ==
    ASSUME TopologyKept, broken \subseteq broken',
           NEW c \in Call, req[c] \in Request, req'[c] = req[c]
    PROVE  /\ Declared(c) => Declared(c)'
           /\ Explained(c) => Explained(c)'
<1>1. \/ req[c].queue \in Queue /\ req[c].queue # None /\ req[c].exchange = None
      \/ req[c].queue = None /\ req[c].exchange \in Exchange
  BY Target
<1>2. Declared(c) => Declared(c)'
  BY <1>1 DEF TopologyKept, Declared
<1>3. ASSUME Explained(c) PROVE Explained(c)'
  <2>1. CASE ConnectionOf[c] \in broken \/ req[c].type \in Unserializable
    BY <2>1 DEF Explained
  <2>2. CASE req[c].queue # None /\ ~QueueAccepts(req[c].queue)
    <3>1. PICK q \in Queue : q = req[c].queue
      BY <1>1, <2>2
    <3>2. ~QueueAccepts(q)'
      BY <2>2, <3>1 DEF TopologyKept
    <3> QED BY <2>2, <3>1, <3>2 DEF Explained, QueueAccepts
  <2>3. CASE req[c].exchange # None /\ ~ExchangeAccepts(req[c].exchange)
    <3>1. PICK x \in Exchange : x = req[c].exchange
      BY <1>1, <2>3
    <3>2. ~ExchangeAccepts(x)'
      BY <2>3, <3>1 DEF TopologyKept
    <3> QED BY <2>3, <3>1, <3>2 DEF Explained, ExchangeAccepts
  <2> QED BY <1>3, <2>1, <2>2, <2>3 DEF Explained
<1> QED BY <1>2, <1>3

\* A topology that was not touched is kept.
LEMMA TopologySame == UNCHANGED topology => TopologyKept
BY DEF topology, TopologyKept, QueueAccepts, ExchangeAccepts

LEMMA ErrorsAreExplained == ErrorsExplained <=> \A c \in Call : pc[c] = "err" => Explained(c)
BY DEF ErrorsExplained, Explained

LEMMA OkIsSomewhere == OkAccounted <=> \A c \in Call : pc[c] = "ok" <=> Somewhere(c)
BY DEF OkAccounted, Somewhere

LEMMA ActorCases ==
    ASSUME NEW a \in Actor
    PROVE  (a \in Call /\ a \notin Service) \/ (a \in Service /\ a \notin Call)
BY PublisherAssumption DEF Actor

-----------------------------------------------------------------------------
(* The shape most actions have: one actor goes on, and no message moves. *)

LEMMA ActorStep ==
    ASSUME IInv, TypeOK', TopologyKept, Durable',
           NEW a \in Actor, NEW step \in Steps, Goto(a, step),
           UNCHANGED <<wire, stored, taken, dropped, lost, broken>>,
           pc[a] # "ok", step # "ok",
           \A b \in Actor \ {a} : b \in open => b \in open',
           \A c \in Call : req'[c] = req[c] \/ (c = a /\ pc[c] = "idle"),
           started \subseteq started',
           \A s \in Service \ {a} : s \in started' => s \in started,
           a \in Call =>
               /\ step \in {"declare", "publish", "err"}
               /\ req'[a] \in Request
               /\ step = "publish" => Declared(a)'
               /\ step # "err" => a \in open' \/ ConnectionOf[a] \in broken
               /\ step = "err" => Explained(a)',
           a \in Service /\ (a \in started' \/ step \in {"consume", "consuming"})
                   => \/ Config[a].exchange = None \/ a \in bindings'
                      \/ a \in started \/ pc[a] \in {"consume", "consuming"}
    PROVE  IInv'
<1>1. /\ pc'[a] = step
      /\ \A b \in Actor \ {a} : pc'[b] = pc[b]
  BY DEF Goto, IInv, TypeOK
<1>c. Call \subseteq Actor /\ Service \subseteq Actor
  BY DEF Actor
<1>2. ASSUME NEW c \in Call
      PROVE  /\ pc'[c] \in {"idle", "declare", "publish", "ok", "err"}
             /\ pc'[c] # "idle" => req'[c] \in Request
             /\ pc'[c] \in {"publish", "ok"} => Declared(c)'
             /\ pc'[c] \in {"declare", "publish"} => c \in open' \/ ConnectionOf[c] \in broken
             /\ pc'[c] = "err" => Explained(c)'
  <2>1. CASE c = a
    BY <2>1, <1>1
  <2>2. CASE c # a
    <3>1. pc'[c] = pc[c] /\ req'[c] = req[c] /\ (c \in open => c \in open')
      BY <2>2, <1>1, <1>c
    <3>2. /\ pc[c] \in {"idle", "declare", "publish", "ok", "err"}
          /\ pc[c] # "idle" => req[c] \in Request
          /\ pc[c] \in {"publish", "ok"} => Declared(c)
          /\ pc[c] \in {"declare", "publish"} => c \in open \/ ConnectionOf[c] \in broken
          /\ pc[c] = "err" => Explained(c)
      BY ErrorsAreExplained DEF IInv, Calls
    <3>3. pc[c] # "idle" => /\ Declared(c) => Declared(c)'
                            /\ Explained(c) => Explained(c)'
      BY <3>1, <3>2, CallStays
    <3> QED BY <3>1, <3>2, <3>3
  <2> QED BY <2>1, <2>2
<1>3. Calls'
  BY <1>2 DEF Calls
<1>4. ErrorsExplained'
  BY <1>2 DEF ErrorsExplained, Explained
<1>5. OkAccounted'
  <2> SUFFICES ASSUME NEW c \in Call PROVE (pc'[c] = "ok") <=> Somewhere(c)'
    BY DEF OkAccounted, Somewhere
  <2>1. Somewhere(c)' <=> Somewhere(c)
    BY DEF Somewhere, Stored
  <2>2. (pc'[c] = "ok") <=> (pc[c] = "ok")
    BY <1>1, <1>c
  <2> QED BY <2>1, <2>2, OkIsSomewhere DEF IInv
<1>6. DirectRouted'
  <2> SUFFICES ASSUME NEW c \in dropped' PROVE req'[c].queue = None
    BY DEF DirectRouted
  <2>1. c \in dropped /\ c \in Call
    BY DEF IInv, TypeOK
  <2>2. pc[c] = "ok"
    BY <2>1 DEF IInv, OkAccounted
  <2>3. req'[c] = req[c]
    BY <2>1, <2>2
  <2> QED BY <2>1, <2>3 DEF IInv, DirectRouted
<1>7. Services'
  <2> SUFFICES ASSUME NEW s \in Service, s \in started' \/ pc'[s] \in {"consume", "consuming"}
               PROVE  Config[s].exchange = None \/ s \in bindings'
    BY DEF Services
  <2>1. (s \in started \/ pc[s] \in {"consume", "consuming"})
            => Config[s].exchange = None \/ s \in bindings'
    BY DEF IInv, Services, TopologyKept
  <2>2. CASE s = a
    BY <2>1, <2>2, <1>1
  <2>3. CASE s # a
    BY <2>1, <2>3, <1>1, <1>c
  <2> QED BY <2>2, <2>3
<1> QED BY <1>3, <1>4, <1>5, <1>6, <1>7 DEF IInv

-----------------------------------------------------------------------------
(* Types. *)

LEMMA TypeStep == IInv /\ [Next]_vars => TypeOK'
<1> SUFFICES ASSUME IInv, [Next]_vars PROVE TypeOK'
  OBVIOUS
<1>t. TypeOK /\ Call \subseteq Actor /\ Service \subseteq Actor
  BY DEF IInv, Actor
<1> USE DEF TypeOK, Goto, Fail, topology, history
<1>1. CASE \E c \in Call : CallStep(c)
  <2>1. PICK c \in Call : CallStep(c)
    BY <1>1
  <2>2. CASE \E r \in Request : StartCall(c, r)
    BY <1>t, <2>2 DEF StartCall, CreateChannel
  <2>3. CASE DeclareQueue(c)
    BY <1>t, <2>3 DEF DeclareQueue, QueueDeclared
  <2>4. CASE DeclareExchange(c)
    BY <1>t, <2>4 DEF DeclareExchange, DeclaredExchange
  <2>5. CASE SerializeFails(c)
    BY <1>t, <2>5 DEF SerializeFails
  <2>6. CASE PublishSerialized(c)
    BY <1>t, <2>6 DEF PublishSerialized
  <2>7. CASE RecvPublish(c)
    BY <1>t, <2>7 DEF RecvPublish
  <2> QED BY <2>1, <2>2, <2>3, <2>4, <2>5, <2>6, <2>7 DEF CallStep
<1>2. CASE \E s \in Service : ServiceStep(s)
  <2>1. PICK s \in Service : ServiceStep(s)
    BY <1>2
  <2>2. CASE StartConsumer(s)
    BY <1>t, <2>2 DEF StartConsumer, CreateChannel
  <2>3. CASE DeclareConsumerQueue(s)
    BY <1>t, <2>3 DEF DeclareConsumerQueue, QueueDeclared
  <2>4. CASE BindQueue(s)
    BY <1>t, <2>4 DEF BindQueue
  <2>5. CASE BasicConsume(s)
    BY <1>t, <2>5 DEF BasicConsume
  <2>6. CASE StartAgain(s)
    BY <1>t, <2>6 DEF StartAgain
  <2>7. CASE \E c \in Call : TakeMessage(s, c)
    <3>1. PICK c \in Call : TakeMessage(s, c)
      BY <2>7
    <3>2. /\ stored' = [stored EXCEPT ![Config[s].queue] = @ \ {c}]
          /\ taken' = taken \cup {[call |-> c, service |-> s, value |-> Received(s, c)]}
          /\ UNCHANGED <<pc, req, open, wire, topology, history>>
      BY <3>1 DEF TakeMessage
    <3>3. stored' \in [Queue -> SUBSET Call]
      BY <1>t, <3>2
    <3>4. \A x \in taken' : [call |-> x.call, service |-> x.service] \in Taken
      <4>1. \A x \in taken : [call |-> x.call, service |-> x.service] \in Taken
        BY <1>t
      <4>2. PICK y : y = [call |-> c, service |-> s, value |-> Received(s, c)]
        OBVIOUS
      <4>3. y.call = c /\ y.service = s
        BY <4>2
      <4>4. [call |-> y.call, service |-> y.service] \in Taken
        BY <4>3 DEF Taken
      <4> QED BY <3>2, <4>1, <4>2, <4>4
    <3> QED BY <1>t, <3>2, <3>3, <3>4
  <2> QED BY <2>1, <2>2, <2>3, <2>4, <2>5, <2>6, <2>7 DEF ServiceStep
<1>3. CASE \E a \in Actor : OnClosedChannel(a)
  BY <1>t, <1>3 DEF OnClosedChannel
<1>4. CASE \E k \in Connection : ConnectionLost(k)
  BY <1>t, <1>4 DEF ConnectionLost, Disconnect
<1>5. CASE BrokerRestarts
  <2>1. /\ Disconnect(Connection)
        /\ exchanges' \in [Exchange -> {Undeclared, "topic", "direct", "transient"}]
        /\ bindings' \subseteq Service
        /\ stored' \in [Queue -> SUBSET Call]
        /\ UNCHANGED <<pc, req, queues, taken, dropped, started>>
    BY <1>t, <1>5 DEF BrokerRestarts
  <2> QED BY <1>t, <2>1 DEF Disconnect
<1>6. CASE UNCHANGED vars
  BY <1>t, <1>6 DEF vars
<1> QED BY <1>1, <1>2, <1>3, <1>4, <1>5, <1>6 DEF Next

-----------------------------------------------------------------------------
(* The calls, up to their publish. *)

\* queue_declare changes nothing but the declaration of a queue that accepts.
LEMMA QueueDeclareKept ==
    ASSUME IInv, NEW q \in Queue, QueueAccepts(q), QueueDeclared(q), UNCHANGED <<exchanges, bindings>>
    PROVE  TopologyKept /\ Durable' /\ queues'[q] # Undeclared
BY DEF IInv, TypeOK, Durable, TopologyKept, QueueAccepts, ExchangeAccepts, QueueDeclared,
   Undeclared

LEMMA StartCallStep ==
    ASSUME IInv, TypeOK', NEW c \in Call, NEW r \in Request, StartCall(c, r)
    PROVE  IInv'
<1>1. /\ pc[c] = "idle" /\ req' = [req EXCEPT ![c] = r]
      /\ UNCHANGED <<wire, topology, stored, taken, history>>
      /\ \/ Goto(c, "declare") /\ open' = open \cup {c}
         \/ Goto(c, "err") /\ open' = open \ {c} /\ ConnectionOf[c] \in broken
  BY DEF StartCall, CreateChannel, Fail
<1>2. req'[c] = r /\ \A d \in Call \ {c} : req'[d] = req[d]
  BY <1>1 DEF IInv, TypeOK
<1>3. TopologyKept /\ Durable' /\ c \in Actor /\ c \notin Service
  BY <1>1, TopologySame, ActorCases DEF topology, Durable, IInv, Actor
<1>4. CASE Goto(c, "declare") /\ open' = open \cup {c}
  BY <1>1, <1>2, <1>3, <1>4, ActorStep DEF history, Steps
<1>5. CASE Goto(c, "err") /\ open' = open \ {c} /\ ConnectionOf[c] \in broken
  <2>1. Explained(c)'
    BY <1>1, <1>5 DEF Explained, history
  <2> QED BY <1>1, <1>2, <1>3, <1>5, <2>1, ActorStep DEF history, Steps
<1> QED BY <1>1, <1>4, <1>5

LEMMA DeclareQueueStep ==
    ASSUME IInv, TypeOK', NEW c \in Call, DeclareQueue(c)
    PROVE  IInv'
<1>1. /\ pc[c] = "declare" /\ c \in open /\ req[c].queue # None
      /\ UNCHANGED <<req, wire, exchanges, bindings, stored, taken, history>>
  BY DEF DeclareQueue
<1>2. c \in Actor /\ c \notin Service /\ req[c] \in Request
  BY <1>1, ActorCases DEF Actor, IInv, Calls
<1>3. PICK q \in Queue : q = req[c].queue
  BY <1>1, <1>2, Target
<1>4. CASE QueueAccepts(q)
  <2>1. QueueDeclared(q) /\ Goto(c, "publish") /\ open' = open
    BY <1>3, <1>4 DEF DeclareQueue
  <2>2. TopologyKept /\ Durable' /\ queues'[q] # Undeclared
    BY <1>1, <1>4, <2>1, QueueDeclareKept
  <2>3. Declared(c)'
    BY <1>1, <1>3, <2>2 DEF Declared
  <2> QED BY <1>1, <1>2, <2>1, <2>2, <2>3, ActorStep DEF history, Steps
<1>5. CASE ~QueueAccepts(q)
  <2>1. Goto(c, "err") /\ open' = open \ {c} /\ queues' = queues
    BY <1>3, <1>5 DEF DeclareQueue, Fail
  <2>2. TopologyKept /\ Durable'
    BY <1>1, <2>1, TopologySame DEF topology, Durable, IInv
  <2>3. Explained(c)'
    BY <1>1, <1>3, <1>5, <2>1 DEF Explained, QueueAccepts
  <2> QED BY <1>1, <1>2, <2>1, <2>2, <2>3, ActorStep DEF history, Steps
<1> QED BY <1>4, <1>5

LEMMA DeclareExchangeStep ==
    ASSUME IInv, TypeOK', NEW c \in Call, DeclareExchange(c)
    PROVE  IInv'
<1>1. /\ pc[c] = "declare" /\ c \in open /\ req[c].exchange # None
      /\ UNCHANGED <<req, wire, queues, bindings, stored, taken, history>>
  BY DEF DeclareExchange
<1>2. c \in Actor /\ c \notin Service /\ req[c] \in Request
  BY <1>1, ActorCases DEF Actor, IInv, Calls
<1>3. PICK x \in Exchange : x = req[c].exchange /\ req[c].queue = None
  BY <1>1, <1>2, Target
<1>4. CASE ExchangeAccepts(x)
  <2>1. /\ exchanges' = [exchanges EXCEPT ![x] = DeclaredExchange]
        /\ Goto(c, "publish") /\ open' = open
    BY <1>3, <1>4 DEF DeclareExchange
  <2>2. TopologyKept /\ Durable' /\ exchanges'[x] # Undeclared
    BY <1>1, <1>4, <2>1 DEF IInv, TypeOK, Durable, TopologyKept, QueueAccepts, ExchangeAccepts,
       DeclaredExchange, Undeclared
  <2>3. Declared(c)'
    BY <1>1, <1>3, <2>2 DEF Declared
  <2> QED BY <1>1, <1>2, <2>1, <2>2, <2>3, ActorStep DEF history, Steps
<1>5. CASE ~ExchangeAccepts(x)
  <2>1. Goto(c, "err") /\ open' = open \ {c} /\ exchanges' = exchanges
    BY <1>3, <1>5 DEF DeclareExchange, Fail
  <2>2. TopologyKept /\ Durable'
    BY <1>1, <2>1, TopologySame DEF topology, Durable, IInv
  <2>3. Explained(c)'
    BY <1>1, <1>3, <1>5, <2>1 DEF Explained, ExchangeAccepts
  <2> QED BY <1>1, <1>2, <2>1, <2>2, <2>3, ActorStep DEF history, Steps
<1> QED BY <1>4, <1>5

\* A call that fails on a payload that does not serialize, or on a channel that
\* the connection took with it.
LEMMA CallFailsStep ==
    ASSUME IInv, TypeOK', NEW c \in Call, SerializeFails(c) \/ OnClosedChannel(c)
    PROVE  IInv'
<1>1. /\ pc[c] \in {"declare", "publish"} /\ Goto(c, "err") /\ open' = open \ {c}
      /\ UNCHANGED <<req, wire, topology, stored, taken, history>>
      /\ req[c].type \in Unserializable \/ c \notin open
  BY DEF SerializeFails, OnClosedChannel, Fail, IInv, Calls
<1>2. c \in Actor /\ c \notin Service /\ req[c] \in Request
  BY <1>1, ActorCases DEF Actor, IInv, Calls
<1>3. Explained(c)'
  BY <1>1 DEF Explained, history, IInv, Calls
<1>4. TopologyKept /\ Durable'
  BY <1>1, TopologySame DEF topology, Durable, IInv
<1> QED BY <1>1, <1>2, <1>3, <1>4, ActorStep DEF history, Steps

-----------------------------------------------------------------------------
(* The consumers. *)

LEMMA StartConsumerStep ==
    ASSUME IInv, TypeOK', NEW s \in Service,
           StartConsumer(s) \/ StartAgain(s) \/ OnClosedChannel(s)
    PROVE  IInv'
<1>1. /\ pc[s] # "ok" /\ UNCHANGED <<req, wire, topology, stored, taken, history>>
      /\ \E step \in {"idle", "declare", "err"} : Goto(s, step)
      /\ \A a \in Actor \ {s} : a \in open => a \in open'
  BY DEF StartConsumer, StartAgain, OnClosedChannel, CreateChannel, Fail
<1>2. PICK step \in {"idle", "declare", "err"} : Goto(s, step)
  BY <1>1
<1>3. TopologyKept /\ Durable' /\ s \in Actor /\ s \notin Call
  BY <1>1, TopologySame, ActorCases DEF topology, Durable, IInv, Actor
<1> QED BY <1>1, <1>2, <1>3, ActorStep DEF history, Steps

LEMMA DeclareConsumerQueueStep ==
    ASSUME IInv, TypeOK', NEW s \in Service, DeclareConsumerQueue(s)
    PROVE  IInv'
<1>1. /\ pc[s] = "declare" /\ s \in open
      /\ UNCHANGED <<req, wire, exchanges, bindings, stored, taken, history>>
  BY DEF DeclareConsumerQueue
<1>2. s \in Actor /\ s \notin Call
  BY ActorCases DEF Actor
<1>3. PICK q \in Queue : q = Config[s].queue
  BY PublisherAssumption
<1>4. CASE QueueAccepts(q)
  <2>1. PICK step \in {"consume", "bind"} :
          /\ step = IF Config[s].exchange = None THEN "consume" ELSE "bind"
          /\ QueueDeclared(q) /\ Goto(s, step) /\ open' = open
    BY <1>3, <1>4 DEF DeclareConsumerQueue
  <2>2. TopologyKept /\ Durable'
    BY <1>1, <1>4, <2>1, QueueDeclareKept
  <2> QED BY <1>1, <1>2, <2>1, <2>2, ActorStep DEF history, Steps
<1>5. CASE ~QueueAccepts(q)
  <2>1. Goto(s, "err") /\ open' = open \ {s} /\ queues' = queues
    BY <1>3, <1>5 DEF DeclareConsumerQueue, Fail
  <2>2. TopologyKept /\ Durable'
    BY <1>1, <2>1, TopologySame DEF topology, Durable, IInv
  <2> QED BY <1>1, <1>2, <2>1, <2>2, ActorStep DEF history, Steps
<1> QED BY <1>4, <1>5

LEMMA BindQueueStep ==
    ASSUME IInv, TypeOK', NEW s \in Service, BindQueue(s)
    PROVE  IInv'
<1>1. /\ pc[s] = "bind"
      /\ UNCHANGED <<req, wire, queues, exchanges, stored, taken, history>>
      /\ \/ Goto(s, "err") /\ open' = open \ {s} /\ bindings' = bindings
         \/ Goto(s, "consume") /\ open' = open /\ bindings' = bindings \cup {s}
  BY DEF BindQueue, Fail
<1>2. s \in Actor /\ s \notin Call
  BY ActorCases DEF Actor
<1>3. TopologyKept /\ Durable'
  BY <1>1 DEF TopologyKept, QueueAccepts, ExchangeAccepts, Durable, IInv
<1> QED BY <1>1, <1>2, <1>3, ActorStep DEF history, Steps

LEMMA BasicConsumeStep ==
    ASSUME IInv, TypeOK', NEW s \in Service, BasicConsume(s)
    PROVE  IInv'
<1>1. /\ pc[s] = "consume" /\ started' = started \cup {s} /\ Goto(s, "consuming")
      /\ UNCHANGED <<req, open, wire, topology, stored, taken, dropped, lost, broken>>
  BY DEF BasicConsume
<1>2. TopologyKept /\ Durable' /\ s \in Actor /\ s \notin Call
  BY <1>1, TopologySame, ActorCases DEF topology, Durable, IInv, Actor
<1> QED BY <1>1, <1>2, ActorStep DEF Steps

-----------------------------------------------------------------------------
(* Messages move: the publish, the broker, the consumers and the faults. *)

\* A step in which no actor goes on and no message appears or disappears.
LEMMA MessageStep ==
    ASSUME IInv, TypeOK', TopologyKept, Durable', UNCHANGED <<pc, req, started>>,
           broken \subseteq broken',
           \A c \in Call : Somewhere(c)' <=> Somewhere(c),
           \A c \in dropped' : c \in dropped \/ req[c].queue = None,
           \A c \in Call : c \in open => c \in open' \/ ConnectionOf[c] \in broken'
    PROVE  IInv'
<1>1. ASSUME NEW c \in Call
      PROVE  /\ pc'[c] \in {"idle", "declare", "publish", "ok", "err"}
             /\ pc'[c] # "idle" => req'[c] \in Request
             /\ pc'[c] \in {"publish", "ok"} => Declared(c)'
             /\ pc'[c] \in {"declare", "publish"} => c \in open' \/ ConnectionOf[c] \in broken'
             /\ pc'[c] = "err" => Explained(c)'
             /\ (pc'[c] = "ok") <=> Somewhere(c)'
  <2>1. /\ pc[c] \in {"idle", "declare", "publish", "ok", "err"}
        /\ pc[c] # "idle" => req[c] \in Request
        /\ pc[c] \in {"publish", "ok"} => Declared(c)
        /\ pc[c] \in {"declare", "publish"} => c \in open \/ ConnectionOf[c] \in broken
        /\ pc[c] = "err" => Explained(c)
        /\ (pc[c] = "ok") <=> Somewhere(c)
    BY ErrorsAreExplained, OkIsSomewhere DEF IInv, Calls
  <2>2. pc[c] # "idle" => /\ Declared(c) => Declared(c)'
                          /\ Explained(c) => Explained(c)'
    BY <2>1, CallStays
  <2> QED BY <2>1, <2>2
<1>2. Calls'
  BY <1>1 DEF Calls
<1>3. ErrorsExplained'
  BY <1>1 DEF ErrorsExplained, Explained
<1>4. OkAccounted'
  BY <1>1 DEF OkAccounted, Somewhere
<1>5. DirectRouted'
  BY DEF IInv, DirectRouted
<1>6. Services'
  BY DEF IInv, Services, TopologyKept
<1> QED BY <1>2, <1>3, <1>4, <1>5, <1>6 DEF IInv

\* The publish itself: the call succeeds and its message is on its way.
LEMMA PublishSerializedStep ==
    ASSUME IInv, TypeOK', NEW c \in Call, PublishSerialized(c)
    PROVE  IInv'
<1>1. /\ pc[c] = "publish" /\ wire' = wire \cup {c}
      /\ Goto(c, "ok") /\ open' = open \ {c}
      /\ UNCHANGED <<req, topology, stored, taken, history>>
  BY DEF PublishSerialized
<1>2. pc'[c] = "ok" /\ \A a \in Actor \ {c} : pc'[a] = pc[a]
  BY <1>1 DEF Goto, IInv, TypeOK, Actor
<1>3. TopologyKept /\ Durable' /\ c \in Actor /\ c \notin Service
  BY <1>1, TopologySame, ActorCases DEF topology, Durable, IInv, Actor
<1>4. Calls'
  BY <1>1, <1>2 DEF IInv, Calls, Declared, topology, history, Actor
<1>5. Services'
  BY <1>1, <1>2, <1>3 DEF IInv, Services, topology, history, Actor
<1>6. OkAccounted'
  <2> SUFFICES ASSUME NEW d \in Call PROVE (pc'[d] = "ok") <=> Somewhere(d)'
    BY DEF OkAccounted, Somewhere
  <2>1. Somewhere(d)' <=> (Somewhere(d) \/ d = c)
    BY <1>1 DEF Somewhere, Stored, history
  <2> QED BY <2>1, <1>2, OkIsSomewhere DEF IInv, Actor
<1>7. ErrorsExplained'
  BY <1>1, <1>2 DEF IInv, ErrorsExplained, QueueAccepts, ExchangeAccepts, topology, history,
     Actor
<1>8. DirectRouted'
  BY <1>1 DEF IInv, DirectRouted, history
<1> QED BY <1>3, <1>4, <1>5, <1>6, <1>7, <1>8 DEF IInv

\* A message on its way is one of a call that succeeded, so its queue exists.
LEMMA WireRouted ==
    ASSUME IInv, NEW c \in wire, Routes(c) = {}
    PROVE  c \in Call /\ req[c].queue = None
<1>1. c \in Call /\ pc[c] = "ok"
  BY DEF IInv, TypeOK, OkAccounted
<1>2. req[c] \in Request /\ Declared(c)
  BY <1>1 DEF IInv, Calls
<1>3. ASSUME req[c].queue # None PROVE FALSE
  <2>1. req[c].queue \in Queue /\ queues[req[c].queue] # Undeclared
    BY <1>2, <1>3, Target DEF Declared
  <2> QED BY <2>1 DEF Routes
<1> QED BY <1>1, <1>3

LEMMA RecvPublishStep ==
    ASSUME IInv, TypeOK', NEW c \in Call, RecvPublish(c)
    PROVE  IInv'
<1>1. /\ c \in wire /\ wire' = wire \ {c}
      /\ stored' = [q \in Queue |-> IF q \in Routes(c) THEN stored[q] \cup {c} ELSE stored[q]]
      /\ dropped' = IF Routes(c) = {} THEN dropped \cup {c} ELSE dropped
      /\ UNCHANGED <<pc, req, open, topology, taken, lost, started, broken>>
  BY DEF RecvPublish
<1>2. TopologyKept /\ Durable'
  BY <1>1, TopologySame DEF topology, Durable, IInv
<1>3. \A d \in dropped' : d \in dropped \/ req[d].queue = None
  BY <1>1, WireRouted
<1>4. ASSUME NEW d \in Call PROVE Somewhere(d)' <=> Somewhere(d)
  <2>1. \A q \in Queue : q \in Routes(c) => q \in Queue
    OBVIOUS
  <2>2. CASE d = c
    <3>1. CASE Routes(c) = {}
      BY <1>1, <2>2, <3>1 DEF Somewhere
    <3>2. CASE Routes(c) # {}
      <4>1. PICK q \in Queue : q \in Routes(c)
        BY <3>2 DEF Routes
      <4>2. c \in stored'[q]
        BY <1>1, <4>1
      <4> QED BY <1>1, <2>2, <4>2 DEF Somewhere, Stored
    <3> QED BY <3>1, <3>2
  <2>3. CASE d # c
    <3>1. \A q \in Queue : d \in stored'[q] <=> d \in stored[q]
      BY <1>1, <2>3
    <3>2. d \in Stored' <=> d \in Stored
      BY <3>1 DEF Stored
    <3>3. (d \in wire' <=> d \in wire) /\ (d \in dropped' <=> d \in dropped)
      BY <1>1, <2>3
    <3> QED BY <1>1, <3>2, <3>3 DEF Somewhere
  <2> QED BY <2>2, <2>3
<1> QED BY <1>1, <1>2, <1>3, <1>4, MessageStep

LEMMA TakeMessageStep ==
    ASSUME IInv, TypeOK', NEW s \in Service, NEW c \in Call, TakeMessage(s, c)
    PROVE  IInv'
<1>1. /\ c \in stored[Config[s].queue]
      /\ stored' = [stored EXCEPT ![Config[s].queue] = @ \ {c}]
      /\ taken' = taken \cup {[call |-> c, service |-> s, value |-> Received(s, c)]}
      /\ UNCHANGED <<pc, req, open, wire, topology, history>>
  BY DEF TakeMessage
<1>2. TopologyKept /\ Durable'
  BY <1>1, TopologySame DEF topology, Durable, IInv
<1>3. PICK q \in Queue : q = Config[s].queue
  BY PublisherAssumption
<1>4. \A p \in Queue : stored'[p] = IF p = q THEN stored[p] \ {c} ELSE stored[p]
  BY <1>1, <1>3 DEF IInv, TypeOK
<1>5. c \in Stored /\ \A d : d # c => (d \in Stored' <=> d \in Stored)
  BY <1>1, <1>3, <1>4 DEF Stored
<1>6. {t.call : t \in taken}' = {t.call : t \in taken} \cup {c}
  <2>1. PICK y : y = [call |-> c, service |-> s, value |-> Received(s, c)]
    OBVIOUS
  <2>2. y.call = c /\ taken' = taken \cup {y}
    BY <1>1, <2>1
  <2> QED BY <2>2
<1>7. \A d \in Call : Somewhere(d)' <=> Somewhere(d)
  BY <1>1, <1>5, <1>6 DEF Somewhere, history
<1> QED BY <1>1, <1>2, <1>7, MessageStep DEF history

\* Connections are lost, and what was declared with durable stays.
LEMMA DisconnectStep ==
    ASSUME IInv, TypeOK', NEW ks, Disconnect(ks), TopologyKept, Durable', stored' = stored,
           UNCHANGED <<pc, req, taken, dropped, started>>
    PROVE  IInv'
<1>1. \A c \in Call : Somewhere(c)' <=> Somewhere(c)
  BY DEF Disconnect, Somewhere, Stored
<1>2. \A c \in Call : c \in open => c \in open' \/ ConnectionOf[c] \in broken'
  BY DEF Disconnect
<1> QED BY <1>1, <1>2, MessageStep DEF Disconnect

LEMMA FaultStep ==
    ASSUME IInv, TypeOK', BrokerRestarts \/ \E k \in Connection : ConnectionLost(k)
    PROVE  IInv'
<1>1. CASE \E k \in Connection : ConnectionLost(k)
  <2>1. PICK k \in Connection : ConnectionLost(k)
    BY <1>1
  <2>2. /\ Disconnect({k})
        /\ UNCHANGED <<pc, req, topology, stored, taken, dropped, started>>
    BY <2>1 DEF ConnectionLost
  <2>3. TopologyKept /\ Durable'
    BY <2>2, TopologySame DEF topology, Durable, IInv
  <2> QED BY <2>2, <2>3, DisconnectStep
<1>2. CASE BrokerRestarts
  <2>1. /\ Disconnect(Connection) /\ UNCHANGED <<pc, req, queues, taken, dropped, started>>
        /\ exchanges' = [x \in Exchange |->
                             IF exchanges[x] = "transient" THEN Undeclared ELSE exchanges[x]]
        /\ bindings' = {s \in bindings : exchanges[Config[s].exchange] # "transient"}
        /\ stored' = [q \in Queue |-> stored[q]]
    BY <1>2 DEF BrokerRestarts, DeliveryMode
  <2>2. /\ \A x \in Exchange : exchanges'[x] = exchanges[x]
        /\ \A s \in Service : Config[s].exchange # None /\ s \in bindings => s \in bindings'
    BY <2>1, PublisherAssumption DEF IInv, Durable
  <2>3. TopologyKept /\ Durable'
    BY <2>1, <2>2 DEF TopologyKept, QueueAccepts, ExchangeAccepts, Durable, IInv
  <2>4. stored' = stored
    BY <2>1 DEF IInv, TypeOK
  <2> QED BY <2>1, <2>3, <2>4, DisconnectStep
<1> QED BY <1>1, <1>2

-----------------------------------------------------------------------------
(* The theorems. *)

LEMMA InitIInv == Init => IInv
<1> SUFFICES ASSUME Init PROVE IInv
  OBVIOUS
<1>1. TypeOK
  BY PublisherAssumption DEF Init, TypeOK
<1>2. Calls /\ Services /\ Durable
  BY PublisherAssumption DEF Init, Calls, Services, Durable, Actor, Undeclared
<1>3. OkAccounted /\ ErrorsExplained /\ DirectRouted
  BY DEF Init, OkAccounted, Stored, ErrorsExplained, DirectRouted, Actor
<1> QED BY <1>1, <1>2, <1>3 DEF IInv

LEMMA NextIInv == IInv /\ [Next]_vars => IInv'
<1> SUFFICES ASSUME IInv, [Next]_vars PROVE IInv'
  OBVIOUS
<1>t. TypeOK'
  BY TypeStep
<1>1. CASE \E c \in Call : CallStep(c)
  BY <1>t, <1>1, StartCallStep, DeclareQueueStep, DeclareExchangeStep, CallFailsStep,
     PublishSerializedStep, RecvPublishStep DEF CallStep
<1>2. CASE \E s \in Service : ServiceStep(s)
  BY <1>t, <1>2, StartConsumerStep, DeclareConsumerQueueStep, BindQueueStep, BasicConsumeStep,
     TakeMessageStep DEF ServiceStep
<1>3. CASE \E a \in Actor : OnClosedChannel(a)
  BY <1>t, <1>3, CallFailsStep, StartConsumerStep DEF Actor
<1>4. CASE BrokerRestarts \/ \E k \in Connection : ConnectionLost(k)
  BY <1>t, <1>4, FaultStep
<1>5. CASE UNCHANGED vars
  <2>1. UNCHANGED <<topology, pc, req, open, wire, stored, taken, history>>
    BY <1>5 DEF vars, topology, history
  <2>2. TopologyKept /\ Durable'
    BY <2>1, TopologySame DEF topology, Durable, IInv
  <2>3. \A c \in Call : Somewhere(c)' <=> Somewhere(c)
    BY <2>1 DEF Somewhere, Stored, history
  <2> QED BY <1>t, <2>1, <2>2, <2>3, MessageStep DEF history
<1> QED BY <1>1, <1>2, <1>3, <1>4, <1>5 DEF Next

\* The inductive invariant holds in every reachable state.
THEOREM Invariance == Spec => []IInv
BY InitIInv, NextIInv, PTL DEF Spec

\* Requests, calls, queues and exchanges keep their types.
THEOREM TypeCorrect == Spec => []TypeOK
<1>1. IInv => TypeOK BY DEF IInv
<1> QED BY <1>1, Invariance, PTL

\* A message published to a queue is never unroutable.
THEOREM DirectAlwaysRouted == Spec => []DirectRouted
<1>1. IInv => DirectRouted BY DEF IInv
<1> QED BY <1>1, Invariance, PTL

\* What a successful call declared is there for whoever starts later.
THEOREM StaysDeclared == Spec => []DeclaredForGood
<1>1. IInv => DeclaredForGood BY DEF IInv, Calls, DeclaredForGood
<1> QED BY <1>1, Invariance, PTL

\* No message of a successful call vanishes without a trace, and a call that
\* failed has left none.
THEOREM OkIsAccountedFor == Spec => []OkAccounted
<1>1. IInv => OkAccounted BY DEF IInv
<1> QED BY <1>1, Invariance, PTL

\* A call fails only by its own doing or with its connection.
THEOREM ErrorsAreOwn == Spec => []ErrorsExplained
<1>1. IInv => ErrorsExplained BY DEF IInv
<1> QED BY <1>1, Invariance, PTL

\* Nothing that a consumer which has started wants becomes unroutable.
THEOREM StartedIsRouted == Spec => BoundRouted
<1> DEFINE Routed == \A c \in dropped' \ dropped, s \in started : ~Wants(s, c)
<1>1. IInv /\ [Next]_vars => [Routed]_vars
  <2> SUFFICES ASSUME IInv, Next PROVE Routed
    OBVIOUS
  <2>1. CASE \E c \in Call : RecvPublish(c)
    <3> SUFFICES ASSUME NEW c \in dropped' \ dropped, NEW s \in started, Wants(s, c)
                 PROVE  FALSE
      OBVIOUS
    <3>1. Routes(c) = {}
      BY <2>1 DEF RecvPublish
    <3>2. s \in Service /\ s \in bindings
      BY PublisherAssumption DEF IInv, TypeOK, Services, Wants
    <3>3. Config[s].queue \in Routes(c)
      BY <3>2, PublisherAssumption DEF Routes
    <3> QED BY <3>1, <3>3
  <2>2. CASE dropped' = dropped
    BY <2>2
  <2>3. CASE \E c \in Call : CallStep(c)
    BY <2>1, <2>2, <2>3 DEF CallStep, StartCall, DeclareQueue, DeclareExchange, SerializeFails,
       PublishSerialized, history
  <2>4. CASE \E s \in Service : ServiceStep(s)
    BY <2>2, <2>4 DEF ServiceStep, StartConsumer, DeclareConsumerQueue, BindQueue, BasicConsume,
       StartAgain, TakeMessage, history
  <2>5. CASE (\E a \in Actor : OnClosedChannel(a)) \/ (\E k \in Connection : ConnectionLost(k))
                \/ BrokerRestarts
    BY <2>2, <2>5 DEF OnClosedChannel, ConnectionLost, BrokerRestarts, history
  <2> QED BY <2>3, <2>4, <2>5 DEF Next
<1> QED BY <1>1, Invariance, PTL DEF Spec, BoundRouted

-----------------------------------------------------------------------------
(* Formats. *)

\* A payload type reads its own payloads.
LEMMA PayloadReads ==
    ASSUME NEW t \in Type, NEW id
    PROVE  /\ Payload(t, id).kind = "object"
           /\ HasFields(Payload(t, id), Schema[t])
           /\ Deserialize(t, Payload(t, id)) = Payload(t, id)
<1>1. /\ Payload(t, id).kind = "object"
      /\ Payload(t, id).fields = [f \in DOMAIN Schema[t] |-> Scalar(Schema[t][f], id)]
  BY DEF Payload, Object
<1>2. \A f \in DOMAIN Schema[t] : Payload(t, id).fields[f].kind = Schema[t][f]
  BY <1>1 DEF Scalar
<1>3. HasFields(Payload(t, id), Schema[t])
  BY <1>1, <1>2 DEF HasFields
<1>4. Deserialize(t, Payload(t, id)) = Object([f \in DOMAIN Schema[t] |-> Payload(t, id).fields[f]])
  BY <1>3 DEF Deserialize
<1>5. [f \in DOMAIN Schema[t] |-> Payload(t, id).fields[f]] = Payload(t, id).fields
  BY <1>1
<1> QED BY <1>1, <1>3, <1>4, <1>5 DEF Payload, Object

\* A MassTransit envelope is recognised, with the message it was made for.
LEMMA MassTransitReads ==
    ASSUME NEW j
    PROVE  /\ IsMassTransit(MassTransitEnvelope(j))
           /\ MassTransitEnvelope(j).fields.message = j
<1> DEFINE e == MassTransitEnvelope(j)
<1>1. e.kind = "object" /\ e.fields.message = j /\ "message" \in DOMAIN e.fields
  BY DEF MassTransitEnvelope, Object
<1>2. /\ e.fields.messageId.kind = "string"
      /\ e.fields.sentTime.kind = "time"
      /\ e.fields.sourceAddress.kind = "string"
      /\ e.fields.destinationAddress.kind = "string"
      /\ e.fields.messageType.kind = "array"
      /\ e.fields.headers.kind = "object"
      /\ "correlationId" \notin DOMAIN e.fields
  BY DEF MassTransitEnvelope, Object, Scalar
<1>3. ASSUME NEW f \in DOMAIN MassTransitSchema, f \in DOMAIN e.fields
      PROVE  e.fields[f].kind = MassTransitSchema[f]
  BY <1>2, <1>3 DEF MassTransitSchema
<1> QED BY <1>1, <1>3 DEF IsMassTransit

\* A MessageEnvelope reads back with its payload and its own retry limit.
LEMMA EnvelopeReads ==
    ASSUME NEW t \in Type, NEW id, NEW n
    PROVE  ConsumeEnvelope(t, MessageEnvelope(Payload(t, id), n))
             = [payload |-> Payload(t, id), max_retries |-> n]
<1> DEFINE e == MessageEnvelope(Payload(t, id), n)
<1>1. /\ e.kind = "object" /\ e.fields.payload = Payload(t, id)
      /\ DOMAIN e.fields = {"payload", "metadata"}
      /\ e.fields.metadata.kind = "object"
      /\ DOMAIN e.fields.metadata.fields = {"retry_attempt", "max_retries"}
      /\ e.fields.metadata.fields.retry_attempt.kind = "number"
      /\ e.fields.metadata.fields.max_retries.kind = "number"
      /\ e.fields.metadata.fields.max_retries.value = n
  BY DEF MessageEnvelope, Object, Scalar
<1>2. HasFields(e, [payload |-> "object", metadata |-> "object"])
  BY <1>1, PayloadReads DEF HasFields
<1>3. HasFields(e.fields.metadata, [retry_attempt |-> "number", max_retries |-> "number"])
  BY <1>1 DEF HasFields
<1>4. IsEnvelopeOf(t, e)
  BY <1>1, <1>2, <1>3, PayloadReads DEF IsEnvelopeOf
<1> QED BY <1>1, <1>4, PayloadReads DEF ConsumeEnvelope

\* Whether plain payloads read as MassTransit envelopes depends on their type.
LEMMA AmbiguityIsOfTypes ==
    ASSUME NEW t \in Type, NEW id
    PROVE  IsMassTransit(Payload(t, id)) <=> Ambiguous(t)
<1>1. \A i : /\ Payload(t, i).kind = "object"
             /\ DOMAIN Payload(t, i).fields = DOMAIN Schema[t]
             /\ \A f \in DOMAIN Schema[t] : Payload(t, i).fields[f].kind = Schema[t][f]
  BY DEF Payload, Object, Scalar
<1>2. \A i : IsMassTransit(Payload(t, i)) <=>
         /\ "message" \in DOMAIN Schema[t]
         /\ \A f \in DOMAIN MassTransitSchema \cap DOMAIN Schema[t] :
               Schema[t][f] = MassTransitSchema[f]
  BY <1>1 DEF IsMassTransit
<1> QED BY <1>2 DEF Ambiguous

\* What a call publishes is read back by a consumer made for it.
LEMMA RoundTrip ==
    ASSUME NEW s, NEW c, req[c] \in Request, Suited(s, c), ~PlainAmbiguous(c)
    PROVE  Received(s, c) = Intact(s, c)
<1>1. /\ req[c].api \in Api /\ req[c].type \in Type
      /\ Config[s].type = req[c].type
  BY PublisherAssumption DEF Suited
<1> DEFINE j == Payload(req[c].type, c)
<1>2. CASE Config[s].envelopes
  <2>1. Serialize(req[c], c) = MessageEnvelope(j, req[c].max_retries)
    BY <1>2 DEF Suited, Serialize, Envelope, MassTransit
  <2> QED BY <1>1, <1>2, <2>1, EnvelopeReads DEF Received, Intact
<1>3. CASE ~Config[s].envelopes /\ (req[c].masstransit \/ req[c].api \in MassTransit)
  <2>1. Serialize(req[c], c) = MassTransitEnvelope(j)
    BY <1>3 DEF Suited, Serialize
  <2>2. Consume(req[c].type, MassTransitEnvelope(j)) = Deserialize(req[c].type, j)
    BY MassTransitReads DEF Consume
  <2> QED BY <1>1, <1>3, <2>1, <2>2, PayloadReads DEF Received, Intact
<1>4. CASE ~Config[s].envelopes /\ ~(req[c].masstransit \/ req[c].api \in MassTransit)
  <2>1. Serialize(req[c], c) = j /\ req[c].api = "publish"
    BY <1>1, <1>4 DEF Suited, Serialize, Api
  <2>2. ~IsMassTransit(j)
    BY <1>1, <1>4, <2>1, AmbiguityIsOfTypes DEF PlainAmbiguous
  <2> QED BY <1>1, <1>4, <2>1, <2>2, PayloadReads DEF Consume, Received, Intact
<1> QED BY <1>2, <1>3, <1>4

\* Every value a handler got is what its consumer makes of the message.
TakenReceived == \A t \in taken : t.call \in Call /\ t.value = Received(t.service, t.call)

\* A call whose message was taken does not start again.
LEMMA NextTaken == IInv /\ TakenReceived /\ [Next]_vars => TakenReceived'
<1> SUFFICES ASSUME IInv, TakenReceived, [Next]_vars PROVE TakenReceived'
  OBVIOUS
<1>1. \A t \in taken : t.call \in Call /\ pc[t.call] = "ok"
  BY DEF TakenReceived, IInv, OkAccounted
<1>2. CASE taken' = taken /\ \A c \in Call : pc[c] = "ok" => req'[c] = req[c]
  BY <1>1, <1>2 DEF TakenReceived, Received
<1>3. CASE \E s \in Service, c \in Call : TakeMessage(s, c)
  <2>1. PICK s \in Service, c \in Call :
          /\ taken' = taken \cup {[call |-> c, service |-> s, value |-> Received(s, c)]}
          /\ req' = req
    BY <1>3 DEF TakeMessage
  <2>2. PICK y : y = [call |-> c, service |-> s, value |-> Received(s, c)]
    OBVIOUS
  <2>3. y.call = c /\ y.service = s /\ y.value = Received(s, c)
    BY <2>2
  <2>4. \A t : Received(t.service, t.call)' = Received(t.service, t.call)
    BY <2>1 DEF Received
  <2>5. \A t \in taken' : t \in taken \/ t = y
    BY <2>1, <2>2
  <2>6. \A t \in taken' : t.call \in Call /\ t.value = Received(t.service, t.call)
    BY <2>3, <2>5 DEF TakenReceived
  <2> QED BY <2>4, <2>6 DEF TakenReceived
<1>4. CASE \E c \in Call : CallStep(c)
  <2>1. PICK c \in Call : CallStep(c)
    BY <1>4
  <2>2. CASE \E r \in Request : StartCall(c, r)
    BY <1>2, <2>2 DEF StartCall, IInv, TypeOK
  <2> QED BY <1>2, <2>1, <2>2 DEF CallStep, DeclareQueue, DeclareExchange, SerializeFails,
             PublishSerialized, RecvPublish
<1>5. CASE \E s \in Service : ServiceStep(s)
  BY <1>2, <1>3, <1>5 DEF ServiceStep, StartConsumer, DeclareConsumerQueue, BindQueue,
     BasicConsume,
     StartAgain
<1>6. CASE (\E a \in Actor : OnClosedChannel(a)) \/ (\E k \in Connection : ConnectionLost(k))
              \/ BrokerRestarts \/ UNCHANGED vars
  BY <1>2, <1>6 DEF OnClosedChannel, ConnectionLost, BrokerRestarts, vars
<1> QED BY <1>4, <1>5, <1>6 DEF Next

\* A suited handler gets what was published, in every format, unless a plain
\* payload reads as a MassTransit envelope.
THEOREM ReadBack == Spec => []Consumable
<1>1. Init => TakenReceived
  BY DEF Init, TakenReceived
<1>2. IInv /\ TakenReceived => Consumable
  <2> SUFFICES ASSUME IInv, TakenReceived, NEW t \in taken,
                      Suited(t.service, t.call), ~PlainAmbiguous(t.call)
               PROVE  t.value = Intact(t.service, t.call)
    BY DEF Consumable
  <2>1. t.call \in Call /\ t.value = Received(t.service, t.call)
    BY DEF TakenReceived
  <2>2. req[t.call] \in Request
    BY <2>1 DEF IInv, OkAccounted, Calls
  <2> QED BY <2>1, <2>2, RoundTrip
<1> QED BY <1>1, <1>2, NextTaken, Invariance, PTL DEF Spec
=============================================================================
