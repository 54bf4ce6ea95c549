------------------------------- MODULE Broker -------------------------------
(***************************************************************************)
(* The RabbitMQ broker and the lapin channels, as src/consumer uses them.  *)
(* Neither is in the repository: the module models the AMQP behaviour the  *)
(* consumers rely on, for ONE application queue, its retry queues, its     *)
(* delay exchange and its dead letter queue.                               *)
(*                                                                         *)
(* A copy is one message instance in the broker: publishing makes a new    *)
(* copy, settling ends one.  A session is one call of consume() or         *)
(* consume_envelopes(): one channel and its consumer.  A delivery is       *)
(* identified by its session and its copy, which stand for the channel and *)
(* the delivery tag: a copy goes back to the queue only when the channel   *)
(* closes, so a session never receives it twice.                           *)
(*                                                                         *)
(* basic_publish, basic_ack and basic_nack return once their frame is      *)
(* handed to the connection; the broker acts on it later, or never when    *)
(* the channel closes first.  Frames of one delivery keep their order      *)
(* (RecvSettle waits for the publish written before it).  Frames of        *)
(* different deliveries touch different copies and are left unordered.     *)
(***************************************************************************)
EXTENDS Integers, FiniteSets

CONSTANTS
    Msg,          \* application messages
    Copy,         \* ids of message instances, the bound on how many exist
    Session,      \* consume() calls, over all processes and restarts
    MaxRetries,   \* RetryConfig::max_retries
    Ttl,          \* x-message-ttl values
    Existing,     \* what an earlier deployment may have declared a queue with
    None

NoTtl == "no_ttl"            \* declared without x-message-ttl
Undeclared == "undeclared"   \* the queue does not exist

ASSUME BrokerAssumption ==
    /\ MaxRetries \in Nat
    /\ None \notin Nat
    /\ None \notin Msg
    /\ None \notin Session
    /\ None \notin {"ack", "nack"}
    /\ Existing \subseteq Ttl \cup {NoTtl, Undeclared}

RetryQueue(n) == <<"retry", n>>
Dlq == <<"dlq", 0>>
DelayExchange == <<"delay_exchange", 0>>
Queue == {RetryQueue(n) : n \in 1..MaxRetries} \cup {Dlq}

Header == Nat \cup {None}
Body == [msg : Msg, attempt : Header, persistent : BOOLEAN]
Frame == [to : Queue \cup {DelayExchange}, body : Body]
Places == {"unused", "ready", "unacked", "delayed", "dlq",
           "expired", "acked", "dropped", "lost"}

ASSUME BodyAssumption == None \notin Body /\ None \notin Frame

VARIABLES
    place,      \* where each copy is
    body,       \* what each copy carries, None when unused
    owner,      \* the session an unacked copy is delivered to, or None
    chan,       \* each session's channel: "new", "open" or "closed"
    outPub,     \* publish frame written for a delivery and not yet received
    outSettle,  \* ack or nack written for a delivery and not yet received
    args,       \* the x-message-ttl each queue was declared with
    bound       \* whether the main queue is bound to the delay exchange

brokerVars == <<place, body, owner, chan, outPub, outSettle, args, bound>>

BrokerTypeOK ==
    /\ place \in [Copy -> Places]
    /\ body \in [Copy -> Body \cup {None}]
    /\ owner \in [Copy -> Session \cup {None}]
    /\ chan \in [Session -> {"new", "open", "closed"}]
    /\ outPub \in [Session -> [Copy -> Frame \cup {None}]]
    /\ outSettle \in [Session -> [Copy -> {"ack", "nack", None}]]
    /\ args \in [Queue -> Ttl \cup {NoTtl, Undeclared}]
    /\ bound \in BOOLEAN

BrokerInit ==
    /\ place = [c \in Copy |-> "unused"]
    /\ body = [c \in Copy |-> None]
    /\ owner = [c \in Copy |-> None]
    /\ chan = [s \in Session |-> "new"]
    /\ outPub = [s \in Session |-> [c \in Copy |-> None]]
    /\ outSettle = [s \in Session |-> [c \in Copy |-> None]]
    /\ args \in [Queue -> Existing]
    /\ bound \in BOOLEAN

-----------------------------------------------------------------------------
(* Copies and messages. *)

Published(m) == \E c \in Copy : body[c] # None /\ body[c].msg = m

\* There is room for one more copy; only the bound on Copy can make it false.
HasFresh == \E c \in Copy : place[c] = "unused"
Fresh == CHOOSE c \in Copy : place[c] = "unused"

\* A new copy of body b appears in place p.
Enqueue(p, b) ==
    /\ HasFresh
    /\ place' = [place EXCEPT ![Fresh] = p]
    /\ body' = [body EXCEPT ![Fresh] = b]

Outstanding(s) == {c \in Copy : owner[c] = s}

-----------------------------------------------------------------------------
(* What the broker does on its own. *)

\* It receives a publish frame and routes it: the default exchange to a retry
\* queue or the dead letter queue, the delay exchange to its delay store.
RecvPublish(s, c) ==
    /\ chan[s] = "open"
    /\ outPub[s][c] # None
    /\ Enqueue(IF outPub[s][c].to = Dlq THEN "dlq" ELSE "delayed", outPub[s][c].body)
    /\ outPub' = [outPub EXCEPT ![s][c] = None]
    /\ UNCHANGED <<owner, chan, outSettle, args, bound>>

\* It receives an ack or a nack.  The main queue has no dead letter exchange,
\* so a nack with requeue = false discards the copy.  A settlement of anything
\* but an outstanding delivery would close the channel; SettleOnce states that
\* the consumers never send one.
RecvSettle(s, c) ==
    /\ chan[s] = "open"
    /\ outSettle[s][c] # None
    /\ outPub[s][c] = None
    /\ owner[c] = s
    /\ place' = [place EXCEPT ![c] = IF outSettle[s][c] = "ack" THEN "acked" ELSE "dropped"]
    /\ owner' = [owner EXCEPT ![c] = None]
    /\ outSettle' = [outSettle EXCEPT ![s][c] = None]
    /\ UNCHANGED <<body, chan, outPub, args, bound>>

\* It delivers a ready copy while the channel's basic_qos window allows;
\* a prefetch count of 0 means no limit.
Send(s, c, prefetch) ==
    /\ chan[s] = "open"
    /\ place[c] = "ready"
    /\ prefetch = 0 \/ Cardinality(Outstanding(s)) < prefetch
    /\ place' = [place EXCEPT ![c] = "unacked"]
    /\ owner' = [owner EXCEPT ![c] = s]
    /\ UNCHANGED <<body, chan, outPub, outSettle, args, bound>>

\* The delay of a retry runs out.  A retry queue dead-letters to the main queue
\* and keeps the headers; the delay exchange routes by the binding there is.
ExpireRetry(c, delayedExchange) ==
    /\ place[c] = "delayed"
    /\ place' = [place EXCEPT ![c] = IF delayedExchange /\ ~bound THEN "lost" ELSE "ready"]
    /\ UNCHANGED <<body, owner, chan, outPub, outSettle, args, bound>>

\* A message in the dead letter queue outlives the queue's x-message-ttl.
ExpireDlq(c) ==
    /\ place[c] = "dlq"
    /\ args[Dlq] \in Ttl
    /\ place' = [place EXCEPT ![c] = "expired"]
    /\ UNCHANGED <<body, owner, chan, outPub, outSettle, args, bound>>

-----------------------------------------------------------------------------
(* Channels. *)

\* The channels of sessions S end: their frames are gone and the broker
\* requeues what it had delivered on them.
CloseChannels(S) ==
    /\ chan' = [s \in Session |-> IF s \in S THEN "closed" ELSE chan[s]]
    /\ outPub' = [s \in Session |-> IF s \in S THEN [c \in Copy |-> None] ELSE outPub[s]]
    /\ outSettle' = [s \in Session |-> IF s \in S THEN [c \in Copy |-> None] ELSE outSettle[s]]
    /\ owner' = [c \in Copy |-> IF owner[c] \in S THEN None ELSE owner[c]]

Requeued(S) == [c \in Copy |-> IF owner[c] \in S THEN "ready" ELSE place[c]]

\* A lost connection, a channel exception or an application's close.
Close(S) ==
    /\ CloseChannels(S)
    /\ place' = Requeued(S)
    /\ UNCHANGED <<body, args, bound>>

\* Messages that do not survive a broker restart.
Transient == {c \in Copy : /\ place[c] \in {"ready", "unacked", "delayed", "dlq"}
                           /\ ~body[c].persistent}

\* The broker restarts: every channel ends, durable queues and bindings stay.
BrokerRestart ==
    LET open == {s \in Session : chan[s] = "open"}
    IN  /\ CloseChannels(open)
        /\ place' = [c \in Copy |-> IF c \in Transient THEN "lost" ELSE Requeued(open)[c]]
        /\ UNCHANGED <<body, args, bound>>

\* queue_declare succeeds on a new queue and on one with the same arguments.
DeclareAccepted(q, ttl) == args[q] \in {Undeclared, ttl}
=============================================================================
