------------------------ MODULE EnvelopePromiseProofs ------------------------
(***************************************************************************)
(* EnvelopeConsumer implements AtLeastOnce with a best-effort dead letter, *)
(* for any number of messages, copies, sessions, retries and limits: every *)
(* step is a step of the promise or leaves it alone.                       *)
(***************************************************************************)
EXTENDS EnvelopeConsumerProofs

Step == [Promise!Next]_(Promise!promise)

-----------------------------------------------------------------------------
(* What the invariant says in the words of the promise. *)

\* The attempts at which the handler failed and may fail are the promise's.
LEMMA FinalIsFinal ==
    ASSUME NEW m \in Msg, HasRetry, FinalFailure(m)
    PROVE  Promise!FailedFinally(m)
<1>1. PICK k \in 0..MaxRetries :
        FailedAt(m, k) /\ (k + 1 > EnvMax[m] \/ RetryDelay(k) = None)
  BY DEF FinalFailure
<1>2. k \in FailuresOf(m)
  BY <1>1 DEF FailuresOf
<1> QED BY <1>1, <1>2 DEF Promise!FailedFinally

\* An envelope that was handled, may be discarded or failed finally may be released.
LEMMA DoneReleases ==
    ASSUME IInv, NEW m \in Msg, Handled(m) \/ MayReject(m) \/ (HasRetry /\ FinalFailure(m))
    PROVE  Promise!MayRelease(m)
<1>1. CASE Handled(m) \/ m \in Malformed
  BY <1>1 DEF Promise!MayRelease
<1>2. CASE /\ ~HasRetry \/ m \in Unserializable
           /\ \E call \in calls : call.msg = m /\ ~call.ok
  <2>1. PICK call \in calls : call.msg = m /\ ~call.ok
    BY <1>2
  <2>2. call \in Call /\ call.attempt <= MaxRetries
    BY <2>1 DEF IInv, TypeOK, ConsumerTypeOK, AttemptLimit
  <2>3. PICK k \in 0..MaxRetries : call = [msg |-> m, attempt |-> k, ok |-> FALSE]
    BY <2>1, <2>2, BrokerAssumption DEF Call
  <2>4. k \in FailuresOf(m)
    BY <2>1, <2>3 DEF FailuresOf, FailedAt
  <2>5. ~HasRetry => Promise!FailedFinally(m)
    BY <2>4 DEF Promise!FailedFinally
  <2> QED BY <1>2, <2>4, <2>5 DEF Promise!MayRelease
<1>3. CASE HasRetry /\ FinalFailure(m)
  BY <1>3, FinalIsFinal DEF Promise!MayRelease
<1> QED BY <1>1, <1>2, <1>3 DEF MayReject, Rejectable

-----------------------------------------------------------------------------
(* Steps that add no copy and return from no handler. *)

\* Copies may only go away, and dead letters stay what they are: the envelopes
\* left without a copy are released, and Kept says that they may be.
LEMMA PlacesPromise ==
    ASSUME IInv, IInv', UNCHANGED <<body, calls>>,
           \A c \in Copy : body[c] # None =>
               /\ Live(c)' => Live(c)
               /\ place'[c] \in {"dlq", "expired", "lost"}
                     <=> place[c] \in {"dlq", "expired", "lost"}
    PROVE  Step
<1>1. \A x \in Msg : /\ Published(x)' <=> Published(x)
                     /\ Held(x)' => Held(x)
                     /\ DeadLettered(x)' <=> DeadLettered(x)
  BY DEF Published, Held, DeadLettered
<1>2. /\ {m \in Msg : Published(m)}' = {m \in Msg : Published(m)}
      /\ {m \in Msg : DeadLettered(m)}' = {m \in Msg : DeadLettered(m)}
      /\ {m \in Msg : Handled(m)}' = {m \in Msg : Handled(m)}
      /\ [m \in Msg |-> FailuresOf(m)]' = [m \in Msg |-> FailuresOf(m)]
  BY <1>1 DEF Handled, FailuresOf, FailedAt
<1>3. PICK M \in SUBSET Msg : M = {m \in Msg : Held(m) /\ ~Held(m)'}
  OBVIOUS
<1>4. {m \in Msg : Held(m)}' = {m \in Msg : Held(m)} \ M
  BY <1>1, <1>3
<1>5. ASSUME NEW m \in M PROVE Promise!MayRelease(m)
  <2>1. m \in Msg /\ Held(m) /\ ~Held(m)'
    BY <1>3
  <2>2. Published(m)'
    BY <2>1, <1>1 DEF Held, Published
  <2>3. (Done(m) \/ \E c \in Copy : Active(c) /\ body[c].msg = m)'
    BY <2>1, <2>2 DEF IInv, Kept
  <2>4. Done(m)'
    BY <2>1, <2>3 DEF Active, Held, Live
  <2>5. Discarded(m)' => MayReject(m)'
    BY DEF Discarded, IInv, CopyOK
  <2>6. Handled(m) \/ MayReject(m) \/ (HasRetry /\ FinalFailure(m))
    BY <2>4, <2>5
       DEF Done, Handled, MayReject, Rejectable, FinalFailure, FailedAt, RetryDelay
  <2> QED BY <2>1, <2>6, DoneReleases
<1>6. Promise!Release(M)
  BY <1>2, <1>4, <1>5 DEF Promise!Release
<1>7. M \in SUBSET {m \in Msg : Held(m)}
  BY <1>3
<1> QED BY <1>6, <1>7 DEF Step, Promise!Next

\* A step of a task or a fault that leaves all copies where they are.
LEMMA StillPromise ==
    ASSUME IInv, IInv', UNCHANGED <<place, body, calls>>
    PROVE  Step
BY PlacesPromise DEF Live

\* Channels end: what was unacked is ready again, and dead letters may be lost.
LEMMA ClosePromise ==
    ASSUME IInv, IInv', NEW S \in SUBSET Session, UNCHANGED <<body, calls>>,
           \A c \in Copy : \/ place'[c] = Requeued(S)[c]
                           \/ place[c] = "dlq" /\ place'[c] = "lost"
    PROVE  Step
<1>1. \A c \in Copy : owner[c] \in S => place[c] = "unacked"
  BY BrokerAssumption DEF IInv, CopyOK
<1> QED BY <1>1, PlacesPromise DEF Live, Requeued

-----------------------------------------------------------------------------
(* Copies appear. *)

\* What an arriving copy changes.
LEMMA ArrivalFates ==
    ASSUME IInv, NEW p \in {"ready", "delayed", "dlq"}, NEW b \in Body, Enqueue(p, b),
           owner' = owner, NEW m
    PROVE  /\ Published(m)' <=> (Published(m) \/ m = b.msg)
           /\ Held(m)' <=> (Held(m) \/ m = b.msg)
           /\ DeadLettered(m)' <=> (DeadLettered(m) \/ (p = "dlq" /\ m = b.msg))
<1>p. p \in Places BY DEF Places
<1>b. b # None BY BodyAssumption
<1>1. PICK new \in Copy :
      /\ body[new] = None
      /\ place'[new] = p /\ body'[new] = b
      /\ \A d \in Copy \ {new} : body'[d] = body[d] /\ place'[d] = place[d]
  BY <1>p, EnqueueFacts DEF SameCopy
<1>2. Published(m)' <=> (Published(m) \/ m = b.msg)
  BY <1>1, <1>b DEF Published
<1>3. Held(m)' <=> (Held(m) \/ m = b.msg)
  BY <1>1, <1>b DEF Held, Live
<1>4. DeadLettered(m)' <=> (DeadLettered(m) \/ (p = "dlq" /\ m = b.msg))
  BY <1>1, <1>b DEF DeadLettered
<1> QED BY <1>2, <1>3, <1>4

\* A publisher's envelope is accepted.
LEMMA PublishPromise ==
    ASSUME IInv, NEW m \in Msg, Publish(m)
    PROVE  Promise!Accept(m)
<1> DEFINE b == [msg |-> m, attempt |-> 0, persistent |-> TRUE]
<1>1. ~Published(m) /\ calls' = calls /\ owner' = owner /\ Enqueue("ready", b)
  BY EnvelopeAssumption DEF Publish
<1>2. b \in Body /\ b.msg = m
  BY DEF Body, Header
<1> HIDE DEF b
<1>3. \A x \in Msg : /\ Published(x)' <=> (Published(x) \/ x = m)
                     /\ Held(x)' <=> (Held(x) \/ x = m)
                     /\ DeadLettered(x)' <=> DeadLettered(x)
  BY <1>1, <1>2, ArrivalFates
<1>4. /\ {x \in Msg : Published(x)}' = {x \in Msg : Published(x)} \cup {m}
      /\ {x \in Msg : Held(x)}' = {x \in Msg : Held(x)} \cup {m}
      /\ {x \in Msg : DeadLettered(x)}' = {x \in Msg : DeadLettered(x)}
  BY <1>3
<1>5. /\ {x \in Msg : Handled(x)}' = {x \in Msg : Handled(x)}
      /\ [x \in Msg |-> FailuresOf(x)]' = [x \in Msg |-> FailuresOf(x)]
  BY <1>1 DEF Handled, FailuresOf, FailedAt
<1> QED BY <1>1, <1>4, <1>5 DEF Promise!Accept

\* A retry that arrives changes no fate: its delivery is still unacked.
LEMMA RecvPublishPromise ==
    ASSUME IInv, NEW s \in Session, NEW c \in Copy, BrokerRecvPublish(s, c)
    PROVE  UNCHANGED Promise!promise
<1> DEFINE b == outPub[s][c].body
<1>1. /\ FrameOK(s, c) /\ outPub[s][c] # None /\ calls' = calls /\ owner' = owner
      /\ Enqueue(IF outPub[s][c].to = Dlq THEN "dlq" ELSE "delayed", b)
  BY DEF IInv, BrokerRecvPublish, RecvPublish
<1>2. Enqueue("delayed", b) /\ b.msg = body[c].msg /\ owner[c] = s
  BY <1>1 DEF FrameOK
<1>3. b \in Body
  BY <1>1 DEF IInv, TypeOK, BrokerTypeOK, Frame
<1>4. body[c] # None /\ place[c] = "unacked"
  BY <1>2, BrokerAssumption DEF IInv, CopyOK
<1>5. Published(b.msg) /\ Held(b.msg)
  BY <1>2, <1>4 DEF Published, Held, Live
<1> HIDE DEF b
<1>6. \A x \in Msg : /\ Published(x)' <=> Published(x)
                     /\ Held(x)' <=> Held(x)
                     /\ DeadLettered(x)' <=> DeadLettered(x)
  BY <1>1, <1>2, <1>3, <1>5, ArrivalFates
<1>7. /\ {x \in Msg : Published(x)}' = {x \in Msg : Published(x)}
      /\ {x \in Msg : Held(x)}' = {x \in Msg : Held(x)}
      /\ {x \in Msg : DeadLettered(x)}' = {x \in Msg : DeadLettered(x)}
  BY <1>6
<1>8. /\ {x \in Msg : Handled(x)}' = {x \in Msg : Handled(x)}
      /\ [x \in Msg |-> FailuresOf(x)]' = [x \in Msg |-> FailuresOf(x)]
  BY <1>1 DEF Handled, FailuresOf, FailedAt
<1> QED BY <1>7, <1>8 DEF Promise!promise

\* A dead letter that arrives follows a final failure, and may come after the
\* envelope was acked.
LEMMA RecvDlqPromise ==
    ASSUME IInv, NEW s \in Session, NEW c \in Copy, BrokerRecvDlq(s, c)
    PROVE  \E m \in Msg : Promise!DeadLetter(m)
<1> DEFINE b == outDlq[s][c].body
<1>1. /\ FrameOK(s, c) /\ outDlq[s][c] # None /\ calls' = calls /\ owner' = owner
      /\ Enqueue("dlq", b)
  BY DEF IInv, BrokerRecvDlq
<1>2. HasRetry /\ FinalFailure(b.msg) /\ body[c] # None /\ b.msg = body[c].msg
  BY <1>1 DEF FrameOK, Earned
<1>3. b \in Body /\ b.msg \in Msg
  BY <1>1 DEF IInv, TypeOK, Frame, Body
<1> HIDE DEF b
<1>4. Published(b.msg) /\ Promise!FailedFinally(b.msg)
  BY <1>2, <1>3, FinalIsFinal DEF Published
<1>5. \A x \in Msg : /\ Published(x)' <=> Published(x)
                     /\ Held(x)' <=> (Held(x) \/ x = b.msg)
                     /\ DeadLettered(x)' <=> (DeadLettered(x) \/ x = b.msg)
  BY <1>1, <1>3, <1>4, ArrivalFates
<1>6. /\ {x \in Msg : Published(x)}' = {x \in Msg : Published(x)}
      /\ {x \in Msg : Held(x)}' = {x \in Msg : Held(x)} \cup {b.msg}
      /\ {x \in Msg : DeadLettered(x)}' = {x \in Msg : DeadLettered(x)} \cup {b.msg}
  BY <1>3, <1>5
<1>7. /\ {x \in Msg : Handled(x)}' = {x \in Msg : Handled(x)}
      /\ [x \in Msg |-> FailuresOf(x)]' = [x \in Msg |-> FailuresOf(x)]
  BY <1>1 DEF Handled, FailuresOf, FailedAt
<1>8. Promise!DeadLetter(b.msg)
  BY <1>2, <1>3, <1>4, <1>6, <1>7 DEF Promise!DeadLetter
<1> QED BY <1>3, <1>8

-----------------------------------------------------------------------------
(* Handlers return. *)

\* A handler call moves nothing.
LEMMA CallFates ==
    ASSUME UNCHANGED <<place, body>>
    PROVE  /\ {x \in Msg : Published(x)}' = {x \in Msg : Published(x)}
           /\ {x \in Msg : Held(x)}' = {x \in Msg : Held(x)}
           /\ {x \in Msg : DeadLettered(x)}' = {x \in Msg : DeadLettered(x)}
BY DEF Published, Held, Live, DeadLettered

\* The envelope in a handler's hands is at an attempt that follows failures
\* none of which was final.
LEMMA HandlerHas ==
    ASSUME IInv, NEW s \in Session, NEW c \in Copy, pc[s][c] = "handling"
    PROVE  \E m \in Msg, k \in 0..MaxRetries :
             /\ m = body[c].msg /\ k = Attempt(c)
             /\ m \notin Malformed /\ Published(m)
             /\ \A j \in 0..(k - 1) : FailedAt(m, j) /\ Allowed(m, j)
<1>1. TaskOK(s, c)
  BY DEF IInv
<1>2. body[c] # None /\ body[c].persistent /\ body[c].msg \notin Malformed
  BY <1>1 DEF TaskOK
<1>3. body[c].msg \in Msg /\ Earned(body[c]) /\ Attempt(c) \in 0..MaxRetries
  BY <1>2, BodyType, AttemptInLimit
<1>4. \A j \in 0..(Attempt(c) - 1) : FailedAt(body[c].msg, j) /\ Allowed(body[c].msg, j)
  BY <1>2, <1>3 DEF Earned, Attempt
<1> QED BY <1>2, <1>3, <1>4 DEF Published

\* A handler's success is one of the promise.
LEMMA OkPromise ==
    ASSUME IInv, NEW s \in Session, NEW c \in Copy, HandlerOk(s, c)
    PROVE  \E m \in Msg : Promise!Succeed(m)
<1>1. pc[s][c] = "handling" /\ UNCHANGED <<place, body>>
  BY DEF HandlerOk, HandlerReturns, brokerVars
<1>2. PICK m \in Msg, k \in 0..MaxRetries :
        /\ m = body[c].msg /\ m \notin Malformed /\ Published(m)
        /\ calls' = calls \cup {[msg |-> m, attempt |-> k, ok |-> TRUE]}
  BY <1>1, HandlerHas DEF HandlerOk, HandlerReturns
<1>3. \A x : Handled(x)' <=> (Handled(x) \/ x = m)
  <2>1. PICK r : r = [msg |-> m, attempt |-> k, ok |-> TRUE]
    OBVIOUS
  <2>2. r.msg = m /\ r.ok
    BY <2>1, Zenon
  <2>3. \A call : call \in calls' <=> (call \in calls \/ call = r)
    BY <1>2, <2>1
  <2> QED BY <2>2, <2>3 DEF Handled
<1>4. {x \in Msg : Handled(x)}' = {x \in Msg : Handled(x)} \cup {m}
  BY <1>3
<1>5. \A x, j : FailedAt(x, j)' <=> FailedAt(x, j)
  BY <1>2 DEF FailedAt
<1>6. [x \in Msg |-> FailuresOf(x)]' = [x \in Msg |-> FailuresOf(x)]
  BY <1>5 DEF FailuresOf
<1>7. Promise!Succeed(m)
  BY <1>1, <1>2, <1>4, <1>6, CallFates DEF Promise!Succeed
<1> QED BY <1>7

\* A handler's failure comes at the attempt that is next, whatever its task does
\* about it.
LEMMA ErrPromise ==
    ASSUME IInv, NEW s \in Session, NEW c \in Copy, HandlerReturns(s, c, FALSE)
    PROVE  \E m \in Msg, k \in 0..MaxRetries : Promise!Fail(m, k)
<1>1. pc[s][c] = "handling" /\ UNCHANGED <<place, body>>
  BY DEF HandlerReturns, brokerVars
<1>2. PICK m \in Msg, k \in 0..MaxRetries :
        /\ m = body[c].msg /\ m \notin Malformed /\ Published(m)
        /\ \A j \in 0..(k - 1) : FailedAt(m, j) /\ Allowed(m, j)
        /\ calls' = calls \cup {[msg |-> m, attempt |-> k, ok |-> FALSE]}
  BY <1>1, HandlerHas DEF HandlerReturns
<1>3. {x \in Msg : Handled(x)}' = {x \in Msg : Handled(x)}
  BY <1>2 DEF Handled
<1>4. \A x, j : FailedAt(x, j)' <=> (FailedAt(x, j) \/ (x = m /\ j = k))
  BY <1>2 DEF FailedAt
<1>5. \A x : FailuresOf(x)' = IF x = m THEN FailuresOf(x) \cup {k} ELSE FailuresOf(x)
  BY <1>2, <1>4 DEF FailuresOf
<1>6. [x \in Msg |-> FailuresOf(x)]'
          = [[x \in Msg |-> FailuresOf(x)] EXCEPT ![m] = @ \cup {k}]
  BY <1>2, <1>5
<1>7. ASSUME NEW j \in 0..(k - 1)
      PROVE  j \in FailuresOf(m)
             /\ ~(~HasRetry \/ j + 1 > EnvMax[m] \/ RetryDelay(j) = None)
  <2>1. j \in 0..MaxRetries
    BY <1>2, BrokerAssumption
  <2>2. FailedAt(m, j) /\ Allowed(m, j) /\ EnvMax[m] \in Nat
    BY <1>2, EnvelopeAssumption
  <2> QED BY <2>1, <2>2 DEF FailuresOf, Allowed
<1>8. Promise!Fail(m, k)
  BY <1>1, <1>2, <1>3, <1>6, <1>7, CallFates DEF Promise!Fail
<1> QED BY <1>8

-----------------------------------------------------------------------------
(* Every step is a step of the promise. *)

\* A task step is a handler's return or moves no copy but by a closing channel.
LEMMA TaskPromise ==
    ASSUME IInv, IInv', NEW s \in Session, NEW c \in Copy, TaskStep(s, c)
    PROVE  Step
<1>1. CASE HandlerOk(s, c)
  BY <1>1, OkPromise DEF Step, Promise!Next
<1>2. CASE HandlerErr(s, c) \/ CalculateDelayPanics(s, c) \/ RetrySerializeFails(s, c)
  <2>1. HandlerReturns(s, c, FALSE)
    BY <1>2 DEF HandlerErr, CalculateDelayPanics, RetrySerializeFails
  <2> QED BY <2>1, ErrPromise DEF Step, Promise!Next
<1>3. CASE CreateRetryQueue(s, c)
  <2>1. CASE UNCHANGED <<place, body, calls>>
    BY <2>1, StillPromise
  <2>2. CASE Close({s}) /\ calls' = calls
    <3>1. UNCHANGED <<body, calls>> /\ \A d \in Copy : place'[d] = Requeued({s})[d]
      BY <2>2 DEF Close
    <3> QED BY <3>1, ClosePromise
  <2> QED BY <1>3, <2>1, <2>2 DEF CreateRetryQueue, QueueDeclare, brokerVars
<1>4. CASE \/ Dispatch(s, c) \/ CreateDelayExchange(s, c) \/ SendRetry(s, c)
           \/ AckDelivery(s, c) \/ NackDelivery(s, c)
           \/ OpenDlqChannel(s, c) \/ DeclareDlq(s, c) \/ PublishDlq(s, c)
           \/ DlqPayloadPanics(s, c) \/ DlqCallFails(s, c)
  <2>1. UNCHANGED <<place, body, calls>>
    BY <1>4 DEF Dispatch, CreateDelayExchange, SendRetry, BasicPublish, AckDelivery,
       NackDelivery, Settle, OpenDlqChannel, DeclareDlq, PublishDlq, DlqPayloadPanics,
       DlqCallFails, brokerVars
  <2> QED BY <2>1, StillPromise
<1> QED BY <1>1, <1>2, <1>3, <1>4 DEF TaskStep, SharedTaskStep

\* The broker's own steps: only publishes and settlements change a fate.
LEMMA BrokerPromise ==
    ASSUME IInv, IInv',
           \/ \E s \in Session, c \in Copy : BrokerStep(s, c)
           \/ \E c \in Copy : RetryDue(c) \/ DlqTtlPasses(c)
    PROVE  Step
<1>t. place \in [Copy -> Places]
  BY DEF IInv, TypeOK, BrokerTypeOK
<1>1. CASE \E s \in Session, c \in Copy : Deliver(s, c)
  <2>1. PICK c \in Copy : /\ UNCHANGED <<body, calls>> /\ place[c] = "ready"
                          /\ place' = [place EXCEPT ![c] = "unacked"]
    BY <1>1 DEF Deliver, Send
  <2> QED BY <2>1, <1>t, PlacesPromise DEF Live
<1>2. CASE \E s \in Session, c \in Copy : BrokerRecvPublish(s, c)
  BY <1>2, RecvPublishPromise DEF Step
<1>3. CASE \E s \in Session, c \in Copy : BrokerRecvDlq(s, c)
  BY <1>3, RecvDlqPromise DEF Step, Promise!Next
<1>4. CASE \E s \in Session, c \in Copy : BrokerRecvSettle(s, c)
  <2>1. PICK s \in Session, c \in Copy : BrokerRecvSettle(s, c)
    BY <1>4
  <2>2. /\ UNCHANGED <<body, calls>> /\ owner[c] = s
        /\ place' = [place EXCEPT ![c] = IF outSettle[s][c] = "ack" THEN "acked" ELSE "dropped"]
    BY <2>1 DEF BrokerRecvSettle, RecvSettle
  <2>3. /\ place[c] = "unacked" /\ place'[c] \in {"acked", "dropped"}
        /\ \A d \in Copy \ {c} : place'[d] = place[d]
    BY <2>2, <1>t, BrokerAssumption DEF IInv, CopyOK
  <2> QED BY <2>2, <2>3, PlacesPromise DEF Live
<1>5. CASE \E c \in Copy : RetryDue(c)
  <2>1. PICK c \in Copy : RetryDue(c)
    BY <1>5
  <2>2. /\ UNCHANGED <<body, calls>> /\ place[c] = "delayed"
        /\ place' = [place EXCEPT ![c] = "ready"]
    BY <2>1 DEF RetryDue, ExpireRetry, IInv, Durability
  <2> QED BY <2>2, <1>t, PlacesPromise DEF Live
<1>6. CASE \E c \in Copy : DlqTtlPasses(c)
  <2>1. PICK c \in Copy : /\ UNCHANGED <<body, calls>> /\ place[c] = "dlq"
                          /\ place' = [place EXCEPT ![c] = "expired"]
    BY <1>6 DEF DlqTtlPasses, ExpireDlq
  <2> QED BY <2>1, <1>t, PlacesPromise DEF Live
<1> QED BY <1>1, <1>2, <1>3, <1>4, <1>5, <1>6 DEF BrokerStep

\* Starts and faults release at most dead letters that a restart loses.
LEMMA FaultPromise ==
    ASSUME IInv, IInv', Fault \/ \E s \in Session : StartConsumerChannel(s)
    PROVE  Step
<1>1. CASE \/ \E s \in Session : StartConsumerChannel(s) \/ StartFails(s)
           \/ \E s \in Session, c \in Copy : HandlerPanics(s, c) \/ LoseDlqFrame(s, c)
  <2>1. UNCHANGED <<place, body, calls>>
    BY <1>1 DEF StartConsumerChannel, StartFails, HandlerPanics, LoseDlqFrame, brokerVars, vars
  <2> QED BY <2>1, StillPromise
<1>2. CASE \E s \in Session : LoseConnection(s) \/ Crash(s)
  <2>1. PICK s \in Session : Close({s}) /\ calls' = calls
    BY <1>2 DEF LoseConnection, Crash, ConnectionLost, ProcessCrash
  <2>2. UNCHANGED <<body, calls>> /\ \A d \in Copy : place'[d] = Requeued({s})[d]
    BY <2>1 DEF Close
  <2> QED BY <2>2, ClosePromise
<1>3. CASE Restart
  <2> DEFINE S == {s \in Session : chan[s] = "open"}
  <2>1. /\ UNCHANGED <<body, calls>>
        /\ place' = [c \in Copy |-> IF c \in Transient THEN "lost" ELSE Requeued(S)[c]]
    BY <1>3 DEF Restart, BrokerRestarts, BrokerRestart
  <2>2. ASSUME NEW c \in Transient
        PROVE  place[c] = "dlq"
    <3>1. c \in Copy /\ ~body[c].persistent
          /\ place[c] \in {"ready", "unacked", "delayed", "dlq"}
      BY DEF Transient
    <3> QED BY <3>1 DEF IInv, CopyOK
  <2>3. S \in SUBSET Session
    OBVIOUS
  <2> HIDE DEF S
  <2> QED BY <2>1, <2>2, <2>3, ClosePromise
<1> QED BY <1>1, <1>2, <1>3 DEF Fault

LEMMA NextPromise == IInv /\ IInv' /\ [Next]_envVars => Step
<1> SUFFICES ASSUME IInv, IInv', [Next]_envVars PROVE Step
  OBVIOUS
<1>1. CASE \E m \in Msg : Publish(m)
  BY <1>1, PublishPromise DEF Step, Promise!Next
<1>2. CASE \E s \in Session, c \in Copy : TaskStep(s, c)
  BY <1>2, TaskPromise
<1>3. CASE UNCHANGED envVars
  BY <1>3, StillPromise DEF envVars, vars
<1> QED BY <1>1, <1>2, <1>3, BrokerPromise, FaultPromise DEF Next

LEMMA InitPromise == Init => Promise!Init
<1> SUFFICES ASSUME Init PROVE Promise!Init
  OBVIOUS
<1>1. body = [c \in Copy |-> None] /\ calls = {}
  BY DEF Init, ConsumerInit, BrokerInit
<1>2. \A m \in Msg : ~Published(m) /\ ~Held(m) /\ ~Handled(m) /\ ~DeadLettered(m)
  BY <1>1 DEF Published, Held, Handled, DeadLettered
<1>3. \A m \in Msg : FailuresOf(m) = {}
  BY <1>1 DEF FailuresOf, FailedAt
<1>4. [m \in Msg |-> FailuresOf(m)] = [m \in Msg |-> {}]
  BY <1>3
<1> QED BY <1>2, <1>4 DEF Promise!Init

\* consume_envelopes() keeps the promise of AtLeastOnce with a best-effort dead
\* letter, for every policy, limit, topology, number of sessions and
\* interleaving of faults.
THEOREM PromiseKept == Spec => KeepsPromise
<1>1. Init => Promise!Init
  BY InitPromise
<1>2. IInv /\ IInv' /\ [Next]_envVars => [Promise!Next]_(Promise!promise)
  BY NextPromise DEF Step
<1> QED BY <1>1, <1>2, Invariance, PTL DEF Spec, KeepsPromise, Promise!Spec
=============================================================================
