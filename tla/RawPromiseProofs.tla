-------------------------- MODULE RawPromiseProofs --------------------------
(***************************************************************************)
(* RawConsumer implements AtLeastOnce, for any number of messages, copies, *)
(* sessions and retries, with and without a retry policy: the retries are  *)
(* earned, and every step is a step of the promise or leaves it alone.     *)
(***************************************************************************)
EXTENDS RawConsumerProofs

-----------------------------------------------------------------------------
(* Failures are never forgotten. *)

\* What was earned before a step is earned after it: calls only grow.
LEMMA EarnedGrows ==
    ASSUME calls \subseteq calls', NEW m, NEW k
    PROVE  /\ EarnedTo(m, k) => EarnedTo(m, k)'
           /\ Spent(m) => Spent(m)'
<1>1. EarnedTo(m, k) => EarnedTo(m, k)'
  BY DEF EarnedTo, FailedAt, Retries, RetryDelay
<1>2. ASSUME Spent(m) PROVE Spent(m)'
  <2>1. PICK j \in 0..MaxRetries : Exhausted(j) /\ FailedAt(m, j) /\ EarnedTo(m, j)
    BY <1>2 DEF Spent
  <2>2. FailedAt(m, j)' /\ EarnedTo(m, j)'
    BY <2>1 DEF EarnedTo, FailedAt, Retries, RetryDelay
  <2> QED BY <2>1, <2>2 DEF Spent, Exhausted, RetryDelay
<1> QED BY <1>1, <1>2

\* So is what a message instance or a task has established.
LEMMA KnowledgeGrows ==
    ASSUME calls \subseteq calls', NEW b, NEW dead, NEW step
    PROVE  /\ CopyEarned(b, dead) => CopyEarned(b, dead)'
           /\ TaskEarned(step, b) => TaskEarned(step, b)'
<1>1. EarnedTo(b.msg, ReadRetryAttempt(b)) => EarnedTo(b.msg, ReadRetryAttempt(b))'
  BY EarnedGrows
<1>2. Spent(b.msg) => Spent(b.msg)'
  BY EarnedGrows
<1>3. FailedAt(b.msg, ReadRetryAttempt(b)) => FailedAt(b.msg, ReadRetryAttempt(b))'
  BY DEF FailedAt, ReadRetryAttempt
<1> QED BY <1>1, <1>2, <1>3 DEF CopyEarned, TaskEarned

\* A step keeps Earned when whatever it adds or changes is earned.
LEMMA EarnedStep ==
    ASSUME Earned, calls \subseteq calls',
           \A call \in calls' : call \in calls \/ call.attempt <= MaxRetries,
           \A c \in Copy : body'[c] # None =>
               \/ /\ body'[c] = body[c]
                  /\ place'[c] \in {"dlq", "expired"} => place[c] \in {"dlq", "expired"}
               \/ \E b, dead : /\ CopyEarned(b, dead) /\ body'[c] = b
                               /\ dead = (place'[c] \in {"dlq", "expired"}),
           \A s \in Session, c \in Copy :
               \/ pc'[s][c] = pc[s][c] /\ body'[c] = body[c]
               \/ pc'[s][c] \in {"none", "buffered", "ack", "nack"}
               \/ TaskEarned(pc[s][c], body[c])',
           \A s \in Session, c \in Copy : outPub'[s][c] # None =>
               \/ outPub'[s][c] = outPub[s][c]
               \/ \E f : /\ CopyEarned(f.body, f.to = Dlq)
                         /\ outPub'[s][c] = f
    PROVE  Earned'
<1>1. ASSUME NEW c \in Copy, body'[c] # None
      PROVE  CopyEarned(body[c], place[c] \in {"dlq", "expired"})'
  <2>1. CASE /\ body'[c] = body[c]
             /\ place'[c] \in {"dlq", "expired"} => place[c] \in {"dlq", "expired"}
    <3>1. CopyEarned(body[c], place[c] \in {"dlq", "expired"})
      BY <1>1, <2>1 DEF Earned
    <3>2. CopyEarned(body[c], place'[c] \in {"dlq", "expired"})
      BY <3>1, <2>1 DEF CopyEarned
    <3> QED BY <3>2, <2>1, KnowledgeGrows
  <2>2. CASE \E b, dead : /\ CopyEarned(b, dead) /\ body'[c] = b
                          /\ dead = (place'[c] \in {"dlq", "expired"})
    BY <2>2, KnowledgeGrows
  <2> QED BY <1>1, <2>1, <2>2
<1>2. ASSUME NEW s \in Session, NEW c \in Copy
      PROVE  TaskEarned(pc[s][c], body[c])'
  <2>1. CASE pc'[s][c] = pc[s][c] /\ body'[c] = body[c]
    <3>1. TaskEarned(pc[s][c], body[c])
      BY DEF Earned
    <3> QED BY <3>1, <2>1, KnowledgeGrows
  <2>2. CASE pc'[s][c] \in {"none", "buffered", "ack", "nack"}
    BY <2>2 DEF TaskEarned
  <2> QED BY <2>1, <2>2
<1>3. ASSUME NEW s \in Session, NEW c \in Copy, outPub'[s][c] # None
      PROVE  CopyEarned(outPub[s][c].body, outPub[s][c].to = Dlq)'
  <2>1. CASE outPub'[s][c] = outPub[s][c]
    <3>1. CopyEarned(outPub[s][c].body, outPub[s][c].to = Dlq)
      BY <1>3, <2>1 DEF Earned
    <3> QED BY <3>1, <2>1, KnowledgeGrows
  <2>2. CASE \E f : CopyEarned(f.body, f.to = Dlq) /\ outPub'[s][c] = f
    BY <2>2, KnowledgeGrows
  <2> QED BY <1>3, <2>1, <2>2
<1>4. \A call \in calls' : call.attempt <= MaxRetries
  BY DEF Earned
<1> QED BY <1>1, <1>2, <1>3, <1>4 DEF Earned

-----------------------------------------------------------------------------
(* The shapes most actions have. *)

\* A task goes on, and nothing new appears in the broker or on its way.
LEMMA MoveEarned ==
    ASSUME IInv, Earned, NEW s \in Session, NEW c \in Copy, NEW step,
           Goto(s, c, step), TaskEarned(step, body[c]),
           body' = body, calls' = calls,
           \A d \in Copy : place'[d] \in {"dlq", "expired"} => place[d] \in {"dlq", "expired"},
           \A t \in Session, d \in Copy : outPub'[t][d] # None =>
               \/ outPub'[t][d] = outPub[t][d]
               \/ \E f : /\ CopyEarned(f.body, f.to = Dlq)
                         /\ outPub'[t][d] = f
    PROVE  Earned'
<1>1. /\ pc'[s][c] = step
      /\ \A t \in Session, d \in Copy : <<t, d>> # <<s, c>> => pc'[t][d] = pc[t][d]
  BY DEF Goto, IInv, TypeOK, ConsumerTypeOK
<1>2. TaskEarned(step, body[c])'
  BY KnowledgeGrows
<1>3. \A t \in Session, d \in Copy :
        \/ pc'[t][d] = pc[t][d] /\ body'[d] = body[d]
        \/ TaskEarned(pc[t][d], body[d])'
  <2> SUFFICES ASSUME NEW t \in Session, NEW d \in Copy
               PROVE  \/ pc'[t][d] = pc[t][d] /\ body'[d] = body[d]
                      \/ TaskEarned(pc[t][d], body[d])'
    OBVIOUS
  <2>1. CASE <<t, d>> = <<s, c>>
    <3>1. pc'[t][d] = step /\ body'[d] = body[c]
      BY <2>1, <1>1
    <3>2. TaskEarned(step, body[c])'
      BY <1>2
    <3> QED BY <3>1, <3>2 DEF TaskEarned
  <2>2. CASE <<t, d>> # <<s, c>>
    BY <2>2, <1>1
  <2> QED BY <2>1, <2>2
<1> QED BY <1>3, EarnedStep

\* Tasks stay where they are or settle or end, and nothing new appears.
LEMMA QuietEarned ==
    ASSUME Earned, body' = body, calls' = calls,
           \A d \in Copy : place'[d] \in {"dlq", "expired"} => place[d] \in {"dlq", "expired"},
           \A t \in Session, d \in Copy :
               pc'[t][d] = pc[t][d] \/ pc'[t][d] \in {"none", "buffered", "ack", "nack"},
           \A t \in Session, d \in Copy : outPub'[t][d] \in {outPub[t][d], None}
    PROVE  Earned'
BY EarnedStep

\* Channels end: their deliveries are ready again and their frames are gone.
LEMMA CloseEarned ==
    ASSUME IInv, Earned, NEW S \in SUBSET Session, CloseChannels(S), body' = body, calls' = calls,
           \A d \in Copy : place'[d] \in {Requeued(S)[d], "lost"},
           \A t \in Session, d \in Copy :
               pc'[t][d] = pc[t][d] \/ pc'[t][d] \in {"none", "buffered", "ack", "nack"}
    PROVE  Earned'
<1>1. \A d \in Copy : place'[d] \in {"dlq", "expired"} => place[d] \in {"dlq", "expired"}
  BY DEF Requeued
<1>2. \A t \in Session, d \in Copy : outPub'[t][d] \in {outPub[t][d], None}
  BY DEF CloseChannels
<1> QED BY <1>1, <1>2, QuietEarned

\* A message instance appears that was earned.
LEMMA EnqueueEarned ==
    ASSUME IInv, Earned, NEW p \in {"ready", "delayed", "dlq"}, NEW b \in Body, Enqueue(p, b),
           CopyEarned(b, p = "dlq"), UNCHANGED <<pc, calls>>,
           \A t \in Session, d \in Copy : outPub'[t][d] \in {outPub[t][d], None}
    PROVE  Earned'
<1>p. p \in Places BY DEF Places
<1>1. PICK new \in Copy :
      /\ body[new] = None
      /\ place'[new] = p /\ body'[new] = b
      /\ \A d \in Copy \ {new} : body'[d] = body[d] /\ place'[d] = place[d]
  BY <1>p, EnqueueFacts
<1>2. \A t \in Session : pc[t][new] = "none"
  BY <1>1, ActiveHasBody
<1>3. \A t \in Session, d \in Copy :
        \/ pc'[t][d] = pc[t][d] /\ body'[d] = body[d]
        \/ pc'[t][d] = "none"
  BY <1>1, <1>2
<1>4. ASSUME NEW d \in Copy
      PROVE  \/ body'[d] = body[d] /\ place'[d] = place[d]
             \/ \E x, dead : /\ CopyEarned(x, dead) /\ body'[d] = x
                             /\ dead = (place'[d] \in {"dlq", "expired"})
  <2>1. (p = "dlq") = (p \in {"dlq", "expired"})
    OBVIOUS
  <2>2. CopyEarned(b, p \in {"dlq", "expired"})
    BY <2>1
  <2> QED BY <2>2, <1>1
<1> QED BY <1>3, <1>4, EarnedStep

-----------------------------------------------------------------------------
(* The tasks. *)

\* The attempt of a copy is one the policy has a delay before, so it is not
\* beyond max_retries.
LEMMA AttemptInPolicy ==
    ASSUME IInv, Earned, NEW c \in Copy, body[c] # None
    PROVE  /\ body[c] \in Body
           /\ Attempt(c) \in 0..MaxRetries
           /\ EarnedTo(body[c].msg, Attempt(c))
<1>1. body[c] \in Body /\ Attempt(c) \in Nat
  BY BodyType
<1>2. EarnedTo(body[c].msg, Attempt(c))
  BY DEF Earned, CopyEarned, Attempt
<1>3. CASE Attempt(c) = 0
  BY <1>1, <1>2, <1>3, BrokerAssumption
<1>4. CASE Attempt(c) # 0
  <2>1. Attempt(c) - 1 \in 0..(Attempt(c) - 1)
    BY <1>1, <1>4
  <2>2. Retries(Attempt(c) - 1)
    BY <1>2, <2>1 DEF EarnedTo
  <2>3. Attempt(c) - 1 < MaxRetries
    BY <2>2 DEF Retries, RetryDelay
  <2> QED BY <1>1, <1>2, <2>3, BrokerAssumption
<1> QED BY <1>3, <1>4

\* A payload that reaches the handler was decoded.
LEMMA DispatchEarned ==
    ASSUME IInv, Earned, NEW s \in Session, NEW c \in Copy, Dispatch(s, c)
    PROVE  Earned'
<1> DEFINE step == IF body[c].msg \in Malformed THEN "nack" ELSE "handling"
<1>1. Goto(s, c, step) /\ UNCHANGED <<place, body, outPub, calls>>
  BY DEF Dispatch, brokerVars
<1>2. TaskEarned(step, body[c])
  BY DEF TaskEarned
<1> HIDE DEF step
<1> QED BY <1>1, <1>2, MoveEarned

\* A failed attempt earns the task its retry or its dead letter, or ends it.
LEMMA HandlerEarned ==
    ASSUME IInv, Earned, NEW s \in Session, NEW c \in Copy,
           HandlerOk(s, c) \/ HandlerErr(s, c) \/ CalculateDelayPanics(s, c)
    PROVE  Earned'
<1> DEFINE call(ok) == [msg |-> body[c].msg, attempt |-> Attempt(c), ok |-> ok]
           step == CASE Retries(Attempt(c)) -> "declare"
                     [] Exhausted(Attempt(c)) -> "declare_dlq"
                     [] OTHER -> "nack"
<1>1. /\ pc[s][c] = "handling" /\ UNCHANGED <<place, body, outPub>>
      /\ \/ calls' = calls \cup {call(TRUE)} /\ Goto(s, c, "ack")
         \/ calls' = calls \cup {call(FALSE)} /\ Goto(s, c, step)
         \/ calls' = calls \cup {call(FALSE)} /\ Goto(s, c, "none")
  BY DEF HandlerOk, HandlerErr, CalculateDelayPanics, HandlerReturns, brokerVars
<1>2. body[c] # None
  BY <1>1, ActiveHasBody
<1>3. Attempt(c) \in 0..MaxRetries /\ EarnedTo(body[c].msg, Attempt(c))
  BY <1>2, AttemptInPolicy
<1>4. /\ calls \subseteq calls'
      /\ \A x \in calls' : x \in calls \/ x.attempt <= MaxRetries
  BY <1>1, <1>3, BrokerAssumption
<1>5. \A t \in Session, d \in Copy : <<t, d>> # <<s, c>> => pc'[t][d] = pc[t][d]
  BY <1>1 DEF Goto, IInv, TypeOK, ConsumerTypeOK
<1>6. pc'[s][c] = "ack" \/ TaskEarned(pc[s][c], body[c])'
  <2>1. CASE Goto(s, c, "ack")
    BY <2>1 DEF Goto, IInv, TypeOK, ConsumerTypeOK
  <2>2. CASE calls' = calls \cup {call(FALSE)} /\ Goto(s, c, step)
    <3>1. pc'[s][c] = step
      BY <2>2 DEF Goto, IInv, TypeOK, ConsumerTypeOK
    <3>2. FailedAt(body[c].msg, Attempt(c))'
      BY <2>2, <1>1 DEF FailedAt, Attempt, ReadRetryAttempt
    <3>3. EarnedTo(body[c].msg, Attempt(c))'
      BY <1>1, <1>3, <1>4 DEF EarnedTo, FailedAt, Attempt, ReadRetryAttempt, Retries, RetryDelay
    <3>4. Attempt(c)' = Attempt(c)
      BY <1>1 DEF Attempt, ReadRetryAttempt
    <3>5. Exhausted(Attempt(c)) => Spent(body[c].msg)'
      BY <1>3, <3>2, <3>3, <3>4 DEF Spent, Exhausted, RetryDelay
    <3>6. \/ step = "declare"
          \/ step = "declare_dlq" /\ Exhausted(Attempt(c))
          \/ step = "nack"
      OBVIOUS
    <3> HIDE DEF step
    <3> QED BY <3>1, <3>2, <3>5, <3>6 DEF TaskEarned, Attempt
  <2>3. CASE Goto(s, c, "none")
    BY <2>3 DEF Goto, TaskEarned, IInv, TypeOK, ConsumerTypeOK
  <2> QED BY <1>1, <2>1, <2>2, <2>3
<1>7. \A t \in Session, d \in Copy :
        \/ pc'[t][d] = pc[t][d] /\ body'[d] = body[d]
        \/ pc'[t][d] = "ack"
        \/ TaskEarned(pc[t][d], body[d])'
  <2> SUFFICES ASSUME NEW t \in Session, NEW d \in Copy
               PROVE  \/ pc'[t][d] = pc[t][d] /\ body'[d] = body[d]
                      \/ pc'[t][d] = "ack"
                      \/ TaskEarned(pc[t][d], body[d])'
    OBVIOUS
  <2>1. CASE <<t, d>> = <<s, c>>
    BY <2>1, <1>6
  <2>2. CASE <<t, d>> # <<s, c>>
    BY <2>2, <1>1, <1>5
  <2> QED BY <2>1, <2>2
<1> HIDE DEF step, call
<1> QED BY <1>1, <1>4, <1>7, EarnedStep

\* A declaration, whatever its outcome.
LEMMA QueueDeclareEarned ==
    ASSUME IInv, Earned, NEW s \in Session, NEW c \in Copy, NEW q, NEW ttl,
           NEW next, NEW failed \in {"ack", "nack"}, TaskEarned(next, body[c]),
           QueueDeclare(s, c, q, ttl, next, failed)
    PROVE  Earned'
<1>1. TaskEarned(failed, body[c])
  BY DEF TaskEarned
<1>2. CASE /\ Goto(s, c, next)
           /\ UNCHANGED <<place, body, owner, chan, outPub, outSettle, bound, calls>>
  BY <1>2, MoveEarned
<1>3. CASE Close({s}) /\ Goto(s, c, failed) /\ UNCHANGED calls
  <2>1. \A d \in Copy : place'[d] \in {"dlq", "expired"} => place[d] \in {"dlq", "expired"}
    BY <1>3 DEF Close, Requeued
  <2>2. \A t \in Session, d \in Copy : outPub'[t][d] # None => outPub'[t][d] = outPub[t][d]
    BY <1>3 DEF Close, CloseChannels
  <2>3. body' = body
    BY <1>3 DEF Close
  <2> QED BY <1>1, <1>3, <2>1, <2>2, <2>3, MoveEarned
<1>4. CASE Goto(s, c, failed) /\ UNCHANGED <<brokerVars, calls>>
  BY <1>1, <1>4, MoveEarned DEF brokerVars
<1> QED BY <1>2, <1>3, <1>4 DEF QueueDeclare

\* The declarations of the retry path and of the dead letter path.
LEMMA DeclareEarned ==
    ASSUME IInv, Earned, NEW s \in Session, NEW c \in Copy,
           CreateRetryQueue(s, c) \/ CreateDelayExchange(s, c) \/ CreateDlq(s, c)
    PROVE  Earned'
<1>1. TaskEarned(pc[s][c], body[c])
  BY DEF Earned
<1>2. CASE CreateRetryQueue(s, c)
  <2>1. TaskEarned("publish", body[c])
    BY <1>1, <1>2 DEF CreateRetryQueue, TaskEarned
  <2> QED BY <1>2, <2>1, QueueDeclareEarned DEF CreateRetryQueue
<1>3. CASE CreateDelayExchange(s, c)
  <2> DEFINE step == IF chan[s] = "open" THEN "publish" ELSE "nack"
  <2>1. Goto(s, c, step) /\ UNCHANGED <<place, body, outPub, calls>>
    BY <1>3 DEF CreateDelayExchange, brokerVars
  <2>2. TaskEarned(step, body[c])
    BY <1>1, <1>3 DEF CreateDelayExchange, TaskEarned
  <2> HIDE DEF step
  <2> QED BY <2>1, <2>2, MoveEarned
<1>4. CASE CreateDlq(s, c)
  <2>1. TaskEarned("publish_dlq", body[c])
    BY <1>1, <1>4 DEF CreateDlq, TaskEarned
  <2> QED BY <1>4, <2>1, QueueDeclareEarned DEF CreateDlq
<1> QED BY <1>2, <1>3, <1>4

\* A publish of a frame that was earned.
LEMMA BasicPublishEarned ==
    ASSUME IInv, Earned, NEW s \in Session, NEW c \in Copy, NEW f, NEW failed \in {"ack", "nack"},
           CopyEarned(f.body, f.to = Dlq), BasicPublish(s, c, f, "ack", failed)
    PROVE  Earned'
<1>1. TaskEarned("ack", body[c]) /\ TaskEarned(failed, body[c])
  BY DEF TaskEarned
<1>2. CASE /\ outPub' = [outPub EXCEPT ![s][c] = f] /\ Goto(s, c, "ack")
           /\ UNCHANGED <<place, body, owner, chan, outSettle, args, bound, calls>>
  <2>1. \A t \in Session, d \in Copy : outPub'[t][d] \in {outPub[t][d], f}
    BY <1>2 DEF IInv, TypeOK, BrokerTypeOK
  <2> QED BY <1>1, <1>2, <2>1, MoveEarned
<1>3. CASE Goto(s, c, failed) /\ UNCHANGED <<brokerVars, calls>>
  BY <1>1, <1>3, MoveEarned DEF brokerVars
<1> QED BY <1>2, <1>3 DEF BasicPublish

\* The retry and the dead letter carry what the delivery's attempts have earned.
LEMMA SendEarned ==
    ASSUME IInv, Earned, NEW s \in Session, NEW c \in Copy,
           SendRetry(s, c) \/ SendToDlq(s, c)
    PROVE  Earned'
<1>1. TaskEarned(pc[s][c], body[c]) /\ pc[s][c] # "none"
  BY DEF Earned, SendRetry, SendToDlq
<1>2. body[c] # None
  BY <1>1, ActiveHasBody
<1>3. Attempt(c) \in 0..MaxRetries /\ EarnedTo(body[c].msg, Attempt(c))
  BY <1>2, AttemptInPolicy
<1>4. CASE SendRetry(s, c)
  <2>1. pc[s][c] = "publish" /\ BasicPublish(s, c, RetryFrame(c), "ack", "nack")
    BY <1>4 DEF SendRetry
  <2>2. FailedAt(body[c].msg, Attempt(c)) /\ Retries(Attempt(c))
    BY <1>1, <2>1 DEF TaskEarned, Attempt, IInv, Tasks
  <2>3. EarnedTo(body[c].msg, Attempt(c) + 1)
    <3>1. ASSUME NEW j \in 0..Attempt(c) PROVE FailedAt(body[c].msg, j) /\ Retries(j)
      <4>1. CASE j = Attempt(c)
        BY <4>1, <2>2
      <4>2. CASE j # Attempt(c)
        <5>1. j \in 0..(Attempt(c) - 1)
          BY <4>2, <1>3
        <5> QED BY <5>1, <1>3 DEF EarnedTo
      <4> QED BY <4>1, <4>2
    <3>2. (Attempt(c) + 1) - 1 = Attempt(c)
      BY <1>3
    <3> QED BY <3>1, <3>2 DEF EarnedTo
  <2>4. RetryFrame(c).body.msg = body[c].msg
    BY DEF RetryFrame
  <2>5. ReadRetryAttempt(RetryFrame(c).body) = Attempt(c) + 1
    BY <1>3, BrokerAssumption DEF RetryFrame, ReadRetryAttempt
  <2>6. RetryFrame(c).to # Dlq
    BY DEF RetryFrame, RetryQueue, DelayExchange, Dlq
  <2>7. CopyEarned(RetryFrame(c).body, RetryFrame(c).to = Dlq)
    BY <2>3, <2>4, <2>5, <2>6 DEF CopyEarned
  <2> QED BY <2>1, <2>7, BasicPublishEarned
<1>5. CASE SendToDlq(s, c)
  <2>1. pc[s][c] = "publish_dlq" /\ BasicPublish(s, c, DlqFrame(c), "ack", "ack")
    BY <1>5 DEF SendToDlq
  <2>2. Spent(body[c].msg)
    BY <1>1, <2>1 DEF TaskEarned
  <2>3. DlqFrame(c).body.msg = body[c].msg /\ ReadRetryAttempt(DlqFrame(c).body) = 0
    BY DEF DlqFrame, ReadRetryAttempt
  <2>4. EarnedTo(body[c].msg, 0)
    BY DEF EarnedTo
  <2>5. CopyEarned(DlqFrame(c).body, DlqFrame(c).to = Dlq)
    BY <2>2, <2>3, <2>4 DEF CopyEarned
  <2> QED BY <2>1, <2>5, BasicPublishEarned
<1> QED BY <1>4, <1>5

-----------------------------------------------------------------------------
(* The broker, publishers and faults. *)

\* A published message starts at attempt 0, and a received frame becomes a copy
\* that was earned when it was sent.
LEMMA ArrivalEarned ==
    ASSUME IInv, Earned,
           \/ \E m \in Msg : Publish(m)
           \/ \E s \in Session, c \in Copy : BrokerRecvPublish(s, c)
    PROVE  Earned'
<1>1. CASE \E m \in Msg : Publish(m)
  <2>1. PICK m \in Msg, attempt \in FirstHeaders :
          /\ Enqueue("ready", [msg |-> m, attempt |-> attempt, persistent |-> TRUE])
          /\ UNCHANGED <<outPub, pc, calls>>
    BY <1>1 DEF Publish
  <2> DEFINE b == [msg |-> m, attempt |-> attempt, persistent |-> TRUE]
  <2>2. b \in Body
    BY ConsumerAssumption DEF Body, Header
  <2>3. ReadRetryAttempt(b) = 0
    BY <2>1, ConsumerAssumption DEF ReadRetryAttempt
  <2>4. CopyEarned(b, FALSE)
    BY <2>3 DEF CopyEarned, EarnedTo
  <2>5. CopyEarned(b, "ready" = "dlq")
    BY <2>4
  <2> HIDE DEF b
  <2>6. Enqueue("ready", b)
    BY <2>1 DEF b
  <2> QED BY <2>1, <2>2, <2>5, <2>6, EnqueueEarned
<1>2. CASE \E s \in Session, c \in Copy : BrokerRecvPublish(s, c)
  <2>1. PICK s \in Session, c \in Copy : BrokerRecvPublish(s, c)
    BY <1>2
  <2> DEFINE p == IF outPub[s][c].to = Dlq THEN "dlq" ELSE "delayed"
  <2>2. /\ outPub[s][c] # None
        /\ Enqueue(p, outPub[s][c].body)
        /\ outPub' = [outPub EXCEPT ![s][c] = None]
        /\ UNCHANGED <<pc, calls>>
    BY <2>1 DEF BrokerRecvPublish, RecvPublish
  <2>3. outPub[s][c].body \in Body
    BY <2>2 DEF IInv, TypeOK, BrokerTypeOK, Frame
  <2>4. CopyEarned(outPub[s][c].body, outPub[s][c].to = Dlq)
    BY <2>2 DEF Earned
  <2>5. (p = "dlq") = (outPub[s][c].to = Dlq) /\ p \in {"ready", "delayed", "dlq"}
    OBVIOUS
  <2>6. \A t \in Session, d \in Copy : outPub'[t][d] \in {outPub[t][d], None}
    BY <2>2 DEF IInv, TypeOK, BrokerTypeOK
  <2>7. CopyEarned(outPub[s][c].body, p = "dlq")
    BY <2>4, <2>5
  <2> HIDE DEF p
  <2> QED BY <2>2, <2>3, <2>5, <2>6, <2>7, EnqueueEarned
<1> QED BY <1>1, <1>2

\* The other steps of the broker, starts and settlements earn nothing.
LEMMA OtherEarned ==
    ASSUME IInv, Earned,
           \/ \E s \in Session : StartConsumerChannel(s) \/ StartFails(s)
           \/ \E s \in Session, c \in Copy :
                 \/ AckDelivery(s, c) \/ NackDelivery(s, c) \/ HandlerPanics(s, c)
                 \/ Deliver(s, c) \/ BrokerRecvSettle(s, c)
           \/ \E c \in Copy : RetryDue(c) \/ DlqTtlPasses(c)
    PROVE  Earned'
<1>t. /\ place \in [Copy -> Places]
      /\ pc \in [Session -> [Copy -> Steps]]
  BY DEF IInv, TypeOK, BrokerTypeOK, ConsumerTypeOK
<1>1. CASE \E s \in Session : StartConsumerChannel(s) \/ StartFails(s)
  BY <1>1, QuietEarned DEF StartConsumerChannel, StartFails
<1>2. CASE \E s \in Session, c \in Copy : AckDelivery(s, c) \/ NackDelivery(s, c)
  <2>1. PICK s \in Session, c \in Copy :
            Goto(s, c, "none") /\ UNCHANGED <<place, body, outPub, calls>>
    BY <1>2 DEF AckDelivery, NackDelivery, Settle
  <2>2. TaskEarned("none", body[c])
    BY DEF TaskEarned
  <2> QED BY <2>1, <2>2, MoveEarned
<1>3. CASE \E s \in Session, c \in Copy : HandlerPanics(s, c)
  <2>1. PICK s \in Session, c \in Copy :
            Goto(s, c, "none") /\ UNCHANGED <<place, body, outPub, calls>>
    BY <1>3 DEF HandlerPanics, brokerVars
  <2>2. TaskEarned("none", body[c])
    BY DEF TaskEarned
  <2> QED BY <2>1, <2>2, MoveEarned
<1>4. CASE \E s \in Session, c \in Copy : Deliver(s, c)
  <2>1. PICK s \in Session, c \in Copy :
            /\ Goto(s, c, "buffered") /\ UNCHANGED <<body, outPub, calls>>
            /\ place' = [place EXCEPT ![c] = "unacked"]
    BY <1>4 DEF Deliver, Send
  <2>2. TaskEarned("buffered", body[c])
    BY DEF TaskEarned
  <2> QED BY <2>1, <2>2, <1>t, MoveEarned
<1>5. CASE \E s \in Session, c \in Copy : BrokerRecvSettle(s, c)
  BY <1>5, <1>t, QuietEarned DEF BrokerRecvSettle, RecvSettle
<1>6. CASE \E c \in Copy : RetryDue(c) \/ DlqTtlPasses(c)
  BY <1>6, <1>t, QuietEarned DEF RetryDue, DlqTtlPasses, ExpireRetry, ExpireDlq
<1> QED BY <1>1, <1>2, <1>3, <1>4, <1>5, <1>6

\* Lost connections, crashes and restarts only take.
LEMMA FaultEarned ==
    ASSUME IInv, Earned,
           (\E s \in Session : ConnectionLost(s) \/ ProcessCrash(s)) \/ BrokerRestarts
    PROVE  Earned'
<1>1. CASE \E s \in Session : ConnectionLost(s)
  BY <1>1, CloseEarned DEF ConnectionLost, Close
<1>2. CASE \E s \in Session : ProcessCrash(s)
  <2>1. PICK s \in Session :
            /\ Close({s}) /\ calls' = calls
            /\ pc' = [pc EXCEPT ![s] = [c \in Copy |-> "none"]]
    BY <1>2 DEF ProcessCrash
  <2>2. \A t \in Session, d \in Copy : pc'[t][d] = pc[t][d] \/ pc'[t][d] = "none"
    BY <2>1 DEF IInv, TypeOK, ConsumerTypeOK
  <2> QED BY <2>1, <2>2, CloseEarned DEF Close
<1>3. CASE BrokerRestarts
  <2> DEFINE S == {s \in Session : chan[s] = "open"}
  <2>1. /\ CloseChannels(S) /\ UNCHANGED <<body, pc, calls>>
        /\ \A d \in Copy : place'[d] \in {Requeued(S)[d], "lost"}
    BY <1>3 DEF BrokerRestarts, BrokerRestart
  <2>2. S \in SUBSET Session
    OBVIOUS
  <2> HIDE DEF S
  <2> QED BY <2>1, <2>2, CloseEarned
<1> QED BY <1>1, <1>2, <1>3

-----------------------------------------------------------------------------
(* Retries are earned. *)

LEMMA InitEarned == Init => Earned
BY DEF Init, ConsumerInit, BrokerInit, Earned, TaskEarned

LEMMA NextEarned == IInv /\ Earned /\ [Next]_vars => Earned'
<1> SUFFICES ASSUME IInv, Earned, [Next]_vars PROVE Earned'
  OBVIOUS
<1>1. CASE \E m \in Msg : Publish(m)
  BY <1>1, ArrivalEarned
<1>2. CASE \E s \in Session : StartConsumerChannel(s)
  BY <1>2, OtherEarned
<1>3. CASE \E s \in Session, c \in Copy : TaskStep(s, c)
  BY <1>3, DispatchEarned, HandlerEarned, DeclareEarned, SendEarned, OtherEarned DEF TaskStep
<1>4. CASE \E s \in Session, c \in Copy : BrokerStep(s, c)
  BY <1>4, ArrivalEarned, OtherEarned DEF BrokerStep
<1>5. CASE \E c \in Copy : RetryDue(c) \/ DlqTtlPasses(c)
  BY <1>5, OtherEarned
<1>6. CASE Fault
  BY <1>6, OtherEarned, FaultEarned DEF Fault
<1>7. CASE UNCHANGED vars
  BY <1>7, QuietEarned DEF vars
<1> QED BY <1>1, <1>2, <1>3, <1>4, <1>5, <1>6, <1>7 DEF Next

LEMMA AlwaysEarned == Spec => []Earned
BY InitEarned, NextEarned, Invariance, PTL DEF Spec

\* A copy carries attempt k only after the handler failed the message at every
\* attempt before k, and a message is dead-lettered only after it also failed
\* at an attempt the policy does not retry.
THEOREM RetriesEarned == Spec => []EarnedRetries
<1>1. IInv /\ Earned => EarnedRetries
  <2> SUFFICES ASSUME IInv, Earned, NEW c \in Copy, body[c] # None
               PROVE  /\ \A k \in 0..(Attempt(c) - 1) : FailedAt(body[c].msg, k)
                      /\ place[c] \in {"dlq", "expired"} =>
                            \E k \in 0..MaxRetries :
                                /\ Exhausted(k)
                                /\ \A j \in 0..k : FailedAt(body[c].msg, j)
    BY DEF EarnedRetries
  <2>1. EarnedTo(body[c].msg, Attempt(c))
    BY AttemptInPolicy
  <2>2. ASSUME place[c] \in {"dlq", "expired"}
        PROVE  \E k \in 0..MaxRetries : /\ Exhausted(k)
                                        /\ \A j \in 0..k : FailedAt(body[c].msg, j)
    <3>1. Spent(body[c].msg)
      BY <2>2 DEF Earned, CopyEarned
    <3>2. PICK k \in 0..MaxRetries :
            Exhausted(k) /\ FailedAt(body[c].msg, k) /\ EarnedTo(body[c].msg, k)
      BY <3>1 DEF Spent
    <3>3. \A j \in 0..k : j = k \/ j \in 0..(k - 1)
      OBVIOUS
    <3> QED BY <3>2, <3>3 DEF EarnedTo
  <2> QED BY <2>1, <2>2 DEF EarnedTo
<1> QED BY <1>1, Invariance, AlwaysEarned, PTL

-----------------------------------------------------------------------------
(* Every step is a step of the promise. *)

Step == [Promise!Next]_(Promise!promise)

\* The state of the promise, fate by fate: it changes only as the fates of
\* single messages do.
SameFate(m) ==
    /\ Published(m)' <=> Published(m)
    /\ Held(m)' <=> Held(m)
    /\ DeadLettered(m)' <=> DeadLettered(m)

\* A step that neither moves a message between its fates nor returns from a
\* handler leaves the promise alone.
LEMMA PromiseStutters ==
    ASSUME calls' = calls, \A m \in Msg : SameFate(m)
    PROVE  UNCHANGED Promise!promise
<1>1. {m \in Msg : Published(m)}' = {m \in Msg : Published(m)}
  BY DEF SameFate
<1>2. {m \in Msg : Held(m)}' = {m \in Msg : Held(m)}
  BY DEF SameFate
<1>3. {m \in Msg : DeadLettered(m)}' = {m \in Msg : DeadLettered(m)}
  BY DEF SameFate
<1>4. {m \in Msg : Handled(m)}' = {m \in Msg : Handled(m)}
  BY DEF Handled
<1>5. [m \in Msg |-> FailuresOf(m)]' = [m \in Msg |-> FailuresOf(m)]
  BY DEF FailuresOf, FailedAt
<1> QED BY <1>1, <1>2, <1>3, <1>4, <1>5 DEF Promise!promise

\* In particular when no copy appears or changes its kind of place.
LEMMA PlacesStutter ==
    ASSUME calls' = calls, body' = body,
           \A c \in Copy : body[c] # None =>
               /\ Live(c)' = Live(c)
               /\ (place'[c] \in {"dlq", "expired"}) = (place[c] \in {"dlq", "expired"})
    PROVE  UNCHANGED Promise!promise
<1>1. ASSUME NEW m \in Msg PROVE SameFate(m)
  <2>1. Published(m)' <=> Published(m)
    BY DEF Published
  <2>2. Held(m)' <=> Held(m)
    BY DEF Held
  <2>3. DeadLettered(m)' <=> DeadLettered(m)
    BY DEF DeadLettered
  <2> QED BY <2>1, <2>2, <2>3 DEF SameFate
<1> QED BY <1>1, PromiseStutters

\* What an arriving copy changes.
LEMMA ArrivalFates ==
    ASSUME IInv, NEW p \in {"ready", "delayed", "dlq"}, NEW b \in Body, Enqueue(p, b), NEW m
    PROVE  /\ Published(m)' <=> (Published(m) \/ m = b.msg)
           /\ Held(m)' <=> (Held(m) \/ m = b.msg)
           /\ DeadLettered(m)' <=> (DeadLettered(m) \/ (p = "dlq" /\ m = b.msg))
<1>p. p \in Places BY DEF Places
<1>b. b # None BY BodyAssumption
<1>1. PICK new \in Copy :
      /\ body[new] = None
      /\ place'[new] = p /\ body'[new] = b
      /\ \A d \in Copy \ {new} : body'[d] = body[d] /\ place'[d] = place[d]
  BY <1>p, EnqueueFacts
<1>2. Published(m)' <=> (Published(m) \/ m = b.msg)
  BY <1>1, <1>b DEF Published
<1>3. Held(m)' <=> (Held(m) \/ m = b.msg)
  BY <1>1, <1>b DEF Held, Live
<1>4. DeadLettered(m)' <=> (DeadLettered(m) \/ (p = "dlq" /\ m = b.msg))
  BY <1>1, <1>b DEF DeadLettered
<1> QED BY <1>2, <1>3, <1>4

\* A publisher's message is accepted.
LEMMA PublishPromise ==
    ASSUME IInv, NEW m \in Msg, Publish(m)
    PROVE  Promise!Accept(m)
<1>1. PICK attempt \in FirstHeaders :
        /\ ~Published(m) /\ calls' = calls
        /\ Enqueue("ready", [msg |-> m, attempt |-> attempt, persistent |-> TRUE])
  BY DEF Publish
<1> DEFINE b == [msg |-> m, attempt |-> attempt, persistent |-> TRUE]
<1>2. b \in Body /\ b.msg = m
  BY ConsumerAssumption DEF Body, Header
<1>3. Enqueue("ready", b)
  BY <1>1
<1> HIDE DEF b
<1>4. \A x \in Msg : /\ Published(x)' <=> (Published(x) \/ x = m)
                     /\ Held(x)' <=> (Held(x) \/ x = m)
                     /\ DeadLettered(x)' <=> DeadLettered(x)
  BY <1>2, <1>3, ArrivalFates
<1>5. {x \in Msg : Published(x)}' = {x \in Msg : Published(x)} \cup {m}
  BY <1>4
<1>6. {x \in Msg : Held(x)}' = {x \in Msg : Held(x)} \cup {m}
  BY <1>4
<1>7. {x \in Msg : DeadLettered(x)}' = {x \in Msg : DeadLettered(x)}
  BY <1>4
<1>8. /\ {x \in Msg : Handled(x)}' = {x \in Msg : Handled(x)}
      /\ [x \in Msg |-> FailuresOf(x)]' = [x \in Msg |-> FailuresOf(x)]
  BY <1>1 DEF Handled, FailuresOf, FailedAt
<1> QED BY <1>1, <1>5, <1>6, <1>7, <1>8 DEF Promise!Accept

\* A handler call moves nothing.
LEMMA CallFates ==
    ASSUME UNCHANGED <<place, body>>
    PROVE  /\ {x \in Msg : Published(x)}' = {x \in Msg : Published(x)}
           /\ {x \in Msg : Held(x)}' = {x \in Msg : Held(x)}
           /\ {x \in Msg : DeadLettered(x)}' = {x \in Msg : DeadLettered(x)}
BY DEF Published, Held, Live, DeadLettered

\* A handler's success is one of the promise.
LEMMA OkPromise ==
    ASSUME IInv, Earned, NEW s \in Session, NEW c \in Copy, HandlerOk(s, c)
    PROVE  \E m \in Msg : Promise!Succeed(m)
<1>1. pc[s][c] = "handling" /\ UNCHANGED <<place, body>> /\ body[c] # None
  BY ActiveHasBody DEF HandlerOk, HandlerReturns, brokerVars
<1>2. PICK m \in Msg, k \in 0..MaxRetries :
        /\ m = body[c].msg /\ m \notin Malformed
        /\ calls' = calls \cup {[msg |-> m, attempt |-> k, ok |-> TRUE]}
  BY <1>1, AttemptInPolicy DEF HandlerOk, HandlerReturns, Body, Earned, TaskEarned
<1>3. Published(m)
  BY <1>1, <1>2 DEF Published
<1>4. \A x : Handled(x)' <=> (Handled(x) \/ x = m)
  <2>1. PICK r : r = [msg |-> m, attempt |-> k, ok |-> TRUE]
    OBVIOUS
  <2>2. r.msg = m /\ r.ok
    BY <2>1, Zenon
  <2>3. \A call : call \in calls' <=> (call \in calls \/ call = r)
    BY <1>2, <2>1
  <2> QED BY <2>2, <2>3 DEF Handled
<1>5. {x \in Msg : Handled(x)}' = {x \in Msg : Handled(x)} \cup {m}
  BY <1>4
<1>6. \A x, j : FailedAt(x, j)' <=> FailedAt(x, j)
  BY <1>2 DEF FailedAt
<1>7. [x \in Msg |-> FailuresOf(x)]' = [x \in Msg |-> FailuresOf(x)]
  BY <1>6 DEF FailuresOf
<1>8. Promise!Succeed(m)
  BY <1>1, <1>2, <1>3, <1>5, <1>7, CallFates DEF Promise!Succeed
<1> QED BY <1>8

\* A handler's failure comes at the attempt that is next.
LEMMA ErrPromise ==
    ASSUME IInv, Earned, NEW s \in Session, NEW c \in Copy, HandlerReturns(s, c, FALSE)
    PROVE  \E m \in Msg, k \in 0..MaxRetries : Promise!Fail(m, k)
<1>1. pc[s][c] = "handling" /\ UNCHANGED <<place, body>> /\ body[c] # None
  BY ActiveHasBody DEF HandlerReturns, brokerVars
<1>2. PICK m \in Msg, k \in 0..MaxRetries :
        /\ m = body[c].msg /\ m \notin Malformed /\ EarnedTo(m, k)
        /\ calls' = calls \cup {[msg |-> m, attempt |-> k, ok |-> FALSE]}
  BY <1>1, AttemptInPolicy DEF HandlerReturns, Body, Earned, TaskEarned
<1>3. Published(m)
  BY <1>1, <1>2 DEF Published
<1>4. {x \in Msg : Handled(x)}' = {x \in Msg : Handled(x)}
  BY <1>2 DEF Handled
<1>5. \A x, j : FailedAt(x, j)' <=> (FailedAt(x, j) \/ (x = m /\ j = k))
  BY <1>2 DEF FailedAt
<1>6. \A x : FailuresOf(x)' = IF x = m THEN FailuresOf(x) \cup {k} ELSE FailuresOf(x)
  BY <1>2, <1>5 DEF FailuresOf
<1>7. [x \in Msg |-> FailuresOf(x)]'
          = [[x \in Msg |-> FailuresOf(x)] EXCEPT ![m] = @ \cup {k}]
  BY <1>2, <1>6
<1>8. \A j \in 0..(k - 1) : j \in FailuresOf(m) /\ Retries(j)
  <2> SUFFICES ASSUME NEW j \in 0..(k - 1)
               PROVE  j \in 0..MaxRetries /\ FailedAt(m, j) /\ Retries(j)
    BY DEF FailuresOf
  <2> QED BY <1>2, BrokerAssumption DEF EarnedTo
<1>9. Promise!Fail(m, k)
  BY <1>1, <1>2, <1>3, <1>4, <1>7, <1>8, CallFates DEF Promise!Fail
<1> QED BY <1>9

\* The message of a received frame is held, by the delivery it was written
\* for: a retry changes no fate, and a dead letter is one after a final failure.
LEMMA RecvPublishPromise ==
    ASSUME IInv, Earned, NEW s \in Session, NEW c \in Copy, BrokerRecvPublish(s, c)
    PROVE  (\E m \in Msg : Promise!DeadLetter(m)) \/ UNCHANGED Promise!promise
<1>1. /\ outPub[s][c] # None /\ calls' = calls
      /\ Enqueue(IF outPub[s][c].to = Dlq THEN "dlq" ELSE "delayed", outPub[s][c].body)
  BY DEF BrokerRecvPublish, RecvPublish
<1>2. PICK b \in Body, p \in {"delayed", "dlq"} :
        /\ b = outPub[s][c].body
        /\ p = IF outPub[s][c].to = Dlq THEN "dlq" ELSE "delayed"
  BY <1>1 DEF IInv, TypeOK, BrokerTypeOK, Frame
<1>3. HasRetry /\ body[c] # None /\ body[c].msg = b.msg /\ place[c] = "unacked"
  BY <1>1, <1>2, ActiveHasBody, BrokerAssumption DEF IInv, Frames, Ownership
<1>4. Published(b.msg) /\ Held(b.msg) /\ b.msg \in Msg
  BY <1>3 DEF Published, Held, Live, Body
<1>5. \A x \in Msg : /\ Published(x)' <=> Published(x)
                     /\ Held(x)' <=> Held(x)
                     /\ DeadLettered(x)' <=> (DeadLettered(x) \/ (p = "dlq" /\ x = b.msg))
  BY <1>1, <1>2, <1>4, ArrivalFates
<1>6. CASE p = "delayed"
  BY <1>1, <1>5, <1>6, PromiseStutters DEF SameFate
<1>7. CASE p = "dlq"
  <2>1. Spent(b.msg)
    BY <1>1, <1>2, <1>7 DEF Earned, CopyEarned
  <2>2. PICK k \in 0..MaxRetries : k \in FailuresOf(b.msg) /\ ~Retries(k)
    BY <2>1 DEF Spent, FailuresOf, Exhausted, Retries
  <2>3. {x \in Msg : Published(x)}' = {x \in Msg : Published(x)}
    BY <1>5
  <2>4. {x \in Msg : Held(x)}' = {x \in Msg : Held(x)} \cup {b.msg}
    BY <1>4, <1>5
  <2>5. {x \in Msg : DeadLettered(x)}' = {x \in Msg : DeadLettered(x)} \cup {b.msg}
    BY <1>4, <1>5, <1>7
  <2>6. /\ {x \in Msg : Handled(x)}' = {x \in Msg : Handled(x)}
        /\ [x \in Msg |-> FailuresOf(x)]' = [x \in Msg |-> FailuresOf(x)]
    BY <1>1 DEF Handled, FailuresOf, FailedAt
  <2>7. Promise!FailedFinally(b.msg)
    BY <1>4, <2>2 DEF Promise!FailedFinally
  <2>8. Promise!DeadLetter(b.msg)
    BY <1>3, <1>4, <2>3, <2>4, <2>5, <2>6, <2>7 DEF Promise!DeadLetter
  <2> QED BY <1>4, <2>8
<1> QED BY <1>6, <1>7

\* A message that may be discarded may be released.
LEMMA RejectableReleases ==
    ASSUME IInv, Earned, NEW m \in Msg, Handled(m) \/ Rejectable(m)
    PROVE  Promise!MayRelease(m)
<1>1. CASE Handled(m) \/ m \in Malformed
  BY <1>1 DEF Promise!MayRelease
<1>2. CASE ~HasRetry /\ \E call \in calls : call.msg = m /\ ~call.ok
  <2>1. PICK call \in calls : call.msg = m /\ ~call.ok
    BY <1>2
  <2>2. PICK k \in 0..MaxRetries : call = [msg |-> m, attempt |-> k, ok |-> FALSE]
    BY <2>1, BrokerAssumption DEF Earned, IInv, TypeOK, ConsumerTypeOK, Call
  <2>3. k \in FailuresOf(m) /\ ~Retries(k)
    BY <1>2, <2>2 DEF FailuresOf, FailedAt, Retries
  <2>4. Promise!FailedFinally(m)
    BY <2>3 DEF Promise!FailedFinally
  <2> QED BY <1>2, <2>4 DEF Promise!MayRelease
<1> QED BY <1>1, <1>2 DEF Rejectable

\* A settlement releases what it leaves without a copy, and Accounted says that
\* such a message was handled or may be discarded.
LEMMA RecvSettlePromise ==
    ASSUME IInv, IInv', Earned, NEW s \in Session, NEW c \in Copy, BrokerRecvSettle(s, c)
    PROVE  \E M \in SUBSET {m \in Msg : Held(m)} : Promise!Release(M)
<1>1. /\ UNCHANGED <<body, calls>> /\ owner[c] = s
      /\ place' = [place EXCEPT ![c] = IF outSettle[s][c] = "ack" THEN "acked" ELSE "dropped"]
  BY DEF BrokerRecvSettle, RecvSettle
<1>2. /\ place[c] = "unacked" /\ place'[c] \in {"acked", "dropped"}
      /\ \A d \in Copy \ {c} : place'[d] = place[d]
  BY <1>1, BrokerAssumption DEF IInv, Ownership, TypeOK, BrokerTypeOK
<1>3. \A x \in Msg : /\ Published(x)' <=> Published(x)
                     /\ Held(x)' => Held(x)
                     /\ DeadLettered(x)' <=> DeadLettered(x)
  BY <1>1, <1>2 DEF Published, Held, Live, DeadLettered
<1>4. /\ {x \in Msg : Published(x)}' = {x \in Msg : Published(x)}
      /\ {x \in Msg : DeadLettered(x)}' = {x \in Msg : DeadLettered(x)}
      /\ {x \in Msg : Handled(x)}' = {x \in Msg : Handled(x)}
      /\ [x \in Msg |-> FailuresOf(x)]' = [x \in Msg |-> FailuresOf(x)]
  BY <1>1, <1>3 DEF Handled, FailuresOf, FailedAt
<1>5. PICK M \in SUBSET Msg : M = {m \in Msg : Held(m) /\ ~Held(m)'}
  OBVIOUS
<1>6. {x \in Msg : Held(x)}' = {x \in Msg : Held(x)} \ M
  BY <1>3, <1>5
<1>7. ASSUME NEW m \in M PROVE Promise!MayRelease(m)
  <2>1. m \in Msg /\ Held(m) /\ ~Held(m)'
    BY <1>5
  <2>2. Published(m)'
    BY <2>1, <1>3 DEF Held, Published
  <2>3. (Handled(m) \/ Rejectable(m))'
    BY <2>1, <2>2 DEF IInv, Accounted, Held
  <2>4. Handled(m) \/ Rejectable(m)
    BY <2>3, <1>1 DEF Handled, Rejectable
  <2> QED BY <2>1, <2>4, RejectableReleases
<1>8. Promise!Release(M)
  BY <1>4, <1>6, <1>7 DEF Promise!Release
<1> QED BY <1>5, <1>8

\* Channels end: what was unacked is ready again, and every message stays held.
LEMMA ClosePromise ==
    ASSUME IInv, NEW S \in SUBSET Session, calls' = calls, body' = body, place' = Requeued(S)
    PROVE  UNCHANGED Promise!promise
<1>1. \A c \in Copy : /\ owner[c] \in S => place[c] = "unacked" /\ place'[c] = "ready"
                      /\ owner[c] \notin S => place'[c] = place[c]
  BY BrokerAssumption DEF Requeued, IInv, Ownership
<1> QED BY <1>1, PlacesStutter DEF Live

\* So is the declaration of a queue, whatever its outcome.
LEMMA QueueDeclarePromise ==
    ASSUME IInv, NEW s \in Session, NEW c \in Copy, NEW q, NEW ttl, NEW next, NEW failed,
           QueueDeclare(s, c, q, ttl, next, failed)
    PROVE  UNCHANGED Promise!promise
<1>1. CASE UNCHANGED <<place, body, calls>>
  BY <1>1, PlacesStutter DEF Live
<1>2. CASE Close({s}) /\ calls' = calls
  BY <1>2, ClosePromise DEF Close
<1> QED BY <1>1, <1>2 DEF QueueDeclare, brokerVars

\* A task step is a handler's return or nothing to the promise.
LEMMA TaskPromise ==
    ASSUME IInv, Earned, NEW s \in Session, NEW c \in Copy, TaskStep(s, c)
    PROVE  Step
<1>1. CASE HandlerOk(s, c)
  BY <1>1, OkPromise DEF Step, Promise!Next
<1>2. CASE HandlerErr(s, c) \/ CalculateDelayPanics(s, c)
  BY <1>2, ErrPromise DEF Step, HandlerErr, CalculateDelayPanics, Promise!Next
<1>3. CASE CreateRetryQueue(s, c) \/ CreateDlq(s, c)
  BY <1>3, QueueDeclarePromise DEF CreateRetryQueue, CreateDlq, Step
<1>4. CASE \/ Dispatch(s, c) \/ CreateDelayExchange(s, c) \/ SendRetry(s, c) \/ SendToDlq(s, c)
           \/ AckDelivery(s, c) \/ NackDelivery(s, c)
  <2>1. UNCHANGED <<place, body, calls>>
    BY <1>4 DEF Dispatch, CreateDelayExchange, SendRetry, SendToDlq, BasicPublish,
       AckDelivery, NackDelivery, Settle, brokerVars
  <2> QED BY <2>1, PlacesStutter DEF Step, Live
<1> QED BY <1>1, <1>2, <1>3, <1>4 DEF TaskStep

\* The broker's own steps: only publishes and settlements change a fate.
LEMMA BrokerPromise ==
    ASSUME IInv, IInv', Earned,
           \/ \E s \in Session, c \in Copy : BrokerStep(s, c)
           \/ \E c \in Copy : RetryDue(c) \/ DlqTtlPasses(c)
    PROVE  Step
<1>t. place \in [Copy -> Places]
  BY DEF IInv, TypeOK, BrokerTypeOK
<1>1. CASE \E s \in Session, c \in Copy : Deliver(s, c)
  <2>1. PICK c \in Copy : /\ UNCHANGED <<body, calls>> /\ place[c] = "ready"
                          /\ place' = [place EXCEPT ![c] = "unacked"]
    BY <1>1 DEF Deliver, Send
  <2> QED BY <2>1, <1>t, PlacesStutter DEF Step, Live
<1>2. CASE \E s \in Session, c \in Copy : BrokerRecvPublish(s, c)
  BY <1>2, RecvPublishPromise DEF Step, Promise!Next
<1>3. CASE \E s \in Session, c \in Copy : BrokerRecvSettle(s, c)
  BY <1>3, RecvSettlePromise DEF Step, Promise!Next
<1>4. CASE \E c \in Copy : RetryDue(c)
  <2>1. PICK c \in Copy : RetryDue(c)
    BY <1>4
  <2>2. /\ UNCHANGED <<body, calls>> /\ place[c] = "delayed"
        /\ place' = [place EXCEPT ![c] = "ready"]
    BY <2>1 DEF RetryDue, ExpireRetry, IInv, Durability
  <2> QED BY <2>2, <1>t, PlacesStutter DEF Step, Live
<1>5. CASE \E c \in Copy : DlqTtlPasses(c)
  <2>1. PICK c \in Copy : /\ UNCHANGED <<body, calls>> /\ place[c] = "dlq"
                          /\ place' = [place EXCEPT ![c] = "expired"]
    BY <1>5 DEF DlqTtlPasses, ExpireDlq
  <2> QED BY <2>1, <1>t, PlacesStutter DEF Step, Live
<1> QED BY <1>1, <1>2, <1>3, <1>4, <1>5 DEF BrokerStep

\* Starts and faults are nothing to the promise: copies are persistent.
LEMMA FaultPromise ==
    ASSUME IInv, Fault \/ \E s \in Session : StartConsumerChannel(s)
    PROVE  Step
<1>1. CASE \/ \E s \in Session : StartConsumerChannel(s) \/ StartFails(s)
           \/ \E s \in Session, c \in Copy : HandlerPanics(s, c)
  <2>1. UNCHANGED <<place, body, calls>>
    BY <1>1 DEF StartConsumerChannel, StartFails, HandlerPanics, brokerVars
  <2> QED BY <2>1, PlacesStutter DEF Step, Live
<1>2. CASE \E s \in Session : ConnectionLost(s) \/ ProcessCrash(s)
  <2>1. PICK s \in Session : Close({s}) /\ calls' = calls
    BY <1>2 DEF ConnectionLost, ProcessCrash
  <2> QED BY <2>1, ClosePromise DEF Close, Step
<1>3. CASE BrokerRestarts
  <2> DEFINE S == {s \in Session : chan[s] = "open"}
  <2>1. /\ UNCHANGED <<body, calls>>
        /\ place' = [c \in Copy |-> IF c \in Transient THEN "lost" ELSE Requeued(S)[c]]
    BY <1>3 DEF BrokerRestarts, BrokerRestart
  <2>2. \A c \in Copy : c \notin Transient
    BY DEF Transient, IInv, Ownership, Durability
  <2>3. place' = Requeued(S)
    BY <2>1, <2>2 DEF Requeued
  <2>4. S \in SUBSET Session
    OBVIOUS
  <2> HIDE DEF S
  <2> QED BY <2>1, <2>3, <2>4, ClosePromise DEF Step
<1> QED BY <1>1, <1>2, <1>3 DEF Fault

LEMMA NextPromise == IInv /\ IInv' /\ Earned /\ [Next]_vars => Step
<1> SUFFICES ASSUME IInv, IInv', Earned, [Next]_vars PROVE Step
  OBVIOUS
<1>1. CASE \E m \in Msg : Publish(m)
  BY <1>1, PublishPromise DEF Step, Promise!Next
<1>2. CASE \E s \in Session, c \in Copy : TaskStep(s, c)
  BY <1>2, TaskPromise
<1>3. CASE UNCHANGED vars
  BY <1>3, PlacesStutter DEF vars, Live, Step
<1> QED BY <1>1, <1>2, <1>3, BrokerPromise, FaultPromise DEF Next

LEMMA InitPromise == Init => Promise!Init
<1> SUFFICES ASSUME Init PROVE Promise!Init
  OBVIOUS
<1>1. body = [c \in Copy |-> None] /\ calls = {}
  BY DEF Init, ConsumerInit, BrokerInit
<1>2. \A m \in Msg : ~Published(m) /\ ~Held(m) /\ ~Handled(m) /\ ~DeadLettered(m)
  BY <1>1 DEF Published, Held, Handled, DeadLettered
<1>3. \A m \in Msg : FailuresOf(m) = {}
  BY <1>1 DEF FailuresOf, FailedAt
<1>4. [m \in Msg |-> FailuresOf(m)] = [m \in Msg |-> {}]
  BY <1>3
<1> QED BY <1>2, <1>4 DEF Promise!Init

\* consume() keeps the promise of AtLeastOnce, for every policy, topology,
\* number of sessions and interleaving of faults (raw.rs:86-204).
THEOREM PromiseKept == Spec => KeepsPromise
<1>1. Init => Promise!Init
  BY InitPromise
<1>2. IInv /\ IInv' /\ Earned /\ [Next]_vars => [Promise!Next]_(Promise!promise)
  BY NextPromise DEF Step
<1> QED BY <1>1, <1>2, Invariance, AlwaysEarned, PTL DEF Spec, KeepsPromise, Promise!Spec
=============================================================================
