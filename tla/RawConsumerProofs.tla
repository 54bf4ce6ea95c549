-------------------------- MODULE RawConsumerProofs --------------------------
(***************************************************************************)
(* Proofs about RawConsumer, for any number of messages, copies, sessions, *)
(* retries and delays: type correctness, NoLoss, SettleOnce,               *)
(* NeverForgotten, DiscardsByDesign and NoDuplicates.                      *)
(***************************************************************************)
EXTENDS RawConsumer, FiniteSetTheorems, TLAPS

\* What every step but a settlement does to the copies: it forgets nothing.
KeepsCopies ==
    /\ calls \subseteq calls'
    /\ \A d \in Copy : body[d] # None =>
        /\ body'[d] = body[d]
        /\ place[d] \in {"dlq", "expired"} => place'[d] \in {"dlq", "expired"}
        /\ place[d] \in {"ready", "unacked", "delayed"}
              => place'[d] \in {"ready", "unacked", "delayed"}

-----------------------------------------------------------------------------
(* Facts that do not depend on an action. *)

\* read_retry_attempt yields a number for every header (headers.rs:9).
LEMMA AttemptType ==
    ASSUME NEW b \in Body
    PROVE  ReadRetryAttempt(b) \in Nat
BY DEF ReadRetryAttempt, Body, Header

\* A message once handled or rejectable stays so: calls only grow.
LEMMA OutcomesStay ==
    ASSUME NEW m, calls \subseteq calls'
    PROVE  /\ Handled(m) => Handled(m)'
           /\ Rejectable(m) => Rejectable(m)'
BY DEF Handled, Rejectable

\* A copy the broker may forget may be forgotten after the step as well.
LEMMA CoveredStays ==
    ASSUME KeepsCopies, NEW c \in Copy, body[c] # None, Covered(c)
    PROVE  Covered(c)'
<1>1. CASE Handled(body[c].msg) \/ Rejectable(body[c].msg)
  BY <1>1, OutcomesStay DEF KeepsCopies, Covered
<1>2. CASE \E d \in Copy : Continues(d, c)
  <2>1. PICK d \in Copy : Continues(d, c)
    BY <1>2
  <2>2. body'[d] = body[d] /\ body'[c] = body[c]
    BY <2>1 DEF KeepsCopies, Continues
  <2>3. Attempt(d)' = Attempt(d) /\ Attempt(c)' = Attempt(c)
    BY <2>2 DEF Attempt, ReadRetryAttempt
  <2>4. Continues(d, c)'
    BY <2>1, <2>2, <2>3 DEF KeepsCopies, Continues
  <2> QED BY <2>4 DEF Covered
<1> QED BY <1>1, <1>2 DEF Covered

\* A delivery with a running task or a frame in flight is a copy in use.
LEMMA ActiveHasBody ==
    ASSUME IInv, NEW s \in Session, NEW c \in Copy,
           pc[s][c] # "none" \/ outSettle[s][c] # None \/ outPub[s][c] # None
    PROVE  body[c] # None
<1>1. CASE pc[s][c] # "none"
  BY <1>1 DEF IInv, Tasks
<1>2. CASE outSettle[s][c] # None \/ outPub[s][c] # None
  <2>1. owner[c] # None
    BY <1>2, BrokerAssumption DEF IInv, Frames
  <2> QED BY <2>1 DEF IInv, Ownership
<1> QED BY <1>1, <1>2

\* No message is lost in a step that keeps all copies and publishes at most
\* messages that were there already.
LEMMA AccountedStays ==
    ASSUME IInv, KeepsCopies,
           \A m \in Msg : Published(m)' => Published(m)
    PROVE  Accounted'
<1> SUFFICES ASSUME NEW m \in Msg, Published(m)
             PROVE  (\/ Handled(m)
                     \/ \E c \in Copy : body[c] # None /\ body[c].msg = m /\ Live(c)
                     \/ Rejectable(m))'
  BY DEF Accounted, Held
<1>1. CASE Handled(m) \/ Rejectable(m)
  BY <1>1, OutcomesStay DEF KeepsCopies
<1>2. CASE \E c \in Copy : body[c] # None /\ body[c].msg = m /\ Live(c)
  <2>1. PICK c \in Copy : body[c] # None /\ body[c].msg = m /\ Live(c)
    BY <1>2
  <2>2. body'[c] = body[c] /\ Live(c)'
    BY <2>1 DEF KeepsCopies, Live
  <2> QED BY <2>1, <2>2
<1> QED BY <1>1, <1>2 DEF IInv, Accounted, Held

\* Fresh is an unused copy.
LEMMA FreshUnused ==
    ASSUME HasFresh
    PROVE  Fresh \in Copy /\ place[Fresh] = "unused"
BY DEF HasFresh, Fresh

-----------------------------------------------------------------------------
(* The three shapes most actions have. *)

\* A task goes on to another step and the broker is not involved: every step of
\* raw.rs that only decides, and every call that fails on a closed channel.
LEMMA MoveStep ==
    ASSUME IInv,
           NEW s \in Session, NEW c \in Copy, NEW step \in Steps,
           pc[s][c] # "none",
           Goto(s, c, step),
           UNCHANGED brokerVars,
           calls \subseteq calls', calls' \in SUBSET Call,
           step \in {"declare", "publish"} => Retries(Attempt(c)),
           step \in {"declare_dlq", "publish_dlq"} => HasRetry,
           step = "nack" /\ chan[s] = "open" => Rejectable(body[c].msg)',
           step = "ack" /\ chan[s] = "open" => outPub[s][c] # None \/ Covered(c)'
    PROVE  IInv'
<1>u. /\ place' = place /\ body' = body /\ owner' = owner /\ chan' = chan
      /\ outPub' = outPub /\ outSettle' = outSettle /\ args' = args /\ bound' = bound
  BY DEF brokerVars
<1>t. TypeOK BY DEF IInv
<1>pc. /\ pc' \in [Session -> [Copy -> Steps]]
       /\ pc'[s][c] = step
       /\ \A t \in Session, d \in Copy : <<t, d>> # <<s, c>> => pc'[t][d] = pc[t][d]
  BY <1>t DEF Goto, TypeOK, ConsumerTypeOK
<1>a. \A d \in Copy : Attempt(d)' = Attempt(d)
  BY <1>u DEF Attempt, ReadRetryAttempt
<1>k. KeepsCopies
  BY <1>u DEF KeepsCopies
<1>1. TypeOK'
  BY <1>t, <1>u, <1>pc DEF TypeOK, BrokerTypeOK, ConsumerTypeOK
<1>2. Ownership'
  BY <1>u DEF IInv, Ownership
<1>3. Tasks'
  <2> SUFFICES ASSUME NEW t \in Session, NEW d \in Copy
               PROVE (/\ pc[t][d] # "none" => body[d] # None /\ chan[t] # "new"
                      /\ pc[t][d] # "none" /\ chan[t] = "open" => owner[d] = t
                      /\ pc[t][d] \in {"declare", "publish"} => Retries(Attempt(d))
                      /\ pc[t][d] \in {"declare_dlq", "publish_dlq"} => HasRetry)'
    BY DEF Tasks
  <2>1. CASE <<t, d>> = <<s, c>>
    BY <2>1, <1>u, <1>pc, <1>a DEF IInv, Tasks, Retries, RetryDelay
  <2>2. CASE <<t, d>> # <<s, c>>
    BY <2>2, <1>u, <1>pc, <1>a DEF IInv, Tasks, Retries, RetryDelay
  <2> QED BY <2>1, <2>2
<1>4. Frames'
  <2>1. \A t \in Session, d \in Copy : outSettle[t][d] # None => <<t, d>> # <<s, c>>
    BY DEF IInv, Frames
  <2> QED BY <2>1, <1>u, <1>pc, <1>a DEF IInv, Frames, ReadRetryAttempt
<1>5. Durability'
  BY <1>u DEF IInv, Durability
<1>6. AcksCovered'
  <2> SUFFICES ASSUME NEW t \in Session, NEW d \in Copy,
                      (chan[t] = "open" /\ (pc[t][d] = "ack" \/ outSettle[t][d] = "ack"))',
                      outPub'[t][d] = None
               PROVE  Covered(d)'
    BY DEF AcksCovered
  <2>1. CASE <<t, d>> = <<s, c>>
    <3>1. outSettle[s][c] = None
      BY DEF IInv, Frames
    <3> QED BY <2>1, <3>1, <1>u, <1>pc, BrokerAssumption
  <2>2. CASE <<t, d>> # <<s, c>>
    <3>1. Covered(d)
      BY <2>2, <1>u, <1>pc DEF IInv, AcksCovered
    <3>2. body[d] # None
      BY <2>2, <1>u, <1>pc, BrokerAssumption, ActiveHasBody
    <3> QED BY <3>1, <3>2, <1>k, CoveredStays
  <2> QED BY <2>1, <2>2
<1>7. NacksDeserved'
  <2> SUFFICES ASSUME NEW t \in Session, NEW d \in Copy,
                      (chan[t] = "open" /\ (pc[t][d] = "nack" \/ outSettle[t][d] = "nack"))'
               PROVE  Rejectable(body[d].msg)'
    BY DEF NacksDeserved
  <2>1. CASE <<t, d>> = <<s, c>>
    <3>1. outSettle[s][c] = None
      BY DEF IInv, Frames
    <3> QED BY <2>1, <3>1, <1>u, <1>pc, BrokerAssumption
  <2>2. CASE <<t, d>> # <<s, c>>
    <3>1. Rejectable(body[d].msg)
      BY <2>2, <1>u, <1>pc DEF IInv, NacksDeserved
    <3> QED BY <3>1, <1>u, OutcomesStay
  <2> QED BY <2>1, <2>2
<1>8. Accounted'
  <2>1. \A m \in Msg : Published(m)' => Published(m)
    BY <1>u DEF Published
  <2> QED BY <2>1, <1>k, AccountedStays
<1> QED BY <1>1, <1>2, <1>3, <1>4, <1>5, <1>6, <1>7, <1>8 DEF IInv

\* Channels close, and their tasks stay where they are, end, or go on to settle
\* in vain: lost connections, crashes, restarts and channel exceptions.
LEMMA CloseStep ==
    ASSUME IInv, NEW S \in SUBSET Session,
           \A s \in S : chan[s] = "open",
           Close(S), calls' = calls,
           pc' \in [Session -> [Copy -> Steps]],
           \A s \in Session, c \in Copy :
               \/ pc'[s][c] = pc[s][c]
               \/ s \in S /\ pc[s][c] # "none" /\ pc'[s][c] \in {"none", "ack", "nack"}
    PROVE  IInv'
<1>t. TypeOK BY DEF IInv
<1>c. /\ chan' = [s \in Session |-> IF s \in S THEN "closed" ELSE chan[s]]
      /\ outPub' = [s \in Session |-> IF s \in S THEN [c \in Copy |-> None] ELSE outPub[s]]
      /\ outSettle' = [s \in Session |-> IF s \in S THEN [c \in Copy |-> None] ELSE outSettle[s]]
      /\ owner' = [c \in Copy |-> IF owner[c] \in S THEN None ELSE owner[c]]
      /\ place' = [c \in Copy |-> IF owner[c] \in S THEN "ready" ELSE place[c]]
      /\ body' = body /\ args' = args /\ bound' = bound
  BY DEF Close, CloseChannels, Requeued
<1>o. \A c \in Copy : owner[c] \in S => place[c] = "unacked" /\ body[c] # None
  BY BrokerAssumption DEF IInv, Ownership
<1>a. \A d \in Copy : Attempt(d)' = Attempt(d)
  BY <1>c DEF Attempt, ReadRetryAttempt
<1>k. KeepsCopies
  BY <1>c, <1>o DEF KeepsCopies
<1>1. TypeOK'
  <2>1. \A c \in Copy : place'[c] \in Places
    BY <1>t, <1>c DEF TypeOK, BrokerTypeOK, Places
  <2>2. \A c \in Copy : owner'[c] \in Session \cup {None}
    BY <1>t, <1>c DEF TypeOK, BrokerTypeOK
  <2>3. chan' \in [Session -> {"new", "open", "closed"}]
    BY <1>t, <1>c DEF TypeOK, BrokerTypeOK
  <2>4. outPub' \in [Session -> [Copy -> Frame \cup {None}]]
    BY <1>t, <1>c DEF TypeOK, BrokerTypeOK
  <2>5. outSettle' \in [Session -> [Copy -> {"ack", "nack", None}]]
    BY <1>t, <1>c DEF TypeOK, BrokerTypeOK
  <2> QED
    BY <2>1, <2>2, <2>3, <2>4, <2>5, <1>t, <1>c DEF TypeOK, BrokerTypeOK, ConsumerTypeOK
<1>2. Ownership'
  BY <1>c, <1>o, BrokerAssumption DEF IInv, Ownership
<1>3. Tasks'
  BY <1>c, <1>a DEF IInv, Tasks, Retries, RetryDelay
<1>4. Frames'
  <2> SUFFICES ASSUME NEW s \in Session, NEW c \in Copy
               PROVE (/\ outPub[s][c] # None \/ outSettle[s][c] # None => owner[c] = s
                      /\ outSettle[s][c] # None => pc[s][c] = "none"
                      /\ outPub[s][c] # None =>
                            /\ HasRetry
                            /\ outPub[s][c].body.msg = body[c].msg
                            /\ outPub[s][c].body.persistent
                            /\ \/ outPub[s][c].to = Dlq
                               \/ ReadRetryAttempt(outPub[s][c].body) > Attempt(c))'
    BY DEF Frames
  <2>1. CASE s \in S
    BY <2>1, <1>c
  <2>2. CASE s \notin S
    <3>1. outPub'[s][c] = outPub[s][c] /\ outSettle'[s][c] = outSettle[s][c]
          /\ pc'[s][c] = pc[s][c] /\ (owner[c] = s => owner'[c] = s)
      BY <2>2, <1>c
    <3> QED BY <3>1, <1>c, <1>a DEF IInv, Frames, ReadRetryAttempt
  <2> QED BY <2>1, <2>2
<1>5. Durability'
  BY <1>c DEF IInv, Durability
<1>n. \A s \in Session : chan'[s] = "open" => s \notin S /\ chan[s] = "open"
  BY <1>c
<1>6. AcksCovered'
  <2> SUFFICES ASSUME NEW s \in Session, NEW d \in Copy,
                      (chan[s] = "open" /\ (pc[s][d] = "ack" \/ outSettle[s][d] = "ack"))',
                      outPub'[s][d] = None
               PROVE  Covered(d)'
    BY DEF AcksCovered
  <2>1. /\ chan[s] = "open" /\ outPub[s][d] = None
        /\ pc[s][d] = "ack" \/ outSettle[s][d] = "ack"
    BY <1>n, <1>c
  <2>2. Covered(d) /\ body[d] # None
    BY <2>1, ActiveHasBody, BrokerAssumption DEF IInv, AcksCovered
  <2> QED BY <2>2, <1>k, CoveredStays
<1>7. NacksDeserved'
  <2> SUFFICES ASSUME NEW s \in Session, NEW d \in Copy,
                      (chan[s] = "open" /\ (pc[s][d] = "nack" \/ outSettle[s][d] = "nack"))'
               PROVE  Rejectable(body[d].msg)'
    BY DEF NacksDeserved
  <2>1. /\ chan[s] = "open"
        /\ pc[s][d] = "nack" \/ outSettle[s][d] = "nack"
    BY <1>n, <1>c
  <2>2. Rejectable(body[d].msg)
    BY <2>1 DEF IInv, NacksDeserved
  <2> QED BY <2>2, <1>c, OutcomesStay
<1>8. Accounted'
  <2>1. \A m \in Msg : Published(m)' => Published(m)
    BY <1>c DEF Published
  <2> QED BY <2>1, <1>k, AccountedStays
<1> QED BY <1>1, <1>2, <1>3, <1>4, <1>5, <1>6, <1>7, <1>8 DEF IInv

\* A new copy appears: it takes an unused id and disturbs no other copy.
LEMMA EnqueueFacts ==
    ASSUME IInv, NEW p \in Places, NEW b \in Body, Enqueue(p, b)
    PROVE  \E new \in Copy :
             /\ body[new] = None /\ owner[new] = None
             /\ place'[new] = p /\ body'[new] = b
             /\ place' \in [Copy -> Places]
             /\ body' \in [Copy -> Body \cup {None}]
             /\ \A d \in Copy \ {new} : /\ body'[d] = body[d]
                                       /\ place'[d] = place[d]
                                       /\ Attempt(d)' = Attempt(d)
<1>1. PICK new \in Copy : new = Fresh /\ place[new] = "unused"
  BY FreshUnused DEF Enqueue
<1>2. body[new] = None /\ owner[new] = None
  BY <1>1 DEF IInv, Ownership
<1>3. /\ place' = [place EXCEPT ![new] = p]
      /\ body' = [body EXCEPT ![new] = b]
  BY <1>1 DEF Enqueue
<1>4. /\ place \in [Copy -> Places]
      /\ body \in [Copy -> Body \cup {None}]
  BY DEF IInv, TypeOK, BrokerTypeOK
<1>5. \A d \in Copy \ {new} : body'[d] = body[d] /\ place'[d] = place[d]
  BY <1>3, <1>4
<1>6. \A d \in Copy \ {new} : Attempt(d)' = Attempt(d)
  BY <1>5 DEF Attempt, ReadRetryAttempt
<1> QED BY <1>2, <1>3, <1>4, <1>5, <1>6

-----------------------------------------------------------------------------
(* Copies appear: publishers and received retries. *)

\* A step that keeps tasks, channels and settlements and enqueues one copy.
LEMMA EnqueueStep ==
    ASSUME IInv, NEW p \in {"ready", "delayed", "dlq"}, NEW b \in Body, b.persistent,
           Enqueue(p, b),
           UNCHANGED <<owner, chan, outSettle, args, bound, pc, calls>>,
           outPub' \in [Session -> [Copy -> Frame \cup {None}]],
           \A s \in Session, c \in Copy :
               outPub'[s][c] = outPub[s][c] \/ outPub'[s][c] = None,
           p = "delayed" => HasRetry /\ (DelayedExchange => bound),
           AcksCovered',
           Accounted'
    PROVE  IInv'
<1>t. TypeOK BY DEF IInv
<1>p. p \in Places BY DEF Places
<1>f. PICK new \in Copy :
      /\ body[new] = None /\ owner[new] = None
      /\ place'[new] = p /\ body'[new] = b
      /\ place' \in [Copy -> Places]
      /\ body' \in [Copy -> Body \cup {None}]
      /\ \A d \in Copy \ {new} : /\ body'[d] = body[d]
                                  /\ place'[d] = place[d]
                                  /\ Attempt(d)' = Attempt(d)
  BY <1>p, EnqueueFacts
<1>b. b # None BY BodyAssumption
<1>1. TypeOK'
  BY <1>t, <1>f DEF TypeOK, BrokerTypeOK, ConsumerTypeOK
<1>2. Ownership'
  BY <1>f, <1>b DEF IInv, Ownership
<1>a. \A s \in Session, c \in Copy :
        pc[s][c] # "none" \/ outSettle[s][c] # None \/ outPub[s][c] # None => c # new
  BY <1>f, ActiveHasBody
<1>3. Tasks'
  BY <1>a, <1>f DEF IInv, Tasks, Retries, RetryDelay
<1>4. Frames'
  <2> SUFFICES ASSUME NEW s \in Session, NEW c \in Copy
               PROVE (/\ outPub[s][c] # None \/ outSettle[s][c] # None => owner[c] = s
                      /\ outSettle[s][c] # None => pc[s][c] = "none"
                      /\ outPub[s][c] # None =>
                            /\ HasRetry
                            /\ outPub[s][c].body.msg = body[c].msg
                            /\ outPub[s][c].body.persistent
                            /\ \/ outPub[s][c].to = Dlq
                               \/ ReadRetryAttempt(outPub[s][c].body) > Attempt(c))'
    BY DEF Frames
  <2>1. outPub'[s][c] # None => outPub'[s][c] = outPub[s][c] /\ c # new
    BY <1>a
  <2> QED BY <2>1, <1>f DEF IInv, Frames, ReadRetryAttempt
<1>5. Durability'
  BY <1>f DEF IInv, Durability
<1>7. NacksDeserved'
  <2> SUFFICES ASSUME NEW s \in Session, NEW d \in Copy,
                      (chan[s] = "open" /\ (pc[s][d] = "nack" \/ outSettle[s][d] = "nack"))'
               PROVE  Rejectable(body[d].msg)'
    BY DEF NacksDeserved
  <2>1. Rejectable(body[d].msg) /\ d # new
    BY <1>a, BrokerAssumption DEF IInv, NacksDeserved
  <2> QED BY <2>1, <1>f, OutcomesStay
<1> QED BY <1>1, <1>2, <1>3, <1>4, <1>5, <1>7 DEF IInv

\* A publisher adds a message: the new copy carries it from the start.
LEMMA PublishStep ==
    ASSUME IInv, NEW m \in Msg, Publish(m)
    PROVE  IInv'
<1>1. PICK h \in FirstHeaders :
        Enqueue("ready", [msg |-> m, attempt |-> h, persistent |-> TRUE])
  BY DEF Publish
<1> DEFINE b == [msg |-> m, attempt |-> h, persistent |-> TRUE]
<1>2. b \in Body /\ b.persistent
  BY ConsumerAssumption DEF Body, Header
<1>u. UNCHANGED <<owner, chan, outPub, outSettle, args, bound, pc, calls>>
  BY DEF Publish
<1>f. PICK new \in Copy :
      /\ body[new] = None
      /\ place'[new] = "ready" /\ body'[new] = b
      /\ \A d \in Copy \ {new} : body'[d] = body[d] /\ place'[d] = place[d]
  BY <1>1, <1>2, EnqueueFacts DEF Places
<1>k. KeepsCopies
  BY <1>f, <1>u DEF KeepsCopies
<1>3. AcksCovered'
  <2> SUFFICES ASSUME NEW s \in Session, NEW d \in Copy,
                      (chan[s] = "open" /\ (pc[s][d] = "ack" \/ outSettle[s][d] = "ack"))',
                      outPub'[s][d] = None
               PROVE  Covered(d)'
    BY DEF AcksCovered
  <2>1. Covered(d) /\ body[d] # None
    BY <1>u, ActiveHasBody, BrokerAssumption DEF IInv, AcksCovered
  <2> QED BY <2>1, <1>k, CoveredStays
<1>4. Accounted'
  <2> SUFFICES ASSUME NEW n \in Msg, Published(n)'
               PROVE  (\/ Handled(n)
                       \/ \E c \in Copy : body[c] # None /\ body[c].msg = n /\ Live(c)
                       \/ Rejectable(n))'
    BY DEF Accounted, Held
  <2>1. CASE n = m
    <3>1. b # None /\ b.msg = m
      BY <1>2, BodyAssumption
    <3>2. body'[new] # None /\ body'[new].msg = n
      BY <2>1, <3>1, <1>f
    <3>3. Live(new)'
      BY <1>f DEF Live
    <3> QED BY <3>2, <3>3
  <2>2. CASE n # m
    <3>1. Published(n)
      BY <2>2, <1>f DEF Published
    <3>2. CASE Handled(n) \/ Rejectable(n)
      BY <3>2, <1>u, OutcomesStay
    <3>3. CASE \E c \in Copy : body[c] # None /\ body[c].msg = n /\ Live(c)
      BY <3>3, <1>f DEF Live
    <3> QED BY <3>1, <3>2, <3>3 DEF IInv, Accounted, Held
  <2> QED BY <2>1, <2>2
<1>5. outPub' \in [Session -> [Copy -> Frame \cup {None}]]
  BY <1>u DEF IInv, TypeOK, BrokerTypeOK
<1>6. Enqueue("ready", b)
  BY <1>1
<1> HIDE DEF b
<1> QED BY <1>6, <1>2, <1>u, <1>3, <1>4, <1>5, EnqueueStep

\* The broker receives a retry or a dead letter: the new copy continues the delivery
\* it was published for, which may be acked from here on (topology.rs:76-159).
LEMMA RecvPublishStep ==
    ASSUME IInv, NEW s \in Session, NEW c \in Copy, BrokerRecvPublish(s, c)
    PROVE  IInv'
<1> DEFINE f == outPub[s][c]
           b == f.body
           p == IF f.to = Dlq THEN "dlq" ELSE "delayed"
<1>1. /\ chan[s] = "open" /\ f # None
      /\ Enqueue(p, b)
      /\ outPub' = [outPub EXCEPT ![s][c] = None]
      /\ UNCHANGED <<owner, chan, outSettle, args, bound, pc, calls>>
  BY DEF BrokerRecvPublish, RecvPublish
<1>t. outPub \in [Session -> [Copy -> Frame \cup {None}]]
  BY DEF IInv, TypeOK, BrokerTypeOK
<1>2. b \in Body
  BY <1>1, <1>t DEF Frame
<1>3. /\ HasRetry /\ b.msg = body[c].msg /\ b.persistent
      /\ f.to = Dlq \/ ReadRetryAttempt(b) > Attempt(c)
  BY <1>1 DEF IInv, Frames
<1>4. p \in {"ready", "delayed", "dlq"} /\ p \in Places
  BY DEF Places
<1>5. /\ outPub' \in [Session -> [Copy -> Frame \cup {None}]]
      /\ outPub'[s][c] = None
      /\ \A t \in Session, d \in Copy : <<t, d>> # <<s, c>> => outPub'[t][d] = outPub[t][d]
  BY <1>1, <1>t
<1>f. PICK new \in Copy :
      /\ body[new] = None
      /\ place'[new] = p /\ body'[new] = b
      /\ \A d \in Copy \ {new} : /\ body'[d] = body[d]
                                  /\ place'[d] = place[d]
                                  /\ Attempt(d)' = Attempt(d)
  BY <1>1, <1>2, <1>4, EnqueueFacts
<1>k. KeepsCopies
  BY <1>f, <1>1 DEF KeepsCopies
<1>6. Covered(c)'
  <2>1. body[c] # None
    BY <1>1, ActiveHasBody
  <2>2. Attempt(new)' = ReadRetryAttempt(b)
    BY <1>f DEF Attempt, ReadRetryAttempt
  <2>3. Continues(new, c)'
    BY <2>1, <2>2, <1>2, <1>3, <1>f, BodyAssumption DEF Continues
  <2> QED BY <2>3, <1>f DEF Covered
<1>7. AcksCovered'
  <2> SUFFICES ASSUME NEW t \in Session, NEW d \in Copy,
                      (chan[t] = "open" /\ (pc[t][d] = "ack" \/ outSettle[t][d] = "ack"))',
                      outPub'[t][d] = None
               PROVE  Covered(d)'
    BY DEF AcksCovered
  <2>1. CASE <<t, d>> = <<s, c>>
    BY <2>1, <1>6
  <2>2. CASE <<t, d>> # <<s, c>>
    <3>1. Covered(d) /\ body[d] # None
      BY <2>2, <1>1, <1>5, ActiveHasBody, BrokerAssumption DEF IInv, AcksCovered
    <3> QED BY <3>1, <1>k, CoveredStays
  <2> QED BY <2>1, <2>2
<1>8. Accounted'
  <2>1. \A m \in Msg : Published(m)' => Published(m)
    <3> SUFFICES ASSUME NEW m \in Msg, NEW d \in Copy, body'[d] # None, body'[d].msg = m
                 PROVE  Published(m)
      BY DEF Published
    <3>1. CASE d = new
      <4>1. body[c] # None /\ body[c].msg = m
        BY <3>1, <1>1, <1>3, <1>f, ActiveHasBody
      <4> QED BY <4>1 DEF Published
    <3>2. CASE d # new
      BY <3>2, <1>f DEF Published
    <3> QED BY <3>1, <3>2
  <2> QED BY <2>1, <1>k, AccountedStays
<1>9. p = "delayed" => HasRetry /\ (DelayedExchange => bound)
  BY <1>1, <1>3 DEF IInv, Durability
<1> HIDE DEF f, b, p
<1> QED BY <1>1, <1>2, <1>3, <1>4, <1>5, <1>7, <1>8, <1>9, EnqueueStep

-----------------------------------------------------------------------------
(* Steps that move no copy and no task to a step that settles. *)

\* The copies, their owners and the calls stay, tasks stay or go on to a step
\* that is not a nack, channels stay or leave "new", and no settlement appears.
LEMMA QuietStep ==
    ASSUME IInv, TypeOK',
           UNCHANGED <<place, body, owner, outSettle, calls>>,
           Tasks', Frames', Ownership',
           HasRetry /\ DelayedExchange =>
               /\ bound => bound'
               /\ \A s \in Session : (chan[s] = "open")' => bound',
           \A s \in Session, c \in Copy :
               /\ (pc[s][c] = "nack")' => pc[s][c] = "nack"
               /\ (pc[s][c] = "ack")' => pc[s][c] = "ack" \/ outPub'[s][c] # None
               /\ outPub[s][c] = None \/ outPub'[s][c] # None
               /\ pc'[s][c] # "none" \/ outSettle'[s][c] # None
                    => ((chan[s] = "open")' => chan[s] = "open")
    PROVE  IInv'
<1>k. KeepsCopies
  BY DEF KeepsCopies
<1>5. Durability'
  BY DEF IInv, Durability
<1>6. AcksCovered'
  <2> SUFFICES ASSUME NEW s \in Session, NEW d \in Copy,
                      (chan[s] = "open" /\ (pc[s][d] = "ack" \/ outSettle[s][d] = "ack"))',
                      outPub'[s][d] = None
               PROVE  Covered(d)'
    BY DEF AcksCovered
  <2>1. Covered(d) /\ body[d] # None
    BY ActiveHasBody, BrokerAssumption DEF IInv, AcksCovered
  <2> QED BY <2>1, <1>k, CoveredStays
<1>7. NacksDeserved'
  <2> SUFFICES ASSUME NEW s \in Session, NEW d \in Copy,
                      (chan[s] = "open" /\ (pc[s][d] = "nack" \/ outSettle[s][d] = "nack"))'
               PROVE  Rejectable(body[d].msg)'
    BY DEF NacksDeserved
  <2>1. Rejectable(body[d].msg)
    BY BrokerAssumption DEF IInv, NacksDeserved
  <2> QED BY <2>1, OutcomesStay
<1>8. Accounted'
  BY <1>k, AccountedStays DEF Published
<1> QED BY <1>5, <1>6, <1>7, <1>8 DEF IInv

\* A session starts, with the binding the delay exchange needs, or fails to start
\* (mod.rs:151-174).
LEMMA StartStep ==
    ASSUME IInv, NEW s \in Session, StartConsumerChannel(s) \/ StartFails(s)
    PROVE  IInv'
<1>u. /\ UNCHANGED <<place, body, owner, outPub, outSettle, args, pc, calls>>
      /\ chan[s] = "new"
      /\ chan' = [chan EXCEPT ![s] = "open"] \/ chan' = [chan EXCEPT ![s] = "closed"]
      /\ bound' = (bound \/ (HasRetry /\ DelayedExchange)) \/ bound' = bound
  BY DEF StartConsumerChannel, StartFails
<1>t. TypeOK BY DEF IInv
<1>c. /\ chan' \in [Session -> {"new", "open", "closed"}]
      /\ \A t \in Session : t # s => chan'[t] = chan[t]
      /\ chan'[s] \in {"open", "closed"}
  BY <1>t, <1>u DEF TypeOK, BrokerTypeOK
<1>n. \A c \in Copy : pc[s][c] = "none" /\ owner[c] # s
                      /\ outPub[s][c] = None /\ outSettle[s][c] = None
  BY <1>u DEF IInv, Tasks, Ownership, Frames
<1>b. bound' \in BOOLEAN
  BY <1>t, <1>u DEF TypeOK, BrokerTypeOK
<1>1. TypeOK'
  BY <1>t, <1>u, <1>c, <1>b DEF TypeOK, BrokerTypeOK, ConsumerTypeOK
<1>2. Ownership'
  BY <1>u, <1>c, <1>n DEF IInv, Ownership
<1>a. \A d \in Copy : Attempt(d)' = Attempt(d)
  BY <1>u DEF Attempt, ReadRetryAttempt
<1>3. Tasks'
  BY <1>u, <1>c, <1>n, <1>a DEF IInv, Tasks, Retries, RetryDelay
<1>4. Frames'
  BY <1>u, <1>a DEF IInv, Frames, ReadRetryAttempt
<1>5. HasRetry /\ DelayedExchange =>
         /\ bound => bound'
         /\ \A t \in Session : (chan[t] = "open")' => bound'
  <2>1. CASE StartConsumerChannel(s)
    <3>1. bound' = (bound \/ (HasRetry /\ DelayedExchange))
      BY <2>1 DEF StartConsumerChannel
    <3> QED BY <3>1, Zenon
  <2>2. CASE StartFails(s)
    <3>1. /\ bound' = bound
          /\ \A t \in Session : chan'[t] = "open" => chan[t] = "open"
      BY <2>2, <1>t DEF StartFails, TypeOK, BrokerTypeOK
    <3>2. HasRetry /\ DelayedExchange => \A t \in Session : chan[t] = "open" => bound
      BY DEF IInv, Durability
    <3> QED BY <3>1, <3>2, Zenon
  <2> QED BY <2>1, <2>2
<1>6. \A t \in Session, c \in Copy :
         pc'[t][c] # "none" \/ outSettle'[t][c] # None
             => ((chan[t] = "open")' => chan[t] = "open")
  BY <1>u, <1>c, <1>n
<1> QED BY <1>1, <1>2, <1>3, <1>4, <1>5, <1>6, <1>u, QuietStep

\* The broker declares a queue, or finds it declared alike.
LEMMA DeclareStep ==
    ASSUME IInv, NEW s \in Session, NEW c \in Copy,
           NEW q \in Queue, NEW ttl \in Ttl \cup {NoTtl},
           NEW next \in {"publish", "publish_dlq"},
           pc[s][c] \in {"declare", "declare_dlq"},
           next = "publish" => Retries(Attempt(c)),
           next = "publish_dlq" => HasRetry,
           args' = [args EXCEPT ![q] = ttl],
           Goto(s, c, next),
           UNCHANGED <<place, body, owner, chan, outPub, outSettle, bound, calls>>
    PROVE  IInv'
<1>t. TypeOK BY DEF IInv
<1>pc. /\ pc' \in [Session -> [Copy -> Steps]]
       /\ pc'[s][c] = next
       /\ \A t \in Session, d \in Copy : <<t, d>> # <<s, c>> => pc'[t][d] = pc[t][d]
  BY <1>t DEF Goto, TypeOK, ConsumerTypeOK, Steps
<1>1. TypeOK'
  BY <1>t, <1>pc DEF TypeOK, BrokerTypeOK, ConsumerTypeOK
<1>2. Ownership'
  BY DEF IInv, Ownership
<1>a. \A d \in Copy : Attempt(d)' = Attempt(d)
  BY DEF Attempt, ReadRetryAttempt
<1>3. Tasks'
  <2> SUFFICES ASSUME NEW t \in Session, NEW d \in Copy
               PROVE (/\ pc[t][d] # "none" => body[d] # None /\ chan[t] # "new"
                      /\ pc[t][d] # "none" /\ chan[t] = "open" => owner[d] = t
                      /\ pc[t][d] \in {"declare", "publish"} => Retries(Attempt(d))
                      /\ pc[t][d] \in {"declare_dlq", "publish_dlq"} => HasRetry)'
    BY DEF Tasks
  <2>1. CASE <<t, d>> = <<s, c>>
    BY <2>1, <1>pc, <1>a DEF IInv, Tasks, Retries, RetryDelay
  <2>2. CASE <<t, d>> # <<s, c>>
    BY <2>2, <1>pc, <1>a DEF IInv, Tasks, Retries, RetryDelay
  <2> QED BY <2>1, <2>2
<1>4. Frames'
  <2>1. \A t \in Session, d \in Copy : outSettle[t][d] # None => <<t, d>> # <<s, c>>
    BY DEF IInv, Frames
  <2> QED BY <2>1, <1>pc, <1>a DEF IInv, Frames, ReadRetryAttempt
<1>5. HasRetry /\ DelayedExchange =>
         /\ bound => bound'
         /\ \A t \in Session : (chan[t] = "open")' => bound'
  BY DEF IInv, Durability
<1>6. \A t \in Session, d \in Copy :
         /\ (pc[t][d] = "nack")' => pc[t][d] = "nack"
         /\ (pc[t][d] = "ack")' => pc[t][d] = "ack"
  BY <1>pc
<1> QED BY <1>1, <1>2, <1>3, <1>4, <1>5, <1>6, QuietStep

\* A task writes a publish frame ahead of its ack.
LEMMA WriteStep ==
    ASSUME IInv, NEW s \in Session, NEW c \in Copy, NEW frame \in Frame,
           pc[s][c] \in {"publish", "publish_dlq"}, chan[s] = "open",
           frame.body.msg = body[c].msg, frame.body.persistent,
           frame.to = Dlq \/ ReadRetryAttempt(frame.body) > Attempt(c),
           outPub' = [outPub EXCEPT ![s][c] = frame],
           Goto(s, c, "ack"),
           UNCHANGED <<place, body, owner, chan, outSettle, args, bound, calls>>
    PROVE  IInv'
<1>t. TypeOK BY DEF IInv
<1>pc. /\ pc' \in [Session -> [Copy -> Steps]]
       /\ pc'[s][c] = "ack"
       /\ \A t \in Session, d \in Copy : <<t, d>> # <<s, c>> => pc'[t][d] = pc[t][d]
  BY <1>t DEF Goto, TypeOK, ConsumerTypeOK, Steps
<1>o. /\ outPub' \in [Session -> [Copy -> Frame \cup {None}]]
      /\ outPub'[s][c] = frame
      /\ \A t \in Session, d \in Copy : <<t, d>> # <<s, c>> => outPub'[t][d] = outPub[t][d]
  BY <1>t DEF TypeOK, BrokerTypeOK
<1>n. frame # None BY BodyAssumption
<1>1. TypeOK'
  BY <1>t, <1>pc, <1>o DEF TypeOK, BrokerTypeOK, ConsumerTypeOK
<1>2. Ownership'
  BY DEF IInv, Ownership
<1>a. \A d \in Copy : Attempt(d)' = Attempt(d)
  BY DEF Attempt, ReadRetryAttempt
<1>3. Tasks'
  <2> SUFFICES ASSUME NEW t \in Session, NEW d \in Copy
               PROVE (/\ pc[t][d] # "none" => body[d] # None /\ chan[t] # "new"
                      /\ pc[t][d] # "none" /\ chan[t] = "open" => owner[d] = t
                      /\ pc[t][d] \in {"declare", "publish"} => Retries(Attempt(d))
                      /\ pc[t][d] \in {"declare_dlq", "publish_dlq"} => HasRetry)'
    BY DEF Tasks
  <2>1. CASE <<t, d>> = <<s, c>>
    BY <2>1, <1>pc, <1>a DEF IInv, Tasks, Retries, RetryDelay
  <2>2. CASE <<t, d>> # <<s, c>>
    BY <2>2, <1>pc, <1>a DEF IInv, Tasks, Retries, RetryDelay
  <2> QED BY <2>1, <2>2
<1>h. HasRetry /\ owner[c] = s /\ outSettle[s][c] = None
  BY DEF IInv, Tasks, Frames, Retries
<1>4. Frames'
  <2> SUFFICES ASSUME NEW t \in Session, NEW d \in Copy
               PROVE (/\ outPub[t][d] # None \/ outSettle[t][d] # None => owner[d] = t
                      /\ outSettle[t][d] # None => pc[t][d] = "none"
                      /\ outPub[t][d] # None =>
                            /\ HasRetry
                            /\ outPub[t][d].body.msg = body[d].msg
                            /\ outPub[t][d].body.persistent
                            /\ \/ outPub[t][d].to = Dlq
                               \/ ReadRetryAttempt(outPub[t][d].body) > Attempt(d))'
    BY DEF Frames
  <2>1. CASE <<t, d>> = <<s, c>>
    BY <2>1, <1>pc, <1>o, <1>a, <1>h DEF ReadRetryAttempt
  <2>2. CASE <<t, d>> # <<s, c>>
    BY <2>2, <1>pc, <1>o, <1>a DEF IInv, Frames, ReadRetryAttempt
  <2> QED BY <2>1, <2>2
<1>5. HasRetry /\ DelayedExchange =>
         /\ bound => bound'
         /\ \A t \in Session : (chan[t] = "open")' => bound'
  BY DEF IInv, Durability
<1>6. \A t \in Session, d \in Copy :
         /\ (pc[t][d] = "nack")' => pc[t][d] = "nack"
         /\ (pc[t][d] = "ack")' => pc[t][d] = "ack" \/ outPub'[t][d] # None
         /\ outPub[t][d] = None \/ outPub'[t][d] # None
  BY <1>pc, <1>o, <1>n
<1> QED BY <1>1, <1>2, <1>3, <1>4, <1>5, <1>6, QuietStep

\* A delivery arrives: the copy is owned by an open session, its task waits for a
\* permit (raw.rs:31-33).
LEMMA DeliverStep ==
    ASSUME IInv, NEW s \in Session, NEW c \in Copy, Deliver(s, c)
    PROVE  IInv'
<1>u. /\ chan[s] = "open" /\ place[c] = "ready"
      /\ place' = [place EXCEPT ![c] = "unacked"]
      /\ owner' = [owner EXCEPT ![c] = s]
      /\ pc' = [pc EXCEPT ![s][c] = "buffered"]
      /\ body' = body /\ chan' = chan /\ outPub' = outPub /\ outSettle' = outSettle
      /\ args' = args /\ bound' = bound /\ calls' = calls
  BY DEF Deliver, Send, Goto
<1>t. TypeOK BY DEF IInv
<1>pc. /\ pc' \in [Session -> [Copy -> Steps]]
       /\ pc'[s][c] = "buffered"
       /\ \A t \in Session, d \in Copy : <<t, d>> # <<s, c>> => pc'[t][d] = pc[t][d]
  BY <1>t, <1>u DEF TypeOK, ConsumerTypeOK, Steps
<1>p. /\ place' \in [Copy -> Places] /\ place'[c] = "unacked"
      /\ owner' \in [Copy -> Session \cup {None}] /\ owner'[c] = s
      /\ \A d \in Copy \ {c} : place'[d] = place[d] /\ owner'[d] = owner[d]
  BY <1>t, <1>u DEF TypeOK, BrokerTypeOK, Places
<1>b. body[c] # None /\ owner[c] = None
  BY <1>u DEF IInv, Ownership
<1>k. KeepsCopies
  BY <1>u, <1>p DEF KeepsCopies
<1>a. \A d \in Copy : Attempt(d)' = Attempt(d)
  BY <1>u DEF Attempt, ReadRetryAttempt
<1>1. TypeOK'
  BY <1>t, <1>u, <1>pc, <1>p DEF TypeOK, BrokerTypeOK, ConsumerTypeOK
<1>2. Ownership'
  BY <1>u, <1>p, <1>b, BrokerAssumption DEF IInv, Ownership
<1>n. \A t \in Session :
         /\ outPub[t][c] = None /\ outSettle[t][c] = None
         /\ pc[t][c] # "none" => chan[t] # "open"
  BY <1>b, BrokerAssumption DEF IInv, Tasks, Frames
<1>3. Tasks'
  <2> SUFFICES ASSUME NEW t \in Session, NEW d \in Copy
               PROVE (/\ pc[t][d] # "none" => body[d] # None /\ chan[t] # "new"
                      /\ pc[t][d] # "none" /\ chan[t] = "open" => owner[d] = t
                      /\ pc[t][d] \in {"declare", "publish"} => Retries(Attempt(d))
                      /\ pc[t][d] \in {"declare_dlq", "publish_dlq"} => HasRetry)'
    BY DEF Tasks
  <2>1. CASE <<t, d>> = <<s, c>>
    BY <2>1, <1>u, <1>pc, <1>p, <1>b
  <2>2. CASE <<t, d>> # <<s, c>>
    <3>1. /\ pc'[t][d] = pc[t][d] /\ chan'[t] = chan[t] /\ body'[d] = body[d]
          /\ pc[t][d] # "none" /\ chan[t] = "open" => owner[d] = t /\ d # c
      BY <2>2, <1>u, <1>pc, <1>n DEF IInv, Tasks
    <3>2. pc[t][d] # "none" /\ chan[t] = "open" => owner'[d] = t
      BY <3>1, <1>p
    <3> QED BY <3>1, <3>2, <1>a DEF IInv, Tasks, Retries, RetryDelay
  <2> QED BY <2>1, <2>2
<1>4. Frames'
  <2> SUFFICES ASSUME NEW t \in Session, NEW d \in Copy
               PROVE (/\ outPub[t][d] # None \/ outSettle[t][d] # None => owner[d] = t
                      /\ outSettle[t][d] # None => pc[t][d] = "none"
                      /\ outPub[t][d] # None =>
                            /\ HasRetry
                            /\ outPub[t][d].body.msg = body[d].msg
                            /\ outPub[t][d].body.persistent
                            /\ \/ outPub[t][d].to = Dlq
                               \/ ReadRetryAttempt(outPub[t][d].body) > Attempt(d))'
    BY DEF Frames
  <2>1. CASE d = c
    <3>1. outPub'[t][d] = None /\ outSettle'[t][d] = None
      BY <2>1, <1>u, <1>n
    <3> QED BY <3>1
  <2>2. CASE d # c
    BY <2>2, <1>u, <1>pc, <1>p, <1>a DEF IInv, Frames, ReadRetryAttempt
  <2> QED BY <2>1, <2>2
<1>5. Durability'
  BY <1>u, <1>p DEF IInv, Durability
<1>6. AcksCovered'
  <2> SUFFICES ASSUME NEW t \in Session, NEW d \in Copy,
                      (chan[t] = "open" /\ (pc[t][d] = "ack" \/ outSettle[t][d] = "ack"))',
                      outPub'[t][d] = None
               PROVE  Covered(d)'
    BY DEF AcksCovered
  <2>1. pc[t][d] = "ack" \/ outSettle[t][d] = "ack"
    BY <1>u, <1>pc
  <2>2. Covered(d) /\ body[d] # None
    BY <2>1, <1>u, ActiveHasBody, BrokerAssumption DEF IInv, AcksCovered
  <2> QED BY <2>2, <1>k, CoveredStays
<1>7. NacksDeserved'
  <2> SUFFICES ASSUME NEW t \in Session, NEW d \in Copy,
                      (chan[t] = "open" /\ (pc[t][d] = "nack" \/ outSettle[t][d] = "nack"))'
               PROVE  Rejectable(body[d].msg)'
    BY DEF NacksDeserved
  <2>1. pc[t][d] = "nack" \/ outSettle[t][d] = "nack"
    BY <1>u, <1>pc
  <2>2. Rejectable(body[d].msg)
    BY <2>1, <1>u DEF IInv, NacksDeserved
  <2> QED BY <2>2, <1>u, OutcomesStay
<1>8. Accounted'
  BY <1>u, <1>k, AccountedStays DEF Published
<1> QED BY <1>1, <1>2, <1>3, <1>4, <1>5, <1>6, <1>7, <1>8 DEF IInv

\* A delay runs out, or a dead letter does: only the copy's place changes.
LEMMA ExpiryStep ==
    ASSUME IInv, NEW c \in Copy, RetryDue(c) \/ DlqTtlPasses(c)
    PROVE  IInv'
<1>u. UNCHANGED <<body, owner, chan, outPub, outSettle, args, bound, pc, calls>>
  BY DEF RetryDue, DlqTtlPasses, ExpireRetry, ExpireDlq
<1>t. TypeOK BY DEF IInv
<1>p. \/ place[c] = "delayed" /\ place' = [place EXCEPT ![c] = "ready"]
      \/ place[c] = "dlq" /\ place' = [place EXCEPT ![c] = "expired"]
  <2>1. CASE RetryDue(c)
    <3>1. /\ place[c] = "delayed"
          /\ place' = [place EXCEPT ![c] = IF DelayedExchange /\ ~bound THEN "lost" ELSE "ready"]
      BY <2>1 DEF RetryDue, ExpireRetry
    <3>2. ~(DelayedExchange /\ ~bound)
      BY <3>1 DEF IInv, Durability
    <3> QED BY <3>1, <3>2
  <2>2. CASE DlqTtlPasses(c)
    BY <2>2 DEF DlqTtlPasses, ExpireDlq
  <2> QED BY <2>1, <2>2
<1>d. \A d \in Copy \ {c} : place'[d] = place[d]
  BY <1>t, <1>p DEF TypeOK, BrokerTypeOK
<1>c. \/ place[c] = "delayed" /\ place'[c] = "ready"
      \/ place[c] = "dlq" /\ place'[c] = "expired"
  BY <1>t, <1>p DEF TypeOK, BrokerTypeOK
<1>k. KeepsCopies
  BY <1>u, <1>d, <1>c DEF KeepsCopies
<1>a. \A d \in Copy : Attempt(d)' = Attempt(d)
  BY <1>u DEF Attempt, ReadRetryAttempt
<1>1. TypeOK'
  <2>1. place' \in [Copy -> Places]
    BY <1>t, <1>p DEF TypeOK, BrokerTypeOK, Places
  <2> QED BY <2>1, <1>t, <1>u DEF TypeOK, BrokerTypeOK, ConsumerTypeOK
<1>2. Ownership'
  BY <1>u, <1>d, <1>c DEF IInv, Ownership
<1>3. Tasks'
  BY <1>u, <1>a DEF IInv, Tasks, Retries, RetryDelay
<1>4. Frames'
  BY <1>u, <1>a DEF IInv, Frames, ReadRetryAttempt
<1>5. Durability'
  BY <1>u, <1>d, <1>c DEF IInv, Durability
<1>6. AcksCovered'
  <2> SUFFICES ASSUME NEW t \in Session, NEW d \in Copy,
                      (chan[t] = "open" /\ (pc[t][d] = "ack" \/ outSettle[t][d] = "ack"))',
                      outPub'[t][d] = None
               PROVE  Covered(d)'
    BY DEF AcksCovered
  <2>2. Covered(d) /\ body[d] # None
    BY <1>u, ActiveHasBody, BrokerAssumption DEF IInv, AcksCovered
  <2> QED BY <2>2, <1>k, CoveredStays
<1>7. NacksDeserved'
  BY <1>u, OutcomesStay DEF IInv, NacksDeserved
<1>8. Accounted'
  BY <1>u, <1>k, AccountedStays DEF Published
<1> QED BY <1>1, <1>2, <1>3, <1>4, <1>5, <1>6, <1>7, <1>8 DEF IInv

-----------------------------------------------------------------------------
(* Settlements. *)

\* A task writes its ack or nack; on a closed channel nothing is written
\* (mod.rs:176-198).
LEMMA SettleStep ==
    ASSUME IInv, NEW s \in Session, NEW c \in Copy, NEW kind \in {"ack", "nack"},
           Settle(s, c, kind)
    PROVE  IInv'
<1>u. /\ pc[s][c] = kind
      /\ outSettle' = IF chan[s] = "open" THEN [outSettle EXCEPT ![s][c] = kind] ELSE outSettle
      /\ pc' = [pc EXCEPT ![s][c] = "none"]
      /\ UNCHANGED <<place, body, owner, chan, outPub, args, bound, calls>>
  BY DEF Settle, Goto
<1>t. TypeOK BY DEF IInv
<1>pc. /\ pc' \in [Session -> [Copy -> Steps]]
       /\ pc'[s][c] = "none"
       /\ \A t \in Session, d \in Copy : <<t, d>> # <<s, c>> => pc'[t][d] = pc[t][d]
  BY <1>t, <1>u DEF TypeOK, ConsumerTypeOK, Steps
<1>o. /\ outSettle' \in [Session -> [Copy -> {"ack", "nack", None}]]
      /\ chan[s] = "open" => outSettle'[s][c] = kind
      /\ chan[s] # "open" => outSettle'[s][c] = outSettle[s][c]
      /\ \A t \in Session, d \in Copy : <<t, d>> # <<s, c>> => outSettle'[t][d] = outSettle[t][d]
  BY <1>t, <1>u DEF TypeOK, BrokerTypeOK
<1>k. KeepsCopies
  BY <1>u DEF KeepsCopies
<1>a. \A d \in Copy : Attempt(d)' = Attempt(d)
  BY <1>u DEF Attempt, ReadRetryAttempt
<1>1. TypeOK'
  BY <1>t, <1>u, <1>pc, <1>o DEF TypeOK, BrokerTypeOK, ConsumerTypeOK
<1>2. Ownership'
  BY <1>u DEF IInv, Ownership
<1>3. Tasks'
  <2> SUFFICES ASSUME NEW t \in Session, NEW d \in Copy
               PROVE (/\ pc[t][d] # "none" => body[d] # None /\ chan[t] # "new"
                      /\ pc[t][d] # "none" /\ chan[t] = "open" => owner[d] = t
                      /\ pc[t][d] \in {"declare", "publish"} => Retries(Attempt(d))
                      /\ pc[t][d] \in {"declare_dlq", "publish_dlq"} => HasRetry)'
    BY DEF Tasks
  <2>1. CASE <<t, d>> = <<s, c>>
    BY <2>1, <1>pc
  <2>2. CASE <<t, d>> # <<s, c>>
    BY <2>2, <1>u, <1>pc, <1>a DEF IInv, Tasks, Retries, RetryDelay
  <2> QED BY <2>1, <2>2
<1>h. chan[s] = "open" => owner[c] = s
  BY <1>u DEF IInv, Tasks
<1>4. Frames'
  <2> SUFFICES ASSUME NEW t \in Session, NEW d \in Copy
               PROVE (/\ outPub[t][d] # None \/ outSettle[t][d] # None => owner[d] = t
                      /\ outSettle[t][d] # None => pc[t][d] = "none"
                      /\ outPub[t][d] # None =>
                            /\ HasRetry
                            /\ outPub[t][d].body.msg = body[d].msg
                            /\ outPub[t][d].body.persistent
                            /\ \/ outPub[t][d].to = Dlq
                               \/ ReadRetryAttempt(outPub[t][d].body) > Attempt(d))'
    BY DEF Frames
  <2>0. /\ outPub[t][d] # None \/ outSettle[t][d] # None => owner[d] = t
        /\ outSettle[t][d] # None => pc[t][d] = "none"
        /\ outPub[t][d] # None =>
              /\ HasRetry
              /\ outPub[t][d].body.msg = body[d].msg
              /\ outPub[t][d].body.persistent
              /\ \/ outPub[t][d].to = Dlq
                 \/ ReadRetryAttempt(outPub[t][d].body) > Attempt(d)
    BY DEF IInv, Frames
  <2>1. CASE <<t, d>> = <<s, c>>
    BY <2>0, <2>1, <1>u, <1>pc, <1>o, <1>a, <1>h DEF ReadRetryAttempt
  <2>2. CASE <<t, d>> # <<s, c>>
    BY <2>0, <2>2, <1>u, <1>pc, <1>o, <1>a DEF ReadRetryAttempt
  <2> QED BY <2>1, <2>2
<1>5. Durability'
  BY <1>u DEF IInv, Durability
<1>6. AcksCovered'
  <2> SUFFICES ASSUME NEW t \in Session, NEW d \in Copy,
                      (chan[t] = "open" /\ (pc[t][d] = "ack" \/ outSettle[t][d] = "ack"))',
                      outPub'[t][d] = None
               PROVE  Covered(d)'
    BY DEF AcksCovered
  <2>1. chan[t] = "open" /\ (pc[t][d] = "ack" \/ outSettle[t][d] = "ack")
    BY <1>u, <1>pc, <1>o
  <2>2. Covered(d) /\ body[d] # None
    BY <2>1, <1>u, ActiveHasBody, BrokerAssumption DEF IInv, AcksCovered
  <2> QED BY <2>2, <1>k, CoveredStays
<1>7. NacksDeserved'
  <2> SUFFICES ASSUME NEW t \in Session, NEW d \in Copy,
                      (chan[t] = "open" /\ (pc[t][d] = "nack" \/ outSettle[t][d] = "nack"))'
               PROVE  Rejectable(body[d].msg)'
    BY DEF NacksDeserved
  <2>1. chan[t] = "open" /\ (pc[t][d] = "nack" \/ outSettle[t][d] = "nack")
    BY <1>u, <1>pc, <1>o
  <2>2. Rejectable(body[d].msg)
    BY <2>1 DEF IInv, NacksDeserved
  <2> QED BY <2>2, <1>u, OutcomesStay
<1>8. Accounted'
  BY <1>u, <1>k, AccountedStays DEF Published
<1> QED BY <1>1, <1>2, <1>3, <1>4, <1>5, <1>6, <1>7, <1>8 DEF IInv

\* The broker acks or discards copy c.  Whatever c covered is covered by what
\* covers c: the attempts of a chain of copies only grow.
LEMMA RecvSettleStep ==
    ASSUME IInv, NEW s \in Session, NEW c \in Copy, BrokerRecvSettle(s, c)
    PROVE  IInv'
<1>u. /\ chan[s] = "open" /\ outSettle[s][c] # None /\ outPub[s][c] = None /\ owner[c] = s
      /\ place' = [place EXCEPT ![c] = IF outSettle[s][c] = "ack" THEN "acked" ELSE "dropped"]
      /\ owner' = [owner EXCEPT ![c] = None]
      /\ outSettle' = [outSettle EXCEPT ![s][c] = None]
      /\ UNCHANGED <<body, chan, outPub, args, bound, pc, calls>>
  BY DEF BrokerRecvSettle, RecvSettle
<1>t. TypeOK BY DEF IInv
<1>p. /\ place' \in [Copy -> Places] /\ place'[c] \in {"acked", "dropped"}
      /\ owner' \in [Copy -> Session \cup {None}] /\ owner'[c] = None
      /\ \A d \in Copy \ {c} : place'[d] = place[d] /\ owner'[d] = owner[d]
  BY <1>t, <1>u DEF TypeOK, BrokerTypeOK, Places
<1>o. /\ outSettle' \in [Session -> [Copy -> {"ack", "nack", None}]]
      /\ outSettle'[s][c] = None
      /\ \A t \in Session, d \in Copy : <<t, d>> # <<s, c>> => outSettle'[t][d] = outSettle[t][d]
  BY <1>t, <1>u DEF TypeOK, BrokerTypeOK
<1>b. body[c] # None /\ place[c] = "unacked"
  BY <1>u, BrokerAssumption DEF IInv, Ownership
<1>a. \A d \in Copy : Attempt(d)' = Attempt(d)
  BY <1>u DEF Attempt, ReadRetryAttempt
<1>n. \A d \in Copy : body[d] # None => Attempt(d) \in Nat
  BY <1>t, AttemptType DEF TypeOK, BrokerTypeOK, Attempt
<1>1. TypeOK'
  BY <1>t, <1>u, <1>p, <1>o DEF TypeOK, BrokerTypeOK, ConsumerTypeOK
<1>2. Ownership'
  BY <1>u, <1>p, <1>b, BrokerAssumption DEF IInv, Ownership
<1>x. pc[s][c] = "none" /\ \A t \in Session : t # s =>
         /\ outPub[t][c] = None /\ outSettle[t][c] = None
         /\ pc[t][c] # "none" => chan[t] # "open"
  BY <1>u DEF IInv, Frames, Tasks
<1>3. Tasks'
  <2> SUFFICES ASSUME NEW t \in Session, NEW d \in Copy
               PROVE (/\ pc[t][d] # "none" => body[d] # None /\ chan[t] # "new"
                      /\ pc[t][d] # "none" /\ chan[t] = "open" => owner[d] = t
                      /\ pc[t][d] \in {"declare", "publish"} => Retries(Attempt(d))
                      /\ pc[t][d] \in {"declare_dlq", "publish_dlq"} => HasRetry)'
    BY DEF Tasks
  <2>1. pc[t][d] # "none" /\ chan[t] = "open" => owner[d] = t /\ d # c
    BY <1>x DEF IInv, Tasks
  <2>2. pc[t][d] # "none" /\ chan[t] = "open" => owner'[d] = t
    BY <2>1, <1>p
  <2> QED BY <2>2, <1>u, <1>a DEF IInv, Tasks, Retries, RetryDelay
<1>4. Frames'
  <2> SUFFICES ASSUME NEW t \in Session, NEW d \in Copy
               PROVE (/\ outPub[t][d] # None \/ outSettle[t][d] # None => owner[d] = t
                      /\ outSettle[t][d] # None => pc[t][d] = "none"
                      /\ outPub[t][d] # None =>
                            /\ HasRetry
                            /\ outPub[t][d].body.msg = body[d].msg
                            /\ outPub[t][d].body.persistent
                            /\ \/ outPub[t][d].to = Dlq
                               \/ ReadRetryAttempt(outPub[t][d].body) > Attempt(d))'
    BY DEF Frames
  <2>1. CASE d = c
    <3>1. outPub'[t][d] = None /\ outSettle'[t][d] = None
      BY <2>1, <1>u, <1>o, <1>x
    <3> QED BY <3>1
  <2>2. CASE d # c
    BY <2>2, <1>u, <1>p, <1>o, <1>a DEF IInv, Frames, ReadRetryAttempt
  <2> QED BY <2>1, <2>2
<1>5. Durability'
  BY <1>u, <1>p DEF IInv, Durability
<1>c. Covered(c)
  <2>1. CASE outSettle[s][c] = "ack"
    BY <2>1, <1>u DEF IInv, AcksCovered
  <2>2. CASE outSettle[s][c] = "nack"
    BY <2>2, <1>u DEF IInv, NacksDeserved, Covered
  <2> QED BY <2>1, <2>2, <1>t, <1>u DEF TypeOK, BrokerTypeOK
<1>i. \A e \in Copy, d \in Copy : d # c /\ Continues(d, e) => Continues(d, e)'
  BY <1>u, <1>p, <1>a DEF Continues
<1>v. \A e \in Copy : body[e] # None /\ Covered(e) => Covered(e)'
  <2> SUFFICES ASSUME NEW e \in Copy, body[e] # None, Covered(e)
               PROVE  Covered(e)'
    OBVIOUS
  <2>1. CASE Handled(body[e].msg) \/ Rejectable(body[e].msg)
    BY <2>1, <1>u, OutcomesStay DEF Covered
  <2>2. CASE \E d \in Copy : d # c /\ Continues(d, e)
    BY <2>2, <1>i DEF Covered
  <2>3. CASE Continues(c, e)
    <3>1. body[c].msg = body[e].msg /\ Attempt(c) > Attempt(e)
      BY <2>3, <1>b DEF Continues
    <3>2. CASE Handled(body[c].msg) \/ Rejectable(body[c].msg)
      BY <3>1, <3>2, <1>u, OutcomesStay DEF Covered
    <3>3. CASE \E d \in Copy : Continues(d, c)
      <4>1. PICK d \in Copy : Continues(d, c)
        BY <3>3
      <4>2. Attempt(d) \in Nat /\ Attempt(c) \in Nat /\ Attempt(e) \in Nat
        BY <4>1, <1>n, <1>b DEF Continues
      <4>3. d # c
        BY <4>1, <4>2, <1>b DEF Continues
      <4>4. Continues(d, e)
        BY <4>1, <4>2, <3>1 DEF Continues
      <4> QED BY <4>3, <4>4, <1>i DEF Covered
    <3> QED BY <3>2, <3>3, <1>c DEF Covered
  <2> QED BY <2>1, <2>2, <2>3 DEF Covered
<1>6. AcksCovered'
  <2> SUFFICES ASSUME NEW t \in Session, NEW d \in Copy,
                      (chan[t] = "open" /\ (pc[t][d] = "ack" \/ outSettle[t][d] = "ack"))',
                      outPub'[t][d] = None
               PROVE  Covered(d)'
    BY DEF AcksCovered
  <2>1. pc[t][d] = "ack" \/ outSettle[t][d] = "ack"
    BY <1>u, <1>o, BrokerAssumption
  <2>2. Covered(d) /\ body[d] # None
    BY <2>1, <1>u, ActiveHasBody, BrokerAssumption DEF IInv, AcksCovered
  <2> QED BY <2>2, <1>v
<1>7. NacksDeserved'
  <2> SUFFICES ASSUME NEW t \in Session, NEW d \in Copy,
                      (chan[t] = "open" /\ (pc[t][d] = "nack" \/ outSettle[t][d] = "nack"))'
               PROVE  Rejectable(body[d].msg)'
    BY DEF NacksDeserved
  <2>1. pc[t][d] = "nack" \/ outSettle[t][d] = "nack"
    BY <1>u, <1>o, BrokerAssumption
  <2>2. Rejectable(body[d].msg)
    BY <2>1, <1>u DEF IInv, NacksDeserved
  <2> QED BY <2>2, <1>u, OutcomesStay
<1>8. Accounted'
  <2> SUFFICES ASSUME NEW m \in Msg, Published(m)'
               PROVE  (\/ Handled(m)
                       \/ \E d \in Copy : body[d] # None /\ body[d].msg = m /\ Live(d)
                       \/ Rejectable(m))'
    BY DEF Accounted, Held
  <2>0. Published(m)
    BY <1>u DEF Published
  <2>1. CASE Handled(m) \/ Rejectable(m)
    BY <2>1, <1>u, OutcomesStay
  <2>2. CASE \E d \in Copy : d # c /\ body[d] # None /\ body[d].msg = m /\ Live(d)
    BY <2>2, <1>u, <1>p DEF Live
  <2>3. CASE body[c].msg = m
    <3>1. CASE Handled(m) \/ Rejectable(m)
      BY <3>1, <2>1
    <3>2. CASE \E d \in Copy : Continues(d, c)
      <4>1. PICK d \in Copy : Continues(d, c)
        BY <3>2
      <4>2. Attempt(d) \in Nat /\ Attempt(c) \in Nat
        BY <4>1, <1>n, <1>b DEF Continues
      <4>3. d # c
        BY <4>1, <4>2, <1>b DEF Continues
      <4> QED BY <4>1, <4>3, <2>2, <2>3 DEF Continues, Live
    <3> QED BY <3>1, <3>2, <2>3, <1>c DEF Covered
  <2> QED BY <2>0, <2>1, <2>2, <2>3 DEF IInv, Accounted, Held
<1> QED BY <1>1, <1>2, <1>3, <1>4, <1>5, <1>6, <1>7, <1>8 DEF IInv

-----------------------------------------------------------------------------
(* The tasks' steps, one by one. *)

\* A copy in use has a body and a numeric attempt.
LEMMA BodyType ==
    ASSUME IInv, NEW c \in Copy, body[c] # None
    PROVE  body[c] \in Body /\ Attempt(c) \in Nat
BY AttemptType DEF IInv, TypeOK, BrokerTypeOK, Attempt

\* The loop takes a delivery; only one that cannot be decoded goes on to a nack
\* (raw.rs:33-89).
LEMMA DispatchStep ==
    ASSUME IInv, NEW s \in Session, NEW c \in Copy, Dispatch(s, c)
    PROVE  IInv'
<1> DEFINE step == IF body[c].msg \in Malformed THEN "nack" ELSE "handling"
<1>1. pc[s][c] # "none" /\ Goto(s, c, step) /\ UNCHANGED brokerVars /\ calls' = calls
  BY DEF Dispatch
<1>2. step \in Steps /\ step \notin {"declare", "publish", "declare_dlq", "publish_dlq", "ack"}
  BY DEF Steps
<1>3. step = "nack" => Rejectable(body[c].msg)'
  BY <1>1 DEF Rejectable, brokerVars
<1>4. calls' \in SUBSET Call
  BY <1>1 DEF IInv, TypeOK, ConsumerTypeOK
<1> HIDE DEF step
<1> QED BY <1>1, <1>2, <1>3, <1>4, MoveStep

\* The handler returned: success covers the delivery, and an error goes to a nack
\* only without a retry policy (raw.rs:95-205).
LEMMA HandlerStep ==
    ASSUME IInv, NEW s \in Session, NEW c \in Copy,
           HandlerOk(s, c) \/ HandlerErr(s, c)
    PROVE  IInv'
<1>h. /\ pc[s][c] = "handling" /\ UNCHANGED brokerVars
      /\ \/ HandlerReturns(s, c, TRUE) /\ HandlerOk(s, c)
         \/ HandlerReturns(s, c, FALSE) /\ HandlerErr(s, c)
  BY DEF HandlerOk, HandlerErr, HandlerReturns
<1>b. body[c] \in Body /\ Attempt(c) \in Nat
  BY <1>h, ActiveHasBody, BodyType
<1>u. body' = body
  BY <1>h DEF brokerVars
<1>1. CASE HandlerOk(s, c)
  <2> DEFINE call == [msg |-> body[c].msg, attempt |-> Attempt(c), ok |-> TRUE]
  <2>1. calls' = calls \cup {call} /\ Goto(s, c, "ack")
    BY <1>1 DEF HandlerOk, HandlerReturns
  <2>2. call \in Call /\ call.msg = body'[c].msg /\ call.ok
    BY <1>b, <1>u DEF Call, Body
  <2>3. calls \subseteq calls' /\ calls' \in SUBSET Call
    BY <2>1, <2>2 DEF IInv, TypeOK, ConsumerTypeOK
  <2>4. Covered(c)'
    BY <2>1, <2>2 DEF Covered, Handled
  <2>5. "ack" \in Steps
    BY DEF Steps
  <2> QED BY <1>h, <2>1, <2>3, <2>4, <2>5, MoveStep
<1>2. CASE HandlerErr(s, c)
  <2> DEFINE call == [msg |-> body[c].msg, attempt |-> Attempt(c), ok |-> FALSE]
             step == CASE Retries(Attempt(c)) -> "declare"
                       [] Exhausted(Attempt(c)) -> "declare_dlq"
                       [] OTHER -> "nack"
  <2>1. calls' = calls \cup {call} /\ Goto(s, c, step)
    BY <1>2 DEF HandlerErr, HandlerReturns
  <2>2. call \in Call /\ call.msg = body'[c].msg /\ ~call.ok
    BY <1>b, <1>u DEF Call, Body
  <2>3. calls \subseteq calls' /\ calls' \in SUBSET Call
    BY <2>1, <2>2 DEF IInv, TypeOK, ConsumerTypeOK
  <2>4. \/ step = "declare" /\ Retries(Attempt(c))
        \/ step = "declare_dlq" /\ HasRetry
        \/ step = "nack" /\ ~HasRetry
    BY DEF Retries, Exhausted
  <2>5. ~HasRetry => Rejectable(body[c].msg)'
    BY <2>1, <2>2 DEF Rejectable
  <2>6. step \in Steps
    BY <2>4 DEF Steps
  <2> HIDE DEF step
  <2>7. step \in {"declare", "publish"} => Retries(Attempt(c))
    BY <2>4
  <2>8. step \in {"declare_dlq", "publish_dlq"} => HasRetry
    BY <2>4
  <2>9. (step = "nack" => Rejectable(body[c].msg)') /\ step # "ack"
    BY <2>4, <2>5
  <2> QED BY <1>h, <2>1, <2>3, <2>6, <2>7, <2>8, <2>9, MoveStep
<1> QED BY <1>1, <1>2

\* The task panics in calculate_delay: its call has returned, and it ends
\* (raw.rs:107-109).
LEMMA CalculateDelayPanicsStep ==
    ASSUME IInv, NEW s \in Session, NEW c \in Copy, CalculateDelayPanics(s, c)
    PROVE  IInv'
<1> DEFINE call == [msg |-> body[c].msg, attempt |-> Attempt(c), ok |-> FALSE]
<1>1. /\ pc[s][c] = "handling" /\ UNCHANGED brokerVars
      /\ calls' = calls \cup {call} /\ Goto(s, c, "none")
  BY DEF CalculateDelayPanics, HandlerReturns
<1>2. call \in Call
  BY <1>1, ActiveHasBody, BodyType DEF Call, Body
<1>3. calls \subseteq calls' /\ calls' \in SUBSET Call
  BY <1>1, <1>2 DEF IInv, TypeOK, ConsumerTypeOK
<1>4. "none" \in Steps
  BY DEF Steps
<1> QED BY <1>1, <1>3, <1>4, MoveStep

\* A call fails on a closed channel, or the handler panics: the task moves on
\* to a settlement the closed channel will not carry, or ends.
LEMMA FailStep ==
    ASSUME IInv, NEW s \in Session, NEW c \in Copy, NEW step \in {"ack", "nack", "none"},
           pc[s][c] # "none", step = "none" \/ chan[s] = "closed",
           Goto(s, c, step), UNCHANGED brokerVars, calls' = calls
    PROVE  IInv'
<1>1. step \in Steps /\ step \notin {"declare", "publish", "declare_dlq", "publish_dlq"}
  BY DEF Steps
<1>2. calls' \in SUBSET Call
  BY DEF IInv, TypeOK, ConsumerTypeOK
<1> QED BY <1>1, <1>2, MoveStep

\* Every outcome of a queue_declare by a task that is entitled to go on.
LEMMA QueueDeclareStep ==
    ASSUME IInv, NEW s \in Session, NEW c \in Copy,
           NEW q \in Queue, NEW ttl \in Ttl \cup {NoTtl},
           NEW next \in {"publish", "publish_dlq"}, NEW failed \in {"ack", "nack"},
           pc[s][c] \in {"declare", "declare_dlq"},
           next = "publish" => Retries(Attempt(c)),
           next = "publish_dlq" => HasRetry,
           QueueDeclare(s, c, q, ttl, next, failed)
    PROVE  IInv'
<1>1. CASE /\ args' = [args EXCEPT ![q] = ttl]
           /\ Goto(s, c, next)
           /\ UNCHANGED <<place, body, owner, chan, outPub, outSettle, bound, calls>>
  BY <1>1, DeclareStep
<1>2. CASE chan[s] = "open" /\ Close({s}) /\ Goto(s, c, failed) /\ UNCHANGED calls
  <2>1. pc' = [pc EXCEPT ![s][c] = failed]
    BY <1>2 DEF Goto
  <2>2. pc \in [Session -> [Copy -> Steps]] /\ failed \in Steps
    BY DEF IInv, TypeOK, ConsumerTypeOK, Steps
  <2>3. /\ pc' \in [Session -> [Copy -> Steps]]
        /\ \A t \in Session, d \in Copy :
               \/ pc'[t][d] = pc[t][d]
               \/ t \in {s} /\ pc[t][d] # "none" /\ pc'[t][d] \in {"none", "ack", "nack"}
    BY <2>1, <2>2
  <2> QED BY <1>2, <2>3, CloseStep
<1>3. CASE chan[s] = "closed" /\ Goto(s, c, failed) /\ UNCHANGED <<brokerVars, calls>>
  BY <1>3, FailStep
<1> QED BY <1>1, <1>2, <1>3 DEF QueueDeclare

\* What a retry's step has established about its attempt.
LEMMA RetryAttempt ==
    ASSUME IInv, NEW s \in Session, NEW c \in Copy, pc[s][c] \in {"declare", "publish"}
    PROVE  /\ HasRetry /\ body[c] \in Body
           /\ Retries(Attempt(c))
           /\ Attempt(c) \in 0..(MaxRetries - 1)
           /\ Delay[Attempt(c)] \in Ttl
           /\ RetryQueue(Attempt(c) + 1) \in Queue
<1>1. body[c] \in Body /\ Attempt(c) \in Nat /\ Retries(Attempt(c))
  BY ActiveHasBody, BodyType DEF IInv, Tasks
<1>2. Attempt(c) \in 0..(MaxRetries - 1) /\ HasRetry /\ Delay[Attempt(c)] # None
  BY <1>1, BrokerAssumption DEF Retries, RetryDelay
<1>3. Delay[Attempt(c)] \in Ttl
  BY <1>2, ConsumerAssumption
<1>4. RetryQueue(Attempt(c) + 1) \in Queue
  BY <1>2, BrokerAssumption DEF Queue
<1> QED BY <1>1, <1>2, <1>3, <1>4

\* The declaration of a retry queue (topology.rs:11-47).
LEMMA CreateRetryQueueStep ==
    ASSUME IInv, NEW s \in Session, NEW c \in Copy, CreateRetryQueue(s, c)
    PROVE  IInv'
BY RetryAttempt, QueueDeclareStep DEF CreateRetryQueue

\* The declaration of the delay exchange (topology.rs:161-196).
LEMMA CreateDelayExchangeStep ==
    ASSUME IInv, NEW s \in Session, NEW c \in Copy, CreateDelayExchange(s, c)
    PROVE  IInv'
<1>1. pc[s][c] = "declare" /\ UNCHANGED brokerVars /\ calls' = calls
  BY DEF CreateDelayExchange
<1>2. CASE chan[s] = "open"
  <2>1. Goto(s, c, "publish") /\ Retries(Attempt(c)) /\ "publish" \in Steps
    BY <1>1, <1>2, RetryAttempt DEF CreateDelayExchange, Steps
  <2>2. calls' \in SUBSET Call
    BY <1>1 DEF IInv, TypeOK, ConsumerTypeOK
  <2> QED BY <1>1, <2>1, <2>2, MoveStep
<1>3. CASE chan[s] # "open"
  <2>1. chan[s] = "closed"
    BY <1>1, <1>3 DEF IInv, TypeOK, BrokerTypeOK, Tasks
  <2>2. Goto(s, c, "nack")
    BY <1>3 DEF CreateDelayExchange
  <2> QED BY <1>1, <2>1, <2>2, FailStep
<1> QED BY <1>2, <1>3

\* The publish of a retry: its attempt is larger than the delivery's
\* (topology.rs:104-135, 232-262).
LEMMA SendRetryStep ==
    ASSUME IInv, NEW s \in Session, NEW c \in Copy, SendRetry(s, c)
    PROVE  IInv'
<1>1. pc[s][c] = "publish" /\ BasicPublish(s, c, RetryFrame(c), "ack", "nack")
  BY DEF SendRetry
<1>2. body[c] \in Body /\ Attempt(c) \in 0..(MaxRetries - 1) /\ RetryQueue(Attempt(c) + 1) \in Queue
  BY <1>1, RetryAttempt
<1> DEFINE b == [msg |-> body[c].msg, attempt |-> Attempt(c) + 1, persistent |-> TRUE]
<1>3. b \in Body /\ b.msg = body[c].msg /\ b.persistent
  BY <1>2, BrokerAssumption DEF Body, Header
<1>4. ReadRetryAttempt(b) > Attempt(c)
  BY <1>2, BrokerAssumption DEF ReadRetryAttempt
<1>5. RetryFrame(c) \in Frame /\ RetryFrame(c).body = b
  BY <1>2, <1>3 DEF RetryFrame, Frame
<1>6. CASE chan[s] = "open"
  <2>1. /\ outPub' = [outPub EXCEPT ![s][c] = RetryFrame(c)]
        /\ Goto(s, c, "ack")
        /\ UNCHANGED <<place, body, owner, chan, outSettle, args, bound, calls>>
    BY <1>1, <1>6 DEF BasicPublish
  <2> HIDE DEF b
  <2> QED BY <1>1, <1>3, <1>4, <1>5, <1>6, <2>1, WriteStep
<1>7. CASE chan[s] # "open"
  BY <1>1, <1>7, FailStep DEF BasicPublish
<1> QED BY <1>6, <1>7

\* The declaration of the dead letter queue (topology.rs:49-74).
LEMMA CreateDlqStep ==
    ASSUME IInv, NEW s \in Session, NEW c \in Copy, CreateDlq(s, c)
    PROVE  IInv'
<1>1. pc[s][c] = "declare_dlq" /\ HasRetry
  BY DEF CreateDlq, IInv, Tasks
<1>2. Dlq \in Queue /\ DlqTtl \in Ttl \cup {NoTtl}
  BY RawAssumption DEF Queue
<1> QED BY <1>1, <1>2, QueueDeclareStep DEF CreateDlq

\* The publish of a dead letter (topology.rs:137-159).
LEMMA SendToDlqStep ==
    ASSUME IInv, NEW s \in Session, NEW c \in Copy, SendToDlq(s, c)
    PROVE  IInv'
<1>1. pc[s][c] = "publish_dlq" /\ BasicPublish(s, c, DlqFrame(c), "ack", "ack")
  BY DEF SendToDlq
<1>2. body[c] \in Body
  BY <1>1, ActiveHasBody, BodyType
<1>3. /\ DlqFrame(c) \in Frame /\ DlqFrame(c).to = Dlq
      /\ DlqFrame(c).body.msg = body[c].msg /\ DlqFrame(c).body.persistent
  BY <1>2 DEF DlqFrame, Frame, Body, Header, Queue
<1>4. CASE chan[s] = "open"
  BY <1>1, <1>3, <1>4, WriteStep DEF BasicPublish
<1>5. CASE chan[s] # "open"
  BY <1>1, <1>5, FailStep DEF BasicPublish
<1> QED BY <1>4, <1>5

-----------------------------------------------------------------------------
(* Faults. *)

\* A lost connection closes the session's channel, its tasks run on.
LEMMA ConnectionLostStep ==
    ASSUME IInv, NEW s \in Session, ConnectionLost(s)
    PROVE  IInv'
<1>1. /\ chan[s] = "open" /\ Close({s}) /\ calls' = calls
      /\ pc' \in [Session -> [Copy -> Steps]] /\ pc' = pc
  BY DEF ConnectionLost, IInv, TypeOK, ConsumerTypeOK
<1> QED BY <1>1, CloseStep

\* A crash closes the session's channel and ends its tasks.
LEMMA ProcessCrashStep ==
    ASSUME IInv, NEW s \in Session, ProcessCrash(s)
    PROVE  IInv'
<1>1. /\ chan[s] = "open" /\ Close({s}) /\ calls' = calls
      /\ pc' = [pc EXCEPT ![s] = [c \in Copy |-> "none"]]
  BY DEF ProcessCrash
<1>2. pc \in [Session -> [Copy -> Steps]] /\ "none" \in Steps
  BY DEF IInv, TypeOK, ConsumerTypeOK, Steps
<1>3. /\ pc' \in [Session -> [Copy -> Steps]]
      /\ \A t \in Session, d \in Copy :
             \/ pc'[t][d] = pc[t][d]
             \/ t \in {s} /\ pc[t][d] # "none" /\ pc'[t][d] \in {"none", "ack", "nack"}
  BY <1>1, <1>2
<1> QED BY <1>1, <1>3, CloseStep

\* A broker restart closes every open channel and loses nothing, since every copy is
\* persistent.
LEMMA BrokerRestartsStep ==
    ASSUME IInv, BrokerRestarts
    PROVE  IInv'
<1> DEFINE open == {s \in Session : chan[s] = "open"}
<1>1. /\ CloseChannels(open)
      /\ place' = [c \in Copy |-> IF c \in Transient THEN "lost" ELSE Requeued(open)[c]]
      /\ UNCHANGED <<body, args, bound, pc, calls>>
  BY DEF BrokerRestarts, BrokerRestart
<1>2. Transient = {}
  <2> SUFFICES ASSUME NEW c \in Copy, c \in Transient
               PROVE  FALSE
    BY DEF Transient
  <2>1. place[c] # "unused" /\ ~body[c].persistent
    BY DEF Transient
  <2> QED BY <2>1 DEF IInv, Ownership, Durability
<1>3. place' = Requeued(open)
  BY <1>1, <1>2 DEF Requeued
<1>4. Close(open)
  BY <1>1, <1>3 DEF Close
<1>5. pc' \in [Session -> [Copy -> Steps]] /\ pc' = pc
  BY <1>1 DEF IInv, TypeOK, ConsumerTypeOK
<1> QED BY <1>1, <1>4, <1>5, CloseStep

\* A handler that panics ends its task and settles nothing (raw.rs:95).
LEMMA HandlerPanicsStep ==
    ASSUME IInv, NEW s \in Session, NEW c \in Copy, HandlerPanics(s, c)
    PROVE  IInv'
BY FailStep DEF HandlerPanics

-----------------------------------------------------------------------------
(* The theorems. *)

\* The invariant holds before anything is published.
LEMMA InitIInv == Init => IInv
<1> SUFFICES ASSUME Init PROVE IInv
  OBVIOUS
<1>i. /\ place = [c \in Copy |-> "unused"]
      /\ body = [c \in Copy |-> None]
      /\ owner = [c \in Copy |-> None]
      /\ chan = [s \in Session |-> "new"]
      /\ outPub = [s \in Session |-> [c \in Copy |-> None]]
      /\ outSettle = [s \in Session |-> [c \in Copy |-> None]]
      /\ args \in [Queue -> Existing]
      /\ bound \in BOOLEAN
      /\ pc = [s \in Session |-> [c \in Copy |-> "none"]]
      /\ calls = {}
  BY DEF Init, ConsumerInit, BrokerInit
<1>1. TypeOK
  BY <1>i, BrokerAssumption DEF TypeOK, BrokerTypeOK, ConsumerTypeOK, Places, Steps
<1>2. Ownership
  BY <1>i, BrokerAssumption DEF Ownership
<1>3. Tasks /\ Frames /\ Durability /\ AcksCovered /\ NacksDeserved
  BY <1>i, BrokerAssumption DEF Tasks, Frames, Durability, AcksCovered, NacksDeserved
<1>4. Accounted
  BY <1>i DEF Accounted, Held, Published
<1> QED BY <1>1, <1>2, <1>3, <1>4 DEF IInv

\* Every step preserves the invariant, action by action.
LEMMA NextIInv == IInv /\ [Next]_vars => IInv'
<1> SUFFICES ASSUME IInv, [Next]_vars PROVE IInv'
  OBVIOUS
<1>1. CASE \E m \in Msg : Publish(m)
  BY <1>1, PublishStep
<1>2. CASE \E s \in Session : StartConsumerChannel(s)
  BY <1>2, StartStep
<1>3. CASE \E s \in Session, c \in Copy : TaskStep(s, c)
  <2>1. PICK s \in Session, c \in Copy : TaskStep(s, c)
    BY <1>3
  <2>2. AckDelivery(s, c) \/ NackDelivery(s, c) => IInv'
    BY SettleStep DEF AckDelivery, NackDelivery
  <2> QED
    BY <2>1, <2>2, DispatchStep, HandlerStep, CalculateDelayPanicsStep, CreateRetryQueueStep,
       CreateDelayExchangeStep, SendRetryStep, CreateDlqStep, SendToDlqStep DEF TaskStep
<1>4. CASE \E s \in Session, c \in Copy : BrokerStep(s, c)
  BY <1>4, DeliverStep, RecvPublishStep, RecvSettleStep DEF BrokerStep
<1>5. CASE \E c \in Copy : RetryDue(c) \/ DlqTtlPasses(c)
  BY <1>5, ExpiryStep
<1>6. CASE Fault
  BY <1>6, StartStep, ConnectionLostStep, ProcessCrashStep, HandlerPanicsStep, BrokerRestartsStep
     DEF Fault
<1>7. CASE UNCHANGED vars
  <2>1. UNCHANGED <<place, body, owner, chan, outPub, outSettle, args, bound, pc, calls>>
    BY <1>7 DEF vars
  <2>2. \A d \in Copy : Attempt(d)' = Attempt(d)
    BY <2>1 DEF Attempt, ReadRetryAttempt
  <2>3. TypeOK' /\ Ownership' /\ Durability'
    BY <2>1 DEF IInv, TypeOK, BrokerTypeOK, ConsumerTypeOK, Ownership, Durability
  <2>4. Tasks' /\ Frames'
    BY <2>1, <2>2 DEF IInv, Tasks, Frames, Retries, RetryDelay, ReadRetryAttempt
  <2> QED BY <2>1, <2>3, <2>4, QuietStep DEF IInv, Durability
<1> QED BY <1>1, <1>2, <1>3, <1>4, <1>5, <1>6, <1>7 DEF Next

\* The inductive invariant holds in every reachable state.
THEOREM Invariance == Spec => []IInv
BY InitIInv, NextIInv, PTL DEF Spec

\* Every variable of the raw consumer and its broker keeps its type: a retry is
\* published to a queue that exists, and attempts stay numbers.
THEOREM TypeCorrect == Spec => []TypeOK
<1>1. IInv => TypeOK BY DEF IInv
<1> QED BY <1>1, Invariance, PTL

\* On an open channel no delivery is settled twice or without being outstanding.
THEOREM SettledOnce == Spec => []SettleOnce
<1>1. IInv => SettleOnce BY DEF IInv, SettleOnce, Tasks, Frames
<1> QED BY <1>1, Invariance, PTL

\* Only messages that cannot be decoded, or that failed without a retry policy,
\* are discarded.
THEOREM DiscardsOnlyByDesign == Spec => DiscardsByDesign
<1> DEFINE Deserved == \A c \in Copy : place'[c] = "dropped" /\ place[c] # "dropped"
                           => Rejectable(body[c].msg)
<1>1. IInv /\ [Next]_vars => [Deserved]_vars
  <2> SUFFICES ASSUME IInv, Next, NEW c \in Copy, place'[c] = "dropped", place[c] # "dropped"
               PROVE  Rejectable(body[c].msg)
    BY DEF Deserved
  <2>t. place \in [Copy -> Places]
    BY DEF IInv, TypeOK, BrokerTypeOK
  <2>1. CASE \E s \in Session, d \in Copy : BrokerRecvSettle(s, d)
    <3>1. PICK s \in Session, d \in Copy : BrokerRecvSettle(s, d)
      BY <2>1
    <3>2. /\ place' = [place EXCEPT ![d] = IF outSettle[s][d] = "ack" THEN "acked" ELSE "dropped"]
          /\ chan[s] = "open" /\ outSettle[s][d] # None
      BY <3>1 DEF BrokerRecvSettle, RecvSettle
    <3>3. c = d /\ outSettle[s][d] # "ack"
      BY <3>2, <2>t
    <3>4. outSettle[s][d] = "nack"
      BY <3>2, <3>3 DEF IInv, TypeOK, BrokerTypeOK
    <3> QED BY <3>2, <3>3, <3>4 DEF IInv, NacksDeserved
  <2>2. CASE \E m \in Msg : Publish(m)
    BY <2>2, <2>t DEF Publish, Enqueue
  <2>3. CASE \E s \in Session, d \in Copy : BrokerRecvPublish(s, d)
    BY <2>3, <2>t DEF BrokerRecvPublish, RecvPublish, Enqueue
  <2>4. CASE \E s \in Session, d \in Copy : Deliver(s, d)
    BY <2>4, <2>t DEF Deliver, Send
  <2>5. CASE \E d \in Copy : RetryDue(d) \/ DlqTtlPasses(d)
    BY <2>5, <2>t DEF RetryDue, DlqTtlPasses, ExpireRetry, ExpireDlq
  <2>6. CASE \E S \in SUBSET Session : place' = Requeued(S)
    BY <2>6 DEF Requeued
  <2>7. CASE BrokerRestarts
    BY <2>7 DEF BrokerRestarts, BrokerRestart, Requeued
  <2>8. CASE \E s \in Session : ConnectionLost(s) \/ ProcessCrash(s)
    BY <2>8, <2>6 DEF ConnectionLost, ProcessCrash, Close
  <2>9. CASE \E s \in Session, d \in Copy : CreateRetryQueue(s, d) \/ CreateDlq(s, d)
    BY <2>9, <2>6 DEF CreateRetryQueue, CreateDlq, QueueDeclare, Close, brokerVars
  <2>10. CASE place' = place
    BY <2>10
  <2>11. CASE \E s \in Session, d \in Copy : SendRetry(s, d) \/ SendToDlq(s, d)
    BY <2>11 DEF SendRetry, SendToDlq, BasicPublish, brokerVars
  <2>12. CASE \E s \in Session : StartConsumerChannel(s) \/ StartFails(s)
    BY <2>12 DEF StartConsumerChannel, StartFails
  <2>13. CASE \E s \in Session, d \in Copy :
                \/ Dispatch(s, d) \/ HandlerOk(s, d) \/ HandlerErr(s, d) \/ HandlerPanics(s, d)
                \/ CalculateDelayPanics(s, d) \/ CreateDelayExchange(s, d)
                \/ AckDelivery(s, d) \/ NackDelivery(s, d)
    BY <2>13 DEF Dispatch, HandlerOk, HandlerErr, HandlerReturns, HandlerPanics,
       CalculateDelayPanics, CreateDelayExchange, AckDelivery, NackDelivery, Settle, brokerVars
  <2> QED
    BY <2>1, <2>2, <2>3, <2>4, <2>5, <2>7, <2>8, <2>9, <2>11, <2>12, <2>13
       DEF Next, TaskStep, BrokerStep, Fault
<1> QED BY <1>1, Invariance, PTL DEF Spec, DiscardsByDesign

-----------------------------------------------------------------------------
(* No delivery is forgotten, and what is not retried is handled or discarded. *)

\* What was forgotten is accounted for, and what is forgotten now was before, or
\* its task has just panicked.
LEMMA ForgottenStays ==
    ASSUME IInv, NeverForgotten, calls \subseteq calls',
           \A c \in Copy : body[c] # None => body'[c] = body[c],
           "panic" \notin Faults =>
               \A s \in Session, c \in Copy :
                   Forgotten(s, c)' => Forgotten(s, c) \/ Abandoned(c)'
    PROVE  NeverForgotten'
<1>1. ASSUME NEW c \in Copy, body[c] # None, Abandoned(c) PROVE Abandoned(c)'
  BY <1>1 DEF Abandoned, FailedAt, Attempt
<1>2. \A s \in Session, c \in Copy : Forgotten(s, c) => body[c] # None
  BY BrokerAssumption DEF Forgotten, IInv, Ownership
<1> QED BY <1>1, <1>2 DEF NeverForgotten

\* A task goes on with its delivery, and the broker does nothing.
LEMMA MoveEnds ==
    ASSUME IInv, Rejects, NeverForgotten, NEW s \in Session, NEW c \in Copy, NEW step,
           pc[s][c] # "none", Goto(s, c, step), calls \subseteq calls',
           UNCHANGED <<place, body, owner, chan, outSettle>>,
           step # "none" \/ "panic" \in Faults \/ Abandoned(c)',
           step \notin {"none", "buffered", "ack", "nack"} => body[c].msg \notin Malformed,
           step = "ack" /\ chan[s] = "open" /\ Unretried(body[c].msg) => Handled(body[c].msg)'
    PROVE  Rejects' /\ NeverForgotten'
<1>1. /\ pc'[s][c] = step
      /\ \A t \in Session, d \in Copy : <<t, d>> # <<s, c>> => pc'[t][d] = pc[t][d]
  BY DEF Goto, IInv, TypeOK, ConsumerTypeOK
<1>2. \A m : Handled(m) => Handled(m)'
  BY OutcomesStay
<1>3. outSettle[s][c] = None
  BY DEF IInv, Frames
<1>4. Rejects'
  BY <1>1, <1>2, <1>3, BrokerAssumption DEF Rejects, Unretried, Live
<1>5. NeverForgotten'
  BY <1>1, ForgottenStays DEF Forgotten
<1> QED BY <1>4, <1>5

\* The channels of sessions S close: nothing is outstanding on them any more.
LEMMA CloseEnds ==
    ASSUME IInv, Rejects, NeverForgotten, NEW S \in SUBSET Session, CloseChannels(S),
           place' = Requeued(S), UNCHANGED <<body, calls>>,
           \A t \in Session \ S : pc'[t] = pc[t],
           \A t \in Session, d \in Copy :
               pc'[t][d] \in {pc[t][d], "none", "ack", "nack"}
    PROVE  Rejects' /\ NeverForgotten'
<1>1. /\ \A t \in S : chan'[t] = "closed"
      /\ \A t \in Session \ S : chan'[t] = chan[t] /\ outSettle'[t] = outSettle[t]
      /\ \A d \in Copy : owner'[d] \in Session => owner'[d] \notin S /\ owner[d] = owner'[d]
  BY BrokerAssumption DEF CloseChannels
<1>2. \A d \in Copy : place'[d] \in {place[d], "ready"}
  BY DEF Requeued
<1>3. \A m : Handled(m)' <=> Handled(m)
  BY DEF Handled
<1>4. ASSUME NEW t \in Session, NEW d \in Copy
      PROVE  /\ pc'[t][d] \notin {"none", "buffered", "ack", "nack"} => body[d].msg \notin Malformed
             /\ Unretried(body[d].msg) /\ chan'[t] = "open"
                   /\ (pc'[t][d] = "ack" \/ outSettle'[t][d] = "ack")
                   => Handled(body[d].msg)
  <2>1. CASE t \in S
    BY <1>1, <2>1 DEF Rejects
  <2>2. CASE t \notin S
    BY <1>1, <1>3, <2>2 DEF Rejects
  <2> QED BY <2>1, <2>2
<1>5. ASSUME NEW d \in Copy, body[d] # None, Unretried(body[d].msg)
      PROVE  Handled(body[d].msg) \/ Live(d)' \/ place'[d] = "dropped"
  BY <1>2, <1>3, <1>5 DEF Rejects, Live
<1>6. Rejects'
  BY <1>3, <1>4, <1>5 DEF Rejects, Unretried
<1>7. NeverForgotten'
  BY <1>1, ForgottenStays DEF Forgotten
<1> QED BY <1>6, <1>7

\* The steps of a task that decode the payload and call the handler.
LEMMA HandlerEnds ==
    ASSUME IInv, Rejects, NeverForgotten, NEW s \in Session, NEW c \in Copy,
           \/ Dispatch(s, c) \/ HandlerOk(s, c) \/ HandlerErr(s, c)
           \/ CalculateDelayPanics(s, c) \/ HandlerPanics(s, c)
    PROVE  Rejects' /\ NeverForgotten'
<1>1. CASE Dispatch(s, c)
  BY <1>1, MoveEnds DEF Dispatch, brokerVars
<1>2. CASE HandlerOk(s, c)
  <2>1. /\ [msg |-> body[c].msg, attempt |-> Attempt(c), ok |-> TRUE] \in calls'
        /\ body' = body
    BY <1>2 DEF HandlerOk, HandlerReturns, brokerVars
  <2>2. Handled(body[c].msg)'
    BY <2>1 DEF Handled
  <2> QED BY <1>2, <2>2, MoveEnds DEF HandlerOk, HandlerReturns, brokerVars
<1>3. CASE HandlerErr(s, c)
  <2>1. body[c].msg \notin Malformed
    BY <1>3 DEF HandlerErr, HandlerReturns, Rejects
  <2> QED BY <1>3, <2>1, MoveEnds DEF HandlerErr, HandlerReturns, brokerVars
<1>4. CASE HandlerPanics(s, c)
  BY <1>4, MoveEnds DEF HandlerPanics, brokerVars
<1>5. CASE CalculateDelayPanics(s, c)
  <2>1. /\ [msg |-> body[c].msg, attempt |-> Attempt(c), ok |-> FALSE] \in calls'
        /\ body' = body
    BY <1>5 DEF CalculateDelayPanics, HandlerReturns, brokerVars
  <2>2. Abandoned(c)'
    BY <1>5, <2>1 DEF CalculateDelayPanics, Abandoned, FailedAt, Attempt
  <2> QED BY <1>5, <2>2, MoveEnds DEF CalculateDelayPanics, HandlerReturns, brokerVars
<1> QED BY <1>1, <1>2, <1>3, <1>4, <1>5

\* A declaration is refused and closes the channel, fails on a closed one, or
\* lets the task go on.
LEMMA QueueDeclareEnds ==
    ASSUME IInv, Rejects, NeverForgotten, NEW s \in Session, NEW c \in Copy,
           NEW q, NEW ttl, NEW next, NEW failed \in {"ack", "nack"},
           pc[s][c] \in {"declare", "declare_dlq"}, next \notin {"none", "ack"},
           QueueDeclare(s, c, q, ttl, next, failed)
    PROVE  Rejects' /\ NeverForgotten'
<1>1. body[c].msg \notin Malformed
  BY DEF Rejects
<1>2. CASE Goto(s, c, next) /\ UNCHANGED <<place, body, owner, chan, outSettle, calls>>
  BY <1>1, <1>2, MoveEnds
<1>3. CASE Close({s}) /\ Goto(s, c, failed) /\ UNCHANGED calls
  <2>1. /\ \A t \in Session \ {s} : pc'[t] = pc[t]
        /\ \A t \in Session, d \in Copy : pc'[t][d] \in {pc[t][d], "none", "ack", "nack"}
    BY <1>3 DEF Goto, IInv, TypeOK, ConsumerTypeOK
  <2> QED BY <1>3, <2>1, CloseEnds DEF Close
<1>4. CASE chan[s] = "closed" /\ Goto(s, c, failed) /\ UNCHANGED <<brokerVars, calls>>
  BY <1>4, MoveEnds DEF brokerVars
<1> QED BY <1>2, <1>3, <1>4 DEF QueueDeclare

\* The calls of the retry and dead letter paths.
LEMMA CallEnds ==
    ASSUME IInv, Rejects, NeverForgotten, NEW s \in Session, NEW c \in Copy,
           \/ CreateRetryQueue(s, c) \/ CreateDelayExchange(s, c) \/ SendRetry(s, c)
           \/ CreateDlq(s, c) \/ SendToDlq(s, c)
    PROVE  Rejects' /\ NeverForgotten'
<1>1. CASE CreateRetryQueue(s, c) \/ CreateDlq(s, c)
  BY <1>1, QueueDeclareEnds DEF CreateRetryQueue, CreateDlq
<1>2. CASE CreateDelayExchange(s, c)
  <2>1. body[c].msg \notin Malformed
    BY <1>2 DEF CreateDelayExchange, Rejects
  <2> QED BY <1>2, <2>1, MoveEnds DEF CreateDelayExchange, brokerVars
<1>3. CASE SendRetry(s, c) \/ SendToDlq(s, c)
  <2>1. pc[s][c] \in {"publish", "publish_dlq"}
    BY <1>3 DEF SendRetry, SendToDlq
  <2>2. ~Unretried(body[c].msg)
    BY <2>1 DEF Unretried, Rejects, IInv, Tasks, Retries
  <2>3. \E step \in {"ack", "nack"} :
            /\ Goto(s, c, step)
            /\ UNCHANGED <<place, body, owner, chan, outSettle, calls>>
    BY <1>3 DEF SendRetry, SendToDlq, BasicPublish, brokerVars
  <2> QED BY <2>1, <2>2, <2>3, MoveEnds
<1> QED BY <1>1, <1>2, <1>3

\* The task settles its delivery, or cannot because the channel is closed.
LEMMA SettleEnds ==
    ASSUME IInv, Rejects, NeverForgotten, NEW s \in Session, NEW c \in Copy,
           NEW kind \in {"ack", "nack"}, Settle(s, c, kind)
    PROVE  Rejects' /\ NeverForgotten'
<1>1. /\ pc[s][c] = kind /\ pc'[s][c] = "none"
      /\ \A t \in Session, d \in Copy : <<t, d>> # <<s, c>> =>
             pc'[t][d] = pc[t][d] /\ outSettle'[t][d] = outSettle[t][d]
      /\ chan[s] = "open" => outSettle'[s][c] = kind
      /\ chan[s] # "open" => outSettle' = outSettle
      /\ UNCHANGED <<place, body, owner, chan, calls>>
  BY DEF Settle, Goto, IInv, TypeOK, BrokerTypeOK, ConsumerTypeOK
<1>2. owner[c] = s => chan[s] = "open"
  BY DEF IInv, Ownership
<1>3. \A m : Handled(m)' <=> Handled(m)
  BY <1>1 DEF Handled
<1>4. Rejects'
  BY <1>1, <1>3 DEF Rejects, Unretried, Live
<1>5. NeverForgotten'
  BY <1>1, <1>2, ForgottenStays, BrokerAssumption DEF Forgotten
<1> QED BY <1>4, <1>5

\* The broker takes in a new copy.
LEMMA EnqueueEnds ==
    ASSUME IInv, Rejects, NeverForgotten, NEW p \in {"ready", "delayed", "dlq"}, NEW b \in Body,
           Enqueue(p, b), UNCHANGED <<owner, chan, outSettle, pc, calls>>
    PROVE  Rejects' /\ NeverForgotten'
<1>1. /\ Fresh \in Copy /\ body[Fresh] = None
      /\ \A d \in Copy \ {Fresh} : place'[d] = place[d] /\ body'[d] = body[d]
      /\ place'[Fresh] = p
  <2>1. Fresh \in Copy /\ place[Fresh] = "unused"
    BY FreshUnused DEF Enqueue
  <2> QED BY <2>1 DEF Enqueue, IInv, Ownership, TypeOK, BrokerTypeOK
<1>2. \A t \in Session : pc[t][Fresh] = "none" /\ outSettle[t][Fresh] = None
  BY <1>1, ActiveHasBody
<1>3. \A m : Handled(m)' <=> Handled(m)
  BY DEF Handled
<1>4. Rejects'
  BY <1>1, <1>2, <1>3, BrokerAssumption DEF Rejects, Unretried, Live
<1>5. NeverForgotten'
  BY <1>1, ForgottenStays DEF Forgotten
<1> QED BY <1>4, <1>5

\* Publishers and the frames the broker receives bring in new copies.
LEMMA ArrivalEnds ==
    ASSUME IInv, Rejects, NeverForgotten,
           \/ \E m \in Msg : Publish(m)
           \/ \E s \in Session, c \in Copy : BrokerRecvPublish(s, c)
    PROVE  Rejects' /\ NeverForgotten'
<1>1. CASE \E m \in Msg : Publish(m)
  <2>1. PICK m \in Msg, attempt \in FirstHeaders :
          Enqueue("ready", [msg |-> m, attempt |-> attempt, persistent |-> TRUE])
    BY <1>1 DEF Publish
  <2>2. [msg |-> m, attempt |-> attempt, persistent |-> TRUE] \in Body
    BY ConsumerAssumption DEF Body, Header
  <2> QED BY <1>1, <2>1, <2>2, EnqueueEnds DEF Publish
<1>2. CASE \E s \in Session, c \in Copy : BrokerRecvPublish(s, c)
  <2>1. PICK s \in Session, c \in Copy : BrokerRecvPublish(s, c)
    BY <1>2
  <2>2. outPub[s][c].body \in Body
    BY <2>1 DEF BrokerRecvPublish, RecvPublish, IInv, TypeOK, BrokerTypeOK, Frame
  <2> QED BY <2>1, <2>2, EnqueueEnds DEF BrokerRecvPublish, RecvPublish
<1> QED BY <1>1, <1>2

\* A delivery leaves the queue for a task, and comes to its end.
LEMMA DeliveryEnds ==
    ASSUME IInv, Rejects, NeverForgotten, NEW s \in Session, NEW c \in Copy,
           Deliver(s, c) \/ BrokerRecvSettle(s, c)
    PROVE  Rejects' /\ NeverForgotten'
<1>t. /\ place \in [Copy -> Places] /\ owner \in [Copy -> Session \cup {None}]
      /\ outSettle \in [Session -> [Copy -> {"ack", "nack", None}]]
      /\ pc \in [Session -> [Copy -> Steps]]
  BY DEF IInv, TypeOK, BrokerTypeOK, ConsumerTypeOK
<1>1. CASE Deliver(s, c)
  <2>1. /\ place'[c] = "unacked" /\ owner'[c] = s /\ pc'[s][c] = "buffered"
        /\ \A d \in Copy \ {c} : place'[d] = place[d] /\ owner'[d] = owner[d]
        /\ \A t \in Session, d \in Copy : <<t, d>> # <<s, c>> => pc'[t][d] = pc[t][d]
        /\ UNCHANGED <<body, chan, outSettle, calls>>
    BY <1>1, <1>t DEF Deliver, Send, Goto
  <2>2. \A m : Handled(m)' <=> Handled(m)
    BY <2>1 DEF Handled
  <2>3. place[c] = "ready"
    BY <1>1 DEF Deliver, Send
  <2>4. outSettle[s][c] = None
    BY <2>3, BrokerAssumption DEF IInv, Frames, Ownership
  <2>5. Rejects'
    BY <2>1, <2>2, <2>4, BrokerAssumption DEF Rejects, Unretried, Live
  <2>6. NeverForgotten'
    BY <2>1, ForgottenStays DEF Forgotten
  <2> QED BY <2>5, <2>6
<1>2. CASE BrokerRecvSettle(s, c)
  <2>1. /\ chan[s] = "open" /\ outSettle[s][c] # None
        /\ place'[c] = IF outSettle[s][c] = "ack" THEN "acked" ELSE "dropped"
        /\ owner'[c] = None /\ outSettle'[s][c] = None
        /\ \A d \in Copy \ {c} : place'[d] = place[d] /\ owner'[d] = owner[d]
        /\ \A t \in Session, d \in Copy :
               <<t, d>> # <<s, c>> => outSettle'[t][d] = outSettle[t][d]
        /\ UNCHANGED <<body, chan, pc, calls>>
    BY <1>2, <1>t DEF BrokerRecvSettle, RecvSettle
  <2>2. \A m : Handled(m)' <=> Handled(m)
    BY <2>1 DEF Handled
  <2>3. owner[c] = s
    BY <1>2 DEF BrokerRecvSettle, RecvSettle
  <2>4. Rejects'
    BY <2>1, <2>2, BrokerAssumption DEF Rejects, Unretried, Live
  <2>5. NeverForgotten'
    BY <2>1, <2>3, ForgottenStays, BrokerAssumption DEF Forgotten
  <2> QED BY <2>4, <2>5
<1> QED BY <1>1, <1>2

\* A session starts or fails to, and the timers of the broker run out.
LEMMA OtherEnds ==
    ASSUME IInv, Rejects, NeverForgotten,
           \/ \E s \in Session : StartConsumerChannel(s) \/ StartFails(s)
           \/ \E c \in Copy : RetryDue(c) \/ DlqTtlPasses(c)
           \/ UNCHANGED vars
    PROVE  Rejects' /\ NeverForgotten'
<1>1. CASE \E s \in Session : StartConsumerChannel(s) \/ StartFails(s)
  <2>1. PICK s \in Session :
          /\ chan[s] = "new" /\ chan' \in [Session -> {"new", "open", "closed"}]
          /\ \A t \in Session \ {s} : chan'[t] = chan[t]
          /\ UNCHANGED <<place, body, owner, outSettle, pc, calls>>
    BY <1>1 DEF StartConsumerChannel, StartFails, IInv, TypeOK, BrokerTypeOK
  <2>2. \A c \in Copy : pc[s][c] = "none" /\ outSettle[s][c] = None
    BY <2>1, BrokerAssumption DEF IInv, Tasks, Frames, Ownership
  <2>3. Rejects'
    BY <2>1, <2>2, BrokerAssumption DEF Rejects, Unretried, Live, Handled
  <2>4. NeverForgotten'
    BY <2>1, ForgottenStays DEF Forgotten
  <2> QED BY <2>3, <2>4
<1>2. CASE \E c \in Copy : RetryDue(c) \/ DlqTtlPasses(c)
  <2>1. PICK c \in Copy :
          /\ place[c] \in {"delayed", "dlq"}
          /\ place'[c] \in {"ready", "expired"}
          /\ \A d \in Copy \ {c} : place'[d] = place[d]
          /\ UNCHANGED <<body, owner, chan, outSettle, pc, calls>>
    BY <1>2 DEF RetryDue, DlqTtlPasses, ExpireRetry, ExpireDlq, IInv, TypeOK, BrokerTypeOK,
       Durability
  <2>2. Rejects'
    BY <2>1 DEF Rejects, Unretried, Live, Handled
  <2>3. NeverForgotten'
    BY <2>1, ForgottenStays DEF Forgotten
  <2> QED BY <2>2, <2>3
<1>3. CASE UNCHANGED vars
  <2>1. Rejects'
    BY <1>3 DEF vars, Rejects, Unretried, Live, Handled
  <2>2. NeverForgotten'
    BY <1>3, ForgottenStays DEF vars, Forgotten
  <2> QED BY <2>1, <2>2
<1> QED BY <1>1, <1>2, <1>3

\* Lost connections, crashes and restarts close channels, and persistent copies
\* survive them.
LEMMA FaultEnds ==
    ASSUME IInv, Rejects, NeverForgotten,
           (\E s \in Session : ConnectionLost(s) \/ ProcessCrash(s)) \/ BrokerRestarts
    PROVE  Rejects' /\ NeverForgotten'
<1>1. CASE \E s \in Session : ConnectionLost(s)
  BY <1>1, CloseEnds DEF ConnectionLost, Close
<1>2. CASE \E s \in Session : ProcessCrash(s)
  <2>1. PICK s \in Session : ProcessCrash(s)
    BY <1>2
  <2>2. /\ \A t \in Session \ {s} : pc'[t] = pc[t]
        /\ \A d \in Copy : pc'[s][d] = "none"
    BY <2>1 DEF ProcessCrash, IInv, TypeOK, ConsumerTypeOK
  <2>3. \A t \in Session, d \in Copy : pc'[t][d] \in {pc[t][d], "none", "ack", "nack"}
    BY <2>2
  <2> QED BY <2>1, <2>2, <2>3, CloseEnds DEF ProcessCrash, Close
<1>3. CASE BrokerRestarts
  <2>1. Transient = {}
    BY DEF Transient, IInv, Durability, Ownership
  <2>2. place' = Requeued({s \in Session : chan[s] = "open"})
    BY <1>3, <2>1 DEF BrokerRestarts, BrokerRestart, Requeued
  <2> QED BY <1>3, <2>2, CloseEnds DEF BrokerRestarts, BrokerRestart
<1> QED BY <1>1, <1>2, <1>3

\* Every step keeps both.
LEMMA NextEnds ==
    ASSUME IInv, Rejects, NeverForgotten, [Next]_vars
    PROVE  Rejects' /\ NeverForgotten'
<1>1. CASE \E s \in Session, c \in Copy : TaskStep(s, c)
  BY <1>1, HandlerEnds, CallEnds, SettleEnds DEF TaskStep, AckDelivery, NackDelivery
<1>2. CASE \E s \in Session, c \in Copy : BrokerStep(s, c)
  BY <1>2, DeliveryEnds, ArrivalEnds DEF BrokerStep
<1>3. CASE \E m \in Msg : Publish(m)
  BY <1>3, ArrivalEnds
<1>4. CASE \/ \E s \in Session : StartConsumerChannel(s)
           \/ \E c \in Copy : RetryDue(c) \/ DlqTtlPasses(c)
           \/ UNCHANGED vars
  BY <1>4, OtherEnds
<1>5. CASE Fault
  BY <1>5, HandlerEnds, OtherEnds, FaultEnds DEF Fault
<1> QED BY <1>1, <1>2, <1>3, <1>4, <1>5 DEF Next

\* They hold in every reachable state.
LEMMA AlwaysEnds == Spec => [](IInv /\ Rejects /\ NeverForgotten)
<1>1. Init => Rejects /\ NeverForgotten
  BY BrokerAssumption DEF Init, ConsumerInit, BrokerInit, Rejects, NeverForgotten, Forgotten
<1>2. IInv /\ Rejects /\ NeverForgotten /\ [Next]_vars => Rejects' /\ NeverForgotten'
  BY NextEnds
<1> QED BY <1>1, <1>2, Invariance, PTL DEF Spec

\* consume() loses no message, for any interleaving of its tasks with connection
\* losses, crashes, broker restarts and refused declarations: what is not handled
\* is in the broker, or was discarded as undecodable or for want of a policy.
THEOREM NothingLost == Spec => []NoLoss
<1>1. ASSUME IInv, Rejects PROVE NoLoss
  <2> SUFFICES ASSUME NEW m \in Msg, Published(m), ~Handled(m), ~Held(m)
               PROVE  Rejectable(m) /\ Discarded(m)
    BY DEF NoLoss
  <2>1. Rejectable(m)
    BY <1>1 DEF IInv, Accounted
  <2>2. Unretried(m)
    BY <2>1 DEF Rejectable, Unretried
  <2>3. PICK c \in Copy : body[c] # None /\ body[c].msg = m
    BY DEF Published
  <2>4. ~Live(c)
    BY <2>3 DEF Held
  <2>5. place[c] = "dropped"
    BY <1>1, <2>2, <2>3, <2>4 DEF Rejects
  <2> QED BY <2>1, <2>3, <2>5 DEF Discarded
<1> QED BY <1>1, AlwaysEnds, PTL

\* Unless a handler panics, every delivery on an open channel is with its task or
\* on the way to its settlement, or calculate_delay may have panicked on it: no
\* branch of the handler task ends without a settlement, and no slot of the
\* prefetch window is lost (raw.rs:41-205).
THEOREM AllDeliveriesEnd == Spec => []NeverForgotten
BY AlwaysEnds, PTL

\* The window of basic_qos and the semaphore of the loop never stop each other:
\* unless the prefetch count is 0 or tasks panic, some outstanding delivery goes
\* on (raw.rs:28-41).
THEOREM WindowNeverBlocks == Spec => []WindowMoves
<1>1. ASSUME IInv, NeverForgotten PROVE WindowMoves
  <2> SUFFICES ASSUME "panic" \notin Faults, Overflowing = {}, Prefetch > 0,
                      NEW s \in Session, NEW c \in Outstanding(s),
                      \A d \in Outstanding(s) : outSettle[s][d] = None /\ d \notin Running(s)
               PROVE  pc[s][c] = "buffered" /\ Cardinality(Running(s)) < Prefetch
    BY DEF WindowMoves, WindowFree
  <2>1. c \in Copy /\ owner[c] = s
    BY DEF Outstanding
  <2>2. pc[s][c] = "buffered"
    BY <1>1, <2>1 DEF NeverForgotten, Forgotten, Abandoned, Running
  <2>3. chan[s] = "open"
    BY <1>1, <2>1 DEF IInv, Ownership, Tasks
  <2>4. Running(s) = {}
    <3> SUFFICES ASSUME NEW r \in Running(s) PROVE FALSE
      OBVIOUS
    <3>1. r \in Copy /\ pc[s][r] # "none"
      BY DEF Running
    <3>2. owner[r] = s
      BY <1>1, <2>3, <3>1 DEF IInv, Ownership, Tasks
    <3> QED BY <3>1, <3>2 DEF Outstanding
  <2>5. Cardinality(Running(s)) = 0
    BY <2>4, FS_EmptySet
  <2> QED BY <2>2, <2>5
<1> QED BY <1>1, AlwaysEnds, PTL

-----------------------------------------------------------------------------
(* No duplicates: what carries a message, step by step. *)

\* Channels close for good, and nothing that was published is forgotten.
Onwards ==
    /\ \A s \in Session : chan[s] = "closed" => chan'[s] = "closed"
    /\ \A c \in Copy : body[c] # None => body'[c] = body[c]
    /\ calls \subseteq calls'

\* A step that adds no carrier keeps the message in one place.
LEMMA SingleStays ==
    ASSUME Single, Onwards, AckFollows',
           \A call \in calls' : call \in calls \/ Published(call.msg),
           Undisturbed' => \A m \in Msg :
               /\ \A c \in Copy : Carries(c, m)' => Carries(c, m)
               /\ Handled(m)' => Handled(m) \/ \A c \in Copy : ~Carries(c, m)'
    PROVE  Single'
<1>1. \A call \in calls' : Published(call.msg)'
  BY DEF Single, Onwards, Published
<1>2. Undisturbed' => Undisturbed
  BY DEF Undisturbed, Onwards
<1> QED BY <1>1, <1>2 DEF Single

\* A delivery of an undisturbed session belongs to its task.
LEMMA OwnTask ==
    ASSUME IInv, Undisturbed, NEW s \in Session, NEW c \in Copy, pc[s][c] # "none"
    PROVE  chan[s] = "open" /\ owner[c] = s /\ place[c] = "unacked" /\ body[c] # None
<1>1. chan[s] # "new" /\ body[c] # None
  BY DEF IInv, Tasks
<1>2. chan[s] = "open"
  BY <1>1 DEF Undisturbed, IInv, TypeOK, BrokerTypeOK
<1> QED BY <1>1, <1>2, BrokerAssumption DEF IInv, Tasks, Ownership

\* The task of one delivery goes on to another step than its ack, and no frame
\* is written.
LEMMA MoveSingle ==
    ASSUME IInv, Single, NEW s \in Session, NEW c \in Copy, NEW step,
           pc[s][c] \notin {"none", "ack"}, Goto(s, c, step),
           UNCHANGED <<place, body, owner, chan, outPub, outSettle>>,
           calls \subseteq calls',
           \A call \in calls' : call \in calls \/ call.msg = body[c].msg,
           (\E call \in calls' \ calls : call.ok) => step = "ack"
    PROVE  Single'
<1>1. /\ pc'[s][c] = step
      /\ \A t \in Session, d \in Copy : <<t, d>> # <<s, c>> => pc'[t][d] = pc[t][d]
  BY DEF Goto, IInv, TypeOK, ConsumerTypeOK
<1>2. outPub[s][c] = None /\ outSettle[s][c] = None /\ body[c] # None
  BY DEF Single, AckFollows, IInv, Frames, Tasks
<1>3. AckFollows'
  <2> SUFFICES ASSUME NEW t \in Session, NEW d \in Copy, outPub[t][d] # None
               PROVE  pc'[t][d] = "ack" \/ outSettle[t][d] # None
    BY DEF AckFollows
  <2>1. <<t, d>> # <<s, c>>
    BY <1>2
  <2> QED BY <2>1, <1>1 DEF Single, AckFollows
<1>4. Onwards
  BY DEF Onwards
<1>5. \A call \in calls' : call \in calls \/ Published(call.msg)
  BY <1>2 DEF Published
<1>6. ASSUME Undisturbed', NEW m \in Msg
      PROVE  /\ \A d \in Copy : Carries(d, m)' => Carries(d, m)
             /\ Handled(m)' => Handled(m) \/ \A d \in Copy : ~Carries(d, m)'
  <2>1. Undisturbed
    BY <1>6 DEF Undisturbed
  <2>2. owner[c] = s /\ place[c] = "unacked"
    BY <2>1, OwnTask
  <2>3. body[c].msg = m => Carries(c, m)
    BY <2>2, <1>2 DEF Carries
  <2>4. ASSUME NEW d \in Copy, Carries(d, m)' PROVE Carries(d, m)
    <3>1. CASE d = c
      BY <3>1, <2>3, <2>4 DEF Carries
    <3>2. CASE d # c
      BY <3>2, <2>4, <1>1 DEF Carries
    <3> QED BY <3>1, <3>2
  <2>5. ASSUME Handled(m)', ~Handled(m), NEW d \in Copy, Carries(d, m)' PROVE FALSE
    <3>1. PICK call \in calls' : call.msg = m /\ call.ok
      BY <2>5 DEF Handled
    <3>2. call \notin calls
      BY <2>5, <3>1 DEF Handled
    <3>3. body[c].msg = m /\ step = "ack"
      BY <3>1, <3>2
    <3>4. Carries(c, m) /\ Carries(d, m)
      BY <2>3, <2>4, <2>5, <3>3
    <3>5. d = c
      BY <3>4, <2>1 DEF Single
    <3>6. ~Carries(c, m)'
      BY <1>1, <1>2, <2>2, <3>3 DEF Carries
    <3> QED BY <2>5, <3>5, <3>6
  <2> QED BY <2>4, <2>5
<1> QED BY <1>3, <1>4, <1>5, <1>6, SingleStays

\* A session closes: nothing is claimed any more.
LEMMA CloseSingle ==
    ASSUME Single, Onwards, calls' = calls,
           \E s \in Session : chan'[s] = "closed",
           \A s \in Session, c \in Copy :
               outPub'[s][c] = None
                 \/ (/\ outPub'[s][c] = outPub[s][c] /\ pc'[s][c] = pc[s][c]
                     /\ outSettle'[s][c] = outSettle[s][c])
    PROVE  Single'
<1>1. AckFollows'
  BY DEF Single, AckFollows
<1>2. ~Undisturbed'
  BY DEF Undisturbed
<1> QED BY <1>1, <1>2, SingleStays DEF Onwards

\* Broker and start steps: copies only move on, tasks and frames stay.
LEMMA PlaceSingle ==
    ASSUME IInv, Single, Onwards, UNCHANGED <<body, calls>>, AckFollows',
           \A d \in Copy, m \in Msg : Carries(d, m)' => Carries(d, m)
    PROVE  Single'
BY SingleStays DEF Handled

-----------------------------------------------------------------------------
(* The tasks. *)

\* Decoding and handler results.
LEMMA HandlerSingle ==
    ASSUME IInv, Single, NEW s \in Session, NEW c \in Copy,
           \/ Dispatch(s, c) \/ HandlerOk(s, c) \/ HandlerErr(s, c)
           \/ CalculateDelayPanics(s, c) \/ HandlerPanics(s, c)
    PROVE  Single'
<1> DEFINE call(ok) == [msg |-> body[c].msg, attempt |-> Attempt(c), ok |-> ok]
<1>1. /\ UNCHANGED <<place, body, owner, chan, outPub, outSettle>>
      /\ pc[s][c] \notin {"none", "ack"}
  BY DEF Dispatch, HandlerOk, HandlerErr, CalculateDelayPanics, HandlerReturns, HandlerPanics,
     brokerVars
<1>2. CASE Dispatch(s, c)
  BY <1>1, <1>2, MoveSingle DEF Dispatch
<1>3. CASE HandlerOk(s, c)
  <2>1. calls' = calls \cup {call(TRUE)} /\ Goto(s, c, "ack")
    BY <1>3 DEF HandlerOk, HandlerReturns
  <2> QED BY <1>1, <2>1, MoveSingle
<1>4. CASE HandlerErr(s, c) \/ CalculateDelayPanics(s, c)
  <2>1. calls' = calls \cup {call(FALSE)}
    BY <1>4 DEF HandlerErr, CalculateDelayPanics, HandlerReturns
  <2>2. \E step : Goto(s, c, step)
    BY <1>4 DEF HandlerErr, CalculateDelayPanics
  <2> QED BY <1>1, <2>1, <2>2, MoveSingle
<1>5. CASE HandlerPanics(s, c)
  BY <1>1, <1>5, MoveSingle DEF HandlerPanics
<1> QED BY <1>2, <1>3, <1>4, <1>5

\* A declaration: it succeeds, or it closes the channel, or it was closed.
LEMMA QueueDeclareSingle ==
    ASSUME IInv, Single, NEW s \in Session, NEW c \in Copy, NEW q, NEW ttl,
           pc[s][c] \notin {"none", "ack"}, NEW next, NEW failed,
           QueueDeclare(s, c, q, ttl, next, failed)
    PROVE  Single'
<1>1. CASE /\ Goto(s, c, next)
           /\ UNCHANGED <<place, body, owner, chan, outPub, outSettle, bound, calls>>
  BY <1>1, MoveSingle
<1>2. CASE Close({s}) /\ Goto(s, c, failed) /\ UNCHANGED calls
  <2>1. Onwards /\ chan'[s] = "closed"
    BY <1>2 DEF Onwards, Close, CloseChannels
  <2>2. \A t \in Session, d \in Copy :
          outPub'[t][d] = None
            \/ (/\ outPub'[t][d] = outPub[t][d] /\ pc'[t][d] = pc[t][d]
                /\ outSettle'[t][d] = outSettle[t][d])
    BY <1>2 DEF Close, CloseChannels, Goto, IInv, TypeOK, ConsumerTypeOK
  <2> QED BY <1>2, <2>1, <2>2, CloseSingle
<1>3. CASE Goto(s, c, failed) /\ UNCHANGED <<brokerVars, calls>>
  BY <1>3, MoveSingle DEF brokerVars
<1> QED BY <1>1, <1>2, <1>3 DEF QueueDeclare

LEMMA DeclareSingle ==
    ASSUME IInv, Single, NEW s \in Session, NEW c \in Copy,
           CreateRetryQueue(s, c) \/ CreateDelayExchange(s, c) \/ CreateDlq(s, c)
    PROVE  Single'
<1>1. CASE CreateRetryQueue(s, c)
  BY <1>1, QueueDeclareSingle DEF CreateRetryQueue
<1>2. CASE CreateDelayExchange(s, c)
  BY <1>2, MoveSingle DEF CreateDelayExchange, brokerVars
<1>3. CASE CreateDlq(s, c)
  BY <1>3, QueueDeclareSingle DEF CreateDlq
<1> QED BY <1>1, <1>2, <1>3

\* The frame takes the message over from the delivery, which waits for its ack.
LEMMA SendSingle ==
    ASSUME IInv, Single, NEW s \in Session, NEW c \in Copy,
           SendRetry(s, c) \/ SendToDlq(s, c)
    PROVE  Single'
<1>1. PICK f, failed : pc[s][c] \notin {"none", "ack"} /\ BasicPublish(s, c, f, "ack", failed)
  BY DEF SendRetry, SendToDlq
<1>2. CASE /\ outPub' = [outPub EXCEPT ![s][c] = f]
           /\ Goto(s, c, "ack")
           /\ UNCHANGED <<place, body, owner, chan, outSettle, args, bound, calls>>
  <2>1. /\ pc'[s][c] = "ack"
        /\ \A t \in Session, d \in Copy : <<t, d>> # <<s, c>> =>
              pc'[t][d] = pc[t][d] /\ outPub'[t][d] = outPub[t][d]
    BY <1>2 DEF Goto, IInv, TypeOK, ConsumerTypeOK, BrokerTypeOK
  <2>2. Onwards
    BY <1>2 DEF Onwards
  <2>3. AckFollows'
    <3> SUFFICES ASSUME NEW t \in Session, NEW d \in Copy, outPub'[t][d] # None
                 PROVE  pc'[t][d] = "ack" \/ outSettle[t][d] # None
      BY <1>2 DEF AckFollows
    <3> QED BY <2>1 DEF Single, AckFollows
  <2>4. ASSUME Undisturbed', NEW m \in Msg, NEW d \in Copy, Carries(d, m)'
        PROVE  Carries(d, m)
    <3>1. owner[c] = s /\ place[c] = "unacked" /\ body[c] # None
      BY <1>1, <1>2, <2>4, OwnTask DEF Undisturbed
    <3>2. CASE d = c
      <4>1. outSettle[s][c] = None
        BY <1>1 DEF IInv, Frames
      <4>2. Carries(c, body[c].msg)
        BY <1>1, <3>1, <4>1 DEF Carries
      <4> QED BY <1>2, <2>4, <3>2, <4>2 DEF Carries
    <3>3. CASE d # c
      BY <1>2, <2>1, <2>4, <3>3 DEF Carries
    <3> QED BY <3>2, <3>3
  <2> QED BY <1>2, <2>2, <2>3, <2>4, SingleStays DEF Handled
<1>3. CASE Goto(s, c, failed) /\ UNCHANGED <<brokerVars, calls>>
  BY <1>1, <1>3, MoveSingle DEF brokerVars
<1> QED BY <1>1, <1>2, <1>3 DEF BasicPublish

\* A settlement is written, or is dropped on a closed channel.
LEMMA SettleSingle ==
    ASSUME IInv, Single, NEW s \in Session, NEW c \in Copy,
           AckDelivery(s, c) \/ NackDelivery(s, c)
    PROVE  Single'
<1>1. PICK kind \in {"ack", "nack"} : Settle(s, c, kind)
  BY DEF AckDelivery, NackDelivery
<1>2. /\ pc[s][c] = kind /\ pc'[s][c] = "none"
      /\ outSettle'[s][c] = IF chan[s] = "open" THEN kind ELSE outSettle[s][c]
      /\ \A t \in Session, d \in Copy : <<t, d>> # <<s, c>> =>
            pc'[t][d] = pc[t][d] /\ outSettle'[t][d] = outSettle[t][d]
      /\ UNCHANGED <<place, body, owner, chan, outPub, args, bound, calls>>
  BY <1>1 DEF Settle, Goto, IInv, TypeOK, ConsumerTypeOK, BrokerTypeOK
<1>3. Onwards
  BY <1>2 DEF Onwards
<1>4. AckFollows'
  <2> SUFFICES ASSUME NEW t \in Session, NEW d \in Copy, outPub[t][d] # None
               PROVE  pc'[t][d] = "ack" \/ outSettle'[t][d] # None
    BY <1>2 DEF AckFollows
  <2>1. CASE <<t, d>> = <<s, c>>
    <3>1. chan[s] = "open"
      BY <2>1, BrokerAssumption DEF IInv, Frames, Ownership
    <3> QED BY <1>2, <2>1, <3>1, BrokerAssumption
  <2>2. CASE <<t, d>> # <<s, c>>
    BY <1>2, <2>2 DEF Single, AckFollows
  <2> QED BY <2>1, <2>2
<1>5. ASSUME Undisturbed', NEW m \in Msg, NEW d \in Copy, Carries(d, m)'
      PROVE  Carries(d, m)
  <2>1. chan[s] = "open" /\ owner[c] = s
    BY <1>2, <1>5, OwnTask DEF Undisturbed
  <2>2. CASE d = c
    BY <1>2, <1>5, <2>1, <2>2, BrokerAssumption DEF Carries
  <2>3. CASE d # c
    BY <1>2, <1>5, <2>3 DEF Carries
  <2> QED BY <2>2, <2>3
<1> QED BY <1>2, <1>3, <1>4, <1>5, SingleStays DEF Handled

-----------------------------------------------------------------------------
(* The broker, publishers and faults. *)

\* A new message has no other carrier.
LEMMA PublishSingle ==
    ASSUME IInv, Single, NEW n \in Msg, Publish(n)
    PROVE  Single'
<1>1. PICK h \in FirstHeaders :
        Enqueue("ready", [msg |-> n, attempt |-> h, persistent |-> TRUE])
  BY DEF Publish
<1> DEFINE b == [msg |-> n, attempt |-> h, persistent |-> TRUE]
<1>2. b \in Body /\ "ready" \in Places
  BY ConsumerAssumption DEF Body, Header, Places
<1>3. b.msg = n OBVIOUS
<1> HIDE DEF b
<1>4. PICK new \in Copy :
        /\ body[new] = None /\ owner[new] = None
        /\ place'[new] = "ready" /\ body'[new] = b
        /\ \A d \in Copy \ {new} : body'[d] = body[d] /\ place'[d] = place[d]
  BY <1>1, <1>2, EnqueueFacts DEF b
<1>5. ~Published(n) /\ UNCHANGED <<owner, chan, outPub, outSettle, pc, calls>>
  BY DEF Publish
<1>6. \A call \in calls' : Published(call.msg)'
  BY <1>4, <1>5 DEF Single, Published
<1>7. AckFollows'
  BY <1>5 DEF Single, AckFollows
<1>8. ASSUME Undisturbed', NEW m \in Msg
      PROVE  /\ \A c, d \in Copy : Carries(c, m)' /\ Carries(d, m)' => c = d
             /\ Handled(m)' => \A c \in Copy : ~Carries(c, m)'
  <2>1. Undisturbed
    BY <1>5, <1>8 DEF Undisturbed
  <2>2. \A d \in Copy : Carries(d, m)' => d = new \/ Carries(d, m)
    BY <1>4, <1>5 DEF Carries
  <2>3. Carries(new, m)' => m = n
    BY <1>3, <1>4 DEF Carries
  <2>4. ~\E d \in Copy : Carries(d, n)
    BY <1>5 DEF Carries, Published
  <2>5. ~Handled(n)
    BY <1>5 DEF Handled, Single
  <2>6. Handled(m)' <=> Handled(m)
    BY <1>5 DEF Handled
  <2>7. CASE m = n
    BY <2>2, <2>4, <2>5, <2>6, <2>7
  <2>8. CASE m # n
    BY <2>1, <2>2, <2>3, <2>6, <2>8 DEF Single
  <2> QED BY <2>7, <2>8
<1> QED BY <1>6, <1>7, <1>8 DEF Single

\* The broker receives a frame: the new copy takes over from the frame.
LEMMA RecvPublishSingle ==
    ASSUME IInv, Single, NEW s \in Session, NEW c \in Copy, BrokerRecvPublish(s, c)
    PROVE  Single'
<1> DEFINE f == outPub[s][c]
           p == IF f.to = Dlq THEN "dlq" ELSE "delayed"
<1>1. /\ f # None /\ Enqueue(p, f.body)
      /\ outPub' = [outPub EXCEPT ![s][c] = None]
      /\ UNCHANGED <<owner, chan, outSettle, pc, calls>>
  BY DEF BrokerRecvPublish, RecvPublish
<1>2. f.body \in Body /\ p \in Places /\ f.body.msg = body[c].msg /\ owner[c] = s
  BY <1>1 DEF IInv, TypeOK, BrokerTypeOK, Frame, Places, Frames
<1>3. body[c] # None /\ place[c] = "unacked"
  BY <1>1, <1>2, ActiveHasBody, BrokerAssumption DEF IInv, Ownership
<1> HIDE DEF p
<1>4. PICK new \in Copy :
        /\ body[new] = None /\ owner[new] = None
        /\ place'[new] = p /\ body'[new] = f.body
        /\ \A d \in Copy \ {new} : body'[d] = body[d] /\ place'[d] = place[d]
  BY <1>1, <1>2, EnqueueFacts
<1>5. /\ outPub'[s][c] = None
      /\ \A t \in Session, d \in Copy : outPub'[t][d] # None => outPub'[t][d] = outPub[t][d]
  BY <1>1 DEF IInv, TypeOK, BrokerTypeOK
<1>6. \A call \in calls' : Published(call.msg)'
  BY <1>1, <1>4 DEF Single, Published
<1>7. AckFollows'
  BY <1>1, <1>5 DEF Single, AckFollows
<1>8. ASSUME Undisturbed', NEW m \in Msg
      PROVE  /\ \A x, d \in Copy : Carries(x, m)' /\ Carries(d, m)' => x = d
             /\ Handled(m)' => \A d \in Copy : ~Carries(d, m)'
  <2>1. Undisturbed
    BY <1>1, <1>8 DEF Undisturbed
  <2>2. \A d \in Copy : Carries(d, m)' => d = new \/ Carries(d, m)
    BY <1>1, <1>4, <1>5 DEF Carries
  <2>3. ~Carries(c, m)'
    <3>1. pc[s][c] = "ack" \/ outSettle[s][c] # None
      BY <1>1 DEF Single, AckFollows
    <3>2. place'[c] = "unacked"
      BY <1>3, <1>4
    <3> QED BY <1>1, <1>2, <1>5, <3>1, <3>2 DEF Carries
  <2>4. Carries(new, m)' => Carries(c, m)
    BY <1>1, <1>2, <1>3, <1>4 DEF Carries
  <2>6. Handled(m)' <=> Handled(m)
    BY <1>1 DEF Handled
  <2> QED BY <2>1, <2>2, <2>3, <2>4, <2>6 DEF Single
<1> QED BY <1>6, <1>7, <1>8 DEF Single

\* Deliveries, settlements and timers move a copy; starts move none.
LEMMA OtherSingle ==
    ASSUME IInv, Single,
           \/ \E s \in Session : StartConsumerChannel(s)
           \/ \E s \in Session, c \in Copy : Deliver(s, c) \/ BrokerRecvSettle(s, c)
           \/ \E c \in Copy : RetryDue(c) \/ DlqTtlPasses(c)
    PROVE  Single'
<1>t. IInv /\ TypeOK BY DEF IInv
<1>1. CASE \E s \in Session : StartConsumerChannel(s)
  <2>1. PICK s \in Session :
          /\ chan[s] = "new" /\ chan' = [chan EXCEPT ![s] = "open"]
          /\ UNCHANGED <<place, body, owner, outPub, outSettle, pc, calls>>
    BY <1>1 DEF StartConsumerChannel
  <2>2. Onwards /\ AckFollows'
    BY <1>t, <2>1 DEF Onwards, TypeOK, BrokerTypeOK, Single, AckFollows
  <2>3. \A d \in Copy, m \in Msg : Carries(d, m)' => Carries(d, m)
    BY <2>1 DEF Carries
  <2> QED BY <2>1, <2>2, <2>3, PlaceSingle
<1>2. CASE \E s \in Session, c \in Copy : Deliver(s, c)
  <2>1. PICK s \in Session, c \in Copy :
          /\ place[c] = "ready" /\ place' = [place EXCEPT ![c] = "unacked"]
          /\ owner' = [owner EXCEPT ![c] = s]
          /\ Goto(s, c, "buffered")
          /\ UNCHANGED <<body, chan, outPub, outSettle, calls>>
    BY <1>2 DEF Deliver, Send
  <2>2. \A t \in Session, d \in Copy : <<t, d>> # <<s, c>> => pc'[t][d] = pc[t][d]
    BY <1>t, <2>1 DEF Goto, TypeOK, ConsumerTypeOK
  <2>3. outPub[s][c] = None
    BY <1>t, <2>1, BrokerAssumption DEF IInv, Frames, Ownership
  <2>4. AckFollows'
    BY <2>1, <2>2, <2>3 DEF Single, AckFollows
  <2>5. ASSUME NEW d \in Copy, NEW m \in Msg, Carries(d, m)' PROVE Carries(d, m)
    <3>1. CASE d = c
      BY <2>1, <2>5, <3>1 DEF Carries
    <3>2. CASE d # c
      BY <1>t, <2>1, <2>2, <2>5, <3>2 DEF Carries, TypeOK, BrokerTypeOK
    <3> QED BY <3>1, <3>2
  <2> QED BY <2>1, <2>4, <2>5, PlaceSingle DEF Onwards
<1>3. CASE \E s \in Session, c \in Copy : BrokerRecvSettle(s, c)
  <2>1. PICK s \in Session, c \in Copy :
          /\ outPub[s][c] = None
          /\ place' = [place EXCEPT ![c] =
                          IF outSettle[s][c] = "ack" THEN "acked" ELSE "dropped"]
          /\ owner' = [owner EXCEPT ![c] = None]
          /\ outSettle' = [outSettle EXCEPT ![s][c] = None]
          /\ UNCHANGED <<body, chan, outPub, pc, calls>>
    BY <1>3 DEF BrokerRecvSettle, RecvSettle
  <2>2. /\ place'[c] \in {"acked", "dropped"}
        /\ \A d \in Copy \ {c} : place'[d] = place[d] /\ owner'[d] = owner[d]
        /\ \A t \in Session, d \in Copy :
              <<t, d>> # <<s, c>> => outSettle'[t][d] = outSettle[t][d]
        /\ owner'[c] = None
    BY <1>t, <2>1 DEF TypeOK, BrokerTypeOK
  <2>3. AckFollows'
    BY <2>1, <2>2 DEF Single, AckFollows
  <2>4. ASSUME NEW d \in Copy, NEW m \in Msg, Carries(d, m)' PROVE Carries(d, m)
    <3>1. CASE d = c
      BY <2>2, <2>4, <3>1, BrokerAssumption DEF Carries
    <3>2. CASE d # c
      BY <2>1, <2>2, <2>4, <3>2 DEF Carries
    <3> QED BY <3>1, <3>2
  <2> QED BY <2>1, <2>3, <2>4, PlaceSingle DEF Onwards
<1>4. CASE \E c \in Copy : RetryDue(c) \/ DlqTtlPasses(c)
  <2>1. PICK c \in Copy :
          /\ place[c] \in {"delayed", "dlq"}
          /\ \E p : place' = [place EXCEPT ![c] = p]
          /\ UNCHANGED <<body, owner, chan, outPub, outSettle, pc, calls>>
    BY <1>4 DEF RetryDue, DlqTtlPasses, ExpireRetry, ExpireDlq
  <2>2. \A d \in Copy \ {c} : place'[d] = place[d]
    BY <1>t, <2>1 DEF TypeOK, BrokerTypeOK
  <2>3. AckFollows'
    BY <2>1 DEF Single, AckFollows
  <2>4. ASSUME NEW d \in Copy, NEW m \in Msg, Carries(d, m)' PROVE Carries(d, m)
    BY <2>1, <2>2, <2>4 DEF Carries
  <2> QED BY <2>1, <2>3, <2>4, PlaceSingle DEF Onwards
<1> QED BY <1>1, <1>2, <1>3, <1>4

\* A failed start, a lost connection, a crash and a restart close a session.
LEMMA FaultSingle ==
    ASSUME IInv, Single,
           \/ \E s \in Session : StartFails(s) \/ ConnectionLost(s) \/ ProcessCrash(s)
           \/ BrokerRestarts
    PROVE  Single'
<1>1. CASE \E s \in Session : StartFails(s)
  <2>1. PICK s \in Session :
          /\ chan[s] = "new" /\ chan' = [chan EXCEPT ![s] = "closed"]
          /\ UNCHANGED <<body, outPub, outSettle, pc, calls>>
    BY <1>1 DEF StartFails
  <2>2. chan'[s] = "closed" /\ Onwards
    BY <2>1 DEF Onwards, IInv, TypeOK, BrokerTypeOK
  <2> QED BY <2>1, <2>2, CloseSingle
<1>2. CASE (\E s \in Session : ConnectionLost(s) \/ ProcessCrash(s)) \/ BrokerRestarts
  <2>1. PICK S \in SUBSET Session :
          /\ S # {} /\ CloseChannels(S)
          /\ UNCHANGED <<body, calls>>
          /\ \A t \in Session \ S : pc'[t] = pc[t]
    <3>1. CASE \E s \in Session : ConnectionLost(s)
      BY <3>1 DEF ConnectionLost, Close
    <3>2. CASE \E s \in Session : ProcessCrash(s)
      <4>1. PICK s \in Session : ProcessCrash(s)
        BY <3>2
      <4>2. \A t \in Session \ {s} : pc'[t] = pc[t]
        BY <4>1 DEF ProcessCrash, IInv, TypeOK, ConsumerTypeOK
      <4> QED BY <4>1, <4>2 DEF ProcessCrash, Close
    <3>3. CASE BrokerRestarts
      <4>1. {s \in Session : chan[s] = "open"} # {}
        BY <3>3 DEF BrokerRestarts
      <4> QED BY <3>3, <4>1 DEF BrokerRestarts, BrokerRestart
    <3> QED BY <1>2, <3>1, <3>2, <3>3
  <2>2. Onwards /\ \E s \in Session : chan'[s] = "closed"
    BY <2>1 DEF Onwards, CloseChannels
  <2>3. \A t \in Session, d \in Copy :
          outPub'[t][d] = None
            \/ (/\ outPub'[t][d] = outPub[t][d] /\ pc'[t][d] = pc[t][d]
                /\ outSettle'[t][d] = outSettle[t][d])
    BY <2>1 DEF CloseChannels
  <2> QED BY <2>1, <2>2, <2>3, CloseSingle
<1> QED BY <1>1, <1>2

-----------------------------------------------------------------------------
(* The theorem. *)

\* Nothing is published at first.
LEMMA InitSingle == Init => Single
BY DEF Init, ConsumerInit, BrokerInit, Single, AckFollows, Carries, Handled

\* Every step keeps a message in one place.
LEMMA NextSingle == IInv /\ Single /\ [Next]_vars => Single'
<1> SUFFICES ASSUME IInv, Single, [Next]_vars PROVE Single'
  OBVIOUS
<1>1. CASE \E m \in Msg : Publish(m)
  BY <1>1, PublishSingle
<1>2. CASE \E s \in Session, c \in Copy : TaskStep(s, c)
  BY <1>2, HandlerSingle, DeclareSingle, SendSingle, SettleSingle DEF TaskStep
<1>3. CASE \E s \in Session, c \in Copy : BrokerStep(s, c)
  BY <1>3, RecvPublishSingle, OtherSingle DEF BrokerStep
<1>4. CASE \/ \E s \in Session : StartConsumerChannel(s)
           \/ \E c \in Copy : RetryDue(c) \/ DlqTtlPasses(c)
  BY <1>4, OtherSingle
<1>5. CASE Fault
  BY <1>5, FaultSingle, HandlerSingle DEF Fault
<1>6. CASE UNCHANGED vars
  <2>1. Onwards /\ AckFollows'
    BY <1>6 DEF vars, Onwards, Single, AckFollows
  <2>2. \A d \in Copy, m \in Msg : Carries(d, m)' => Carries(d, m)
    BY <1>6 DEF vars, Carries
  <2> QED BY <1>6, <2>1, <2>2, PlaceSingle DEF vars
<1> QED BY <1>1, <1>2, <1>3, <1>4, <1>5, <1>6 DEF Next

\* A set whose members are all equal has one at most.
LEMMA AtMostOne ==
    ASSUME NEW S, \A x, y \in S : x = y
    PROVE  Cardinality(S) \in {0, 1} /\ (Cardinality(S) = 0 <=> S = {})
<1>1. CASE S = {}
  BY <1>1, FS_EmptySet
<1>2. CASE S # {}
  <2>1. PICK x \in S : S = {x}
    BY <1>2
  <2> QED BY <2>1, FS_Singleton
<1> QED BY <1>1, <1>2

\* The carriers that NoDuplicates counts are copies that carry the message, or
\* frames of such copies.
LEMMA CarriersCounted ==
    ASSUME IInv, Single
    PROVE  NoDuplicates
<1> SUFFICES ASSUME Undisturbed, NEW m \in Msg
             PROVE  Cardinality(CarryingCopies(m)) + Cardinality(CarryingFrames(m, outPub))
                      <= (IF Handled(m) THEN 0 ELSE 1)
  BY DEF NoDuplicates, Undisturbed
<1> DEFINE A == CarryingCopies(m)
           B == CarryingFrames(m, outPub)
<1>1. \A c, d \in Copy : Carries(c, m) /\ Carries(d, m) => c = d
  BY DEF Single
<1>2. ASSUME NEW c \in A
      PROVE  /\ c \in Copy /\ Carries(c, m)
             /\ \A s \in Session : outPub[s][c] = None
  <2>1. c \in Copy /\ body[c] # None /\ body[c].msg = m
    BY DEF CarryingCopies
  <2>2. CASE place[c] \in {"ready", "delayed", "dlq", "expired"}
    BY <2>1, <2>2, BrokerAssumption DEF Carries, IInv, Frames, Ownership
  <2>3. CASE place[c] = "unacked" /\ ~WaitsForAck(c)
    <3>1. PICK s \in Session : owner[c] = s
      BY <2>1, <2>3 DEF IInv, Ownership, TypeOK, BrokerTypeOK
    <3> QED BY <2>1, <2>3, <3>1 DEF Carries, WaitsForAck
  <2> QED BY <2>2, <2>3 DEF CarryingCopies
<1>3. ASSUME NEW d \in B
      PROVE  /\ d = <<d[1], d[2]>> /\ d[1] \in Session /\ d[2] \in Copy
             /\ outPub[d[1]][d[2]] # None /\ owner[d[2]] = d[1] /\ Carries(d[2], m)
  <2>1. /\ d \in Session \X Copy /\ outPub[d[1]][d[2]] # None
        /\ outPub[d[1]][d[2]].body.msg = m
    BY DEF CarryingFrames
  <2>2. d = <<d[1], d[2]>> /\ d[1] \in Session /\ d[2] \in Copy
    BY <2>1
  <2>3. owner[d[2]] = d[1] /\ body[d[2]].msg = m
    BY <2>1, <2>2 DEF IInv, Frames
  <2>4. body[d[2]] # None
    BY <2>1, <2>2, ActiveHasBody
  <2> QED BY <2>1, <2>2, <2>3, <2>4 DEF Carries
<1>4. \A x, y \in A : x = y
  BY <1>1, <1>2
<1>5. \A x, y \in B : x = y
  <2> SUFFICES ASSUME NEW x \in B, NEW y \in B PROVE x = y
    OBVIOUS
  <2>1. x[2] = y[2] /\ x[1] = y[1]
    BY <1>1, <1>3
  <2> QED BY <2>1, <1>3
<1>6. A = {} \/ B = {}
  <2> SUFFICES ASSUME NEW x \in A, NEW y \in B PROVE FALSE
    OBVIOUS
  <2>1. x = y[2]
    BY <1>1, <1>2, <1>3
  <2> QED BY <2>1, <1>2, <1>3
<1>7. Handled(m) => A = {} /\ B = {}
  BY <1>2, <1>3 DEF Single
<1>8. /\ Cardinality(A) \in {0, 1} /\ (Cardinality(A) = 0 <=> A = {})
      /\ Cardinality(B) \in {0, 1} /\ (Cardinality(B) = 0 <=> B = {})
  BY <1>4, <1>5, AtMostOne
<1> QED BY <1>6, <1>7, <1>8

\* Without a closed channel a message is in one place at most, and in none once
\* the handler has succeeded: retries and dead letters replace their deliveries.
THEOREM NeverDuplicated == Spec => []NoDuplicates
<1>1. Spec => []Single
  BY InitSingle, NextSingle, Invariance, PTL DEF Spec
<1> QED BY <1>1, CarriersCounted, Invariance, PTL
=============================================================================
