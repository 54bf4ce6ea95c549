------------------------ MODULE EnvelopeConsumerProofs ------------------------
(***************************************************************************)
(* Proofs about EnvelopeConsumer, for any number of messages, copies,      *)
(* sessions, retries and limits: type correctness, KeptUntilExhausted,     *)
(* EarnedRetries, AttemptLimit, SettleOnce, NeverForgotten, NoDuplicates.  *)
(***************************************************************************)
EXTENDS EnvelopeConsumer, FiniteSetTheorems, TLAPS

\* What every step but a settlement does to the copies: none that is still to
\* be processed goes away.
KeepsCopies ==
    /\ calls \subseteq calls'
    /\ \A d \in Copy : body[d] # None =>
        /\ body'[d] = body[d]
        /\ place[d] \in {"ready", "unacked", "delayed"}
              => place'[d] \in {"ready", "unacked", "delayed"}
        /\ place[d] = "dropped" => place'[d] = "dropped"

\* The step does not touch copy d.
SameCopy(d) == place'[d] = place[d] /\ body'[d] = body[d] /\ owner'[d] = owner[d]

\* The step does not touch the task and the frames of copy d in session t.
SameTask(t, d) ==
    /\ pc'[t][d] = pc[t][d] /\ outPub'[t][d] = outPub[t][d]
    /\ outSettle'[t][d] = outSettle[t][d] /\ outDlq'[t][d] = outDlq[t][d]

-----------------------------------------------------------------------------
(* Facts that do not depend on an action. *)

\* What was established before a step is established after it: calls only grow.
LEMMA CallsGrow ==
    ASSUME calls \subseteq calls', NEW m, NEW b
    PROVE  /\ Handled(m) => Handled(m)'
           /\ FinalFailure(m) => FinalFailure(m)'
           /\ MayReject(m) => MayReject(m)'
           /\ Earned(b) => Earned(b)'
<1>1. Handled(m) => Handled(m)'
  BY DEF Handled
<1>2. ASSUME NEW n, FinalFailure(n) PROVE FinalFailure(n)'
  BY <1>2 DEF FinalFailure, FailedAt, RetryDelay
<1>3. Rejectable(m) => Rejectable(m)'
  BY DEF Rejectable
<1>4. MayReject(m) => MayReject(m)'
  BY <1>3 DEF MayReject
<1>5. ASSUME Earned(b) PROVE Earned(b)'
  <2>1. ~b.persistent => HasRetry /\ FinalFailure(b.msg)'
    BY <1>2, <1>5 DEF Earned
  <2>2. \A k \in 0..(ReadRetryAttempt(b) - 1) :
           FailedAt(b.msg, k)' /\ (b.persistent => Allowed(b.msg, k))
    BY <1>5 DEF Earned, FailedAt
  <2> QED BY <2>1, <2>2 DEF Earned, Allowed, ReadRetryAttempt, RetryDelay
<1> QED BY <1>1, <1>2, <1>4, <1>5

\* An envelope nobody needs any more stays so: what was discarded stays discarded.
LEMMA DoneStays ==
    ASSUME KeepsCopies, NEW m, Done(m)
    PROVE  Done(m)'
<1>1. calls \subseteq calls'
  BY DEF KeepsCopies
<1>2. CASE Discarded(m)
  BY <1>2 DEF KeepsCopies, Discarded, Done
<1>3. CASE Handled(m) \/ (HasRetry /\ FinalFailure(m))
  BY <1>1, <1>3, CallsGrow DEF Done
<1> QED BY <1>2, <1>3 DEF Done

\* What a copy in use carries.
LEMMA BodyType ==
    ASSUME IInv, NEW c \in Copy, body[c] # None
    PROVE  body[c] \in Body /\ body[c].msg \in Msg /\ Attempt(c) \in Nat /\ Earned(body[c])
BY DEF IInv, CopyOK, TypeOK, BrokerTypeOK, Body, Header, Attempt, ReadRetryAttempt

\* An envelope that is not a dead letter is within its limit and the policy's.
LEMMA AttemptInLimit ==
    ASSUME IInv, NEW c \in Copy, body[c] # None, body[c].persistent
    PROVE  Attempt(c) \in 0..MaxRetries /\ Attempt(c) <= EnvMax[body[c].msg]
<1>1. Attempt(c) \in Nat /\ body[c].msg \in Msg /\ Earned(body[c])
  BY BodyType
<1>2. CASE Attempt(c) = 0
  BY <1>1, <1>2, BrokerAssumption, EnvelopeAssumption
<1>3. CASE Attempt(c) # 0
  <2>1. Attempt(c) - 1 \in 0..(ReadRetryAttempt(body[c]) - 1)
    BY <1>1, <1>3 DEF Attempt
  <2>2. Allowed(body[c].msg, Attempt(c) - 1)
    BY <1>1, <2>1 DEF Earned
  <2>3. Attempt(c) - 1 < MaxRetries /\ Attempt(c) <= EnvMax[body[c].msg]
    BY <1>1, <2>2 DEF Allowed, RetryDelay
  <2> QED BY <1>1, <2>3, BrokerAssumption
<1> QED BY <1>2, <1>3

\* A task that runs, and a frame on the session's channel, belong to a copy in use.
LEMMA ActiveHasBody ==
    ASSUME IInv, NEW s \in Session, NEW c \in Copy,
           pc[s][c] # "none" \/ outSettle[s][c] # None \/ outPub[s][c] # None
    PROVE  body[c] # None
<1>1. TaskOK(s, c) /\ FrameOK(s, c) /\ CopyOK(c)
  BY DEF IInv
<1>2. CASE pc[s][c] # "none"
  BY <1>1, <1>2 DEF TaskOK
<1>3. CASE outSettle[s][c] # None \/ outPub[s][c] # None
  <2>1. owner[c] # None
    BY <1>1, <1>3, BrokerAssumption DEF FrameOK
  <2> QED BY <1>1, <2>1 DEF CopyOK
<1> QED BY <1>2, <1>3

\* A copy the broker may forget may be forgotten after the step as well.
LEMMA CoveredStays ==
    ASSUME KeepsCopies, NEW c \in Copy, body[c] # None, Covered(c)
    PROVE  Covered(c)'
<1>1. body'[c] = body[c] /\ calls \subseteq calls'
  BY DEF KeepsCopies
<1>2. CASE Done(body[c].msg)
  BY <1>1, <1>2, DoneStays DEF Covered
<1>3. CASE \E d \in Copy : Active(d) /\ body[d].msg = body[c].msg /\ Attempt(d) > Attempt(c)
  <2>1. PICK d \in Copy : Active(d) /\ body[d].msg = body[c].msg /\ Attempt(d) > Attempt(c)
    BY <1>3
  <2>2. body'[d] = body[d] /\ Active(d)'
    BY <2>1 DEF KeepsCopies, Active
  <2>3. Attempt(d)' = Attempt(d) /\ Attempt(c)' = Attempt(c)
    BY <1>1, <2>2 DEF Attempt, ReadRetryAttempt
  <2> QED BY <1>1, <2>1, <2>2, <2>3 DEF Covered
<1> QED BY <1>2, <1>3 DEF Covered

\* Every envelope is kept in a step that keeps all copies and adds none of an
\* envelope somebody still needs.
LEMMA KeptStays ==
    ASSUME IInv, KeepsCopies,
           \A m \in Msg : Published(m)' => Published(m) \/ Done(m)
    PROVE  Kept'
<1> SUFFICES ASSUME NEW m \in Msg, Published(m) \/ Done(m)
             PROVE  (Done(m) \/ \E c \in Copy : Active(c) /\ body[c].msg = m)'
  BY DEF Kept
<1>1. CASE Done(m)
  BY <1>1, DoneStays
<1>2. CASE \E c \in Copy : Active(c) /\ body[c].msg = m
  BY <1>2 DEF KeepsCopies, Active
<1> QED BY <1>1, <1>2 DEF IInv, Kept

-----------------------------------------------------------------------------
(* What an untouched part of the state keeps. *)

LEMMA CopyStays ==
    ASSUME calls \subseteq calls', NEW c \in Copy, SameCopy(c), CopyOK(c),
           \A s \in Session : owner[c] = s => chan'[s] = "open"
    PROVE  CopyOK(c)'
<1>1. body[c] # None => Earned(body[c])'
  BY CallsGrow DEF SameCopy, CopyOK
<1>2. MayReject(body[c].msg) => MayReject(body[c].msg)'
  BY CallsGrow DEF SameCopy
<1> QED BY <1>1, <1>2 DEF SameCopy, CopyOK

LEMMA TaskStays ==
    ASSUME calls \subseteq calls', NEW s \in Session, NEW c \in Copy, TaskOK(s, c),
           pc'[s][c] = pc[s][c], body'[c] = body[c],
           chan'[s] = "new" => chan[s] = "new",
           chan'[s] = "open" /\ pc[s][c] # "none" => chan[s] = "open" /\ owner'[c] = owner[c]
    PROVE  TaskOK(s, c)'
<1>1. Attempt(c)' = Attempt(c)
  BY DEF Attempt, ReadRetryAttempt
<1>2. (Retries(c)' <=> Retries(c)) /\ (Exhausted(c)' <=> Exhausted(c))
  BY <1>1 DEF Exhausted, Retries, IsRetryExhausted, RetryDelay
<1>3. FailedAt(body[c].msg, Attempt(c)) => FailedAt(body[c].msg, Attempt(c))'
  BY <1>1 DEF FailedAt
<1>4. /\ FinalFailure(body[c].msg) => FinalFailure(body[c].msg)'
      /\ MayReject(body[c].msg) => MayReject(body[c].msg)'
  BY CallsGrow
<1> QED BY <1>1, <1>2, <1>3, <1>4 DEF TaskOK

LEMMA FrameStays ==
    ASSUME calls \subseteq calls', NEW s \in Session, NEW c \in Copy, FrameOK(s, c),
           body'[c] = body[c],
           outPub'[s][c] \in {outPub[s][c], None},
           outSettle'[s][c] \in {outSettle[s][c], None},
           outDlq'[s][c] \in {outDlq[s][c], None},
           outSettle'[s][c] # None => pc'[s][c] = pc[s][c],
           outPub'[s][c] # None \/ outSettle'[s][c] # None => owner'[c] = owner[c]
    PROVE  FrameOK(s, c)'
<1>1. Attempt(c)' = Attempt(c)
  BY DEF Attempt, ReadRetryAttempt
<1>2. outPub'[s][c] # None =>
        /\ outPub'[s][c] = outPub[s][c]
        /\ outPub[s][c].body.persistent /\ Earned(outPub[s][c].body)'
        /\ outPub[s][c].body.msg = body[c].msg
        /\ ReadRetryAttempt(outPub[s][c].body)' > Attempt(c)
  BY CallsGrow DEF FrameOK, ReadRetryAttempt
<1>3. outDlq'[s][c] # None => ~outDlq[s][c].body.persistent /\ Earned(outDlq[s][c].body)'
  BY CallsGrow DEF FrameOK
<1>4. MayReject(body[c].msg) => MayReject(body[c].msg)'
  BY CallsGrow
<1> QED BY <1>1, <1>2, <1>3, <1>4, BrokerAssumption DEF FrameOK

-----------------------------------------------------------------------------
(* The shapes of the steps. *)

\* The channels stay, and what the step touches it leaves in order.
LEMMA LocalStep ==
    ASSUME IInv, TypeOK', Durability', AttemptLimit', Kept',
           calls \subseteq calls', chan' = chan,
           \A d \in Copy : body[d] # None /\ Covered(d) => Covered(d)',
           \A d \in Copy : SameCopy(d) \/ CopyOK(d)',
           \A t \in Session, d \in Copy :
               \/ SameTask(t, d) /\ SameCopy(d)
               \/ TaskOK(t, d)' /\ FrameOK(t, d)' /\ AcksCovered(t, d)'
    PROVE  IInv'
<1>1. ASSUME NEW d \in Copy PROVE CopyOK(d)'
  <2>1. CASE SameCopy(d)
    <3>1. CopyOK(d) /\ \A s \in Session : owner[d] = s => chan'[s] = "open"
      BY DEF IInv, CopyOK
    <3> QED BY <2>1, <3>1, CopyStays
  <2> QED BY <2>1
<1>2. ASSUME NEW t \in Session, NEW d \in Copy
      PROVE  TaskOK(t, d)' /\ FrameOK(t, d)' /\ AcksCovered(t, d)'
  <2>1. CASE SameTask(t, d) /\ SameCopy(d)
    <3>1. TaskOK(t, d) /\ FrameOK(t, d) /\ AcksCovered(t, d)
      BY DEF IInv
    <3>2. TaskOK(t, d)'
      <4>1. chan'[t] = "open" /\ pc[t][d] # "none" => chan[t] = "open" /\ owner'[d] = owner[d]
        BY <2>1 DEF SameCopy
      <4> QED BY <2>1, <3>1, <4>1, TaskStays DEF SameTask, SameCopy
    <3>3. FrameOK(t, d)'
      BY <2>1, <3>1, FrameStays DEF SameTask, SameCopy
    <3>4. AcksCovered(t, d)'
      <4> SUFFICES ASSUME chan[t] = "open",
                          pc[t][d] = "ack" \/ outSettle[t][d] = "ack",
                          outPub[t][d] = None
                   PROVE  Covered(d)'
        BY <2>1 DEF AcksCovered, SameTask
      <4>1. body[d] # None
        BY ActiveHasBody, BrokerAssumption
      <4> QED BY <3>1, <4>1 DEF AcksCovered
    <3> QED BY <3>2, <3>3, <3>4
  <2> QED BY <2>1
<1> QED BY <1>1, <1>2 DEF IInv

\* A task goes on to another step, which may declare a queue or write a dead
\* letter: every step of envelope.rs that leaves the session's channel alone.
LEMMA MoveStep ==
    ASSUME IInv, NEW s \in Session, NEW c \in Copy, NEW step \in Steps,
           pc[s][c] # "none", Goto(s, c, step),
           UNCHANGED <<place, body, owner, chan, outPub, outSettle, bound>>,
           args' \in [Queue -> Ttl \cup {NoTtl, Undeclared}],
           calls \subseteq calls', calls' \in SUBSET Call, AttemptLimit',
           outDlq' = outDlq \/ \E f \in Frame : /\ outDlq' = [outDlq EXCEPT ![s][c] = f]
                                                /\ f.body.msg = body[c].msg
                                                /\ ~f.body.persistent /\ Earned(f.body),
           step \in {"declare", "publish"} => Retries(c) /\ FailedAt(body[c].msg, Attempt(c))',
           step \in {"open_dlq", "declare_dlq", "publish_dlq"} =>
               /\ Exhausted(c) /\ FinalFailure(body[c].msg)'
               /\ FailedAt(body[c].msg, Attempt(c))',
           step = "handling" => body[c].msg \notin Malformed,
           step = "ack" /\ chan[s] = "open" => outPub[s][c] # None \/ Done(body[c].msg)',
           step = "nack" /\ chan[s] = "open" => MayReject(body[c].msg)'
    PROVE  IInv'
<1>t. TypeOK BY DEF IInv
<1>pc. /\ pc' \in [Session -> [Copy -> Steps]] /\ pc'[s][c] = step
       /\ \A t \in Session, d \in Copy : <<t, d>> # <<s, c>> => pc'[t][d] = pc[t][d]
  BY <1>t DEF Goto, TypeOK, ConsumerTypeOK
<1>o. /\ outDlq' \in [Session -> [Copy -> Frame \cup {None}]]
      /\ \/ outDlq'[s][c] = outDlq[s][c]
         \/ /\ outDlq'[s][c].body.msg = body[c].msg
            /\ ~outDlq'[s][c].body.persistent /\ Earned(outDlq'[s][c].body)
      /\ \A t \in Session, d \in Copy : <<t, d>> # <<s, c>> => outDlq'[t][d] = outDlq[t][d]
  <2>1. CASE outDlq' = outDlq
    BY <2>1, <1>t DEF TypeOK
  <2>2. CASE \E f \in Frame : /\ outDlq' = [outDlq EXCEPT ![s][c] = f]
                              /\ f.body.msg = body[c].msg
                              /\ ~f.body.persistent /\ Earned(f.body)
    <3>1. PICK f \in Frame : /\ outDlq' = [outDlq EXCEPT ![s][c] = f]
                             /\ f.body.msg = body[c].msg
                             /\ ~f.body.persistent /\ Earned(f.body)
      BY <2>2
    <3>2. outDlq'[s][c] = f
      BY <3>1, <1>t DEF TypeOK
    <3> QED BY <3>1, <3>2, <1>t DEF TypeOK
  <2> QED BY <2>1, <2>2
<1>a. \A d \in Copy : Attempt(d)' = Attempt(d)
  BY DEF Attempt, ReadRetryAttempt
<1>k. KeepsCopies
  BY DEF KeepsCopies
<1>s. \A d \in Copy : SameCopy(d)
  BY DEF SameCopy
<1>b. body[c] # None /\ TaskOK(s, c) /\ FrameOK(s, c)
  BY DEF IInv, TaskOK
<1>1. TypeOK'
  BY <1>t, <1>pc, <1>o DEF TypeOK, BrokerTypeOK, ConsumerTypeOK
<1>2. Durability'
  BY DEF IInv, Durability
<1>3. Kept'
  BY <1>k, KeptStays DEF Published
<1>4. TaskOK(s, c)'
  <2>1. (Retries(c)' <=> Retries(c)) /\ (Exhausted(c)' <=> Exhausted(c))
    BY <1>a DEF Exhausted, Retries, IsRetryExhausted, RetryDelay
  <2> QED BY <2>1, <1>b, <1>pc, <1>a DEF TaskOK
<1>5. FrameOK(s, c)'
  <2>1. CASE outDlq'[s][c] = outDlq[s][c]
    <3>1. outSettle'[s][c] = None
      BY <1>b DEF FrameOK
    <3> QED BY <2>1, <3>1, <1>b, FrameStays
  <2>2. CASE /\ outDlq'[s][c].body.msg = body[c].msg
             /\ ~outDlq'[s][c].body.persistent /\ Earned(outDlq'[s][c].body)
    <3>1. Earned(outDlq[s][c].body)'
      BY <2>2, CallsGrow
    <3>2. outPub[s][c] # None => Earned(outPub[s][c].body)'
      BY <1>b, CallsGrow DEF FrameOK
    <3>3. outSettle'[s][c] = None
      BY <1>b DEF FrameOK
    <3> QED BY <2>2, <3>1, <3>2, <3>3, <1>a, <1>b, BrokerAssumption DEF FrameOK, ReadRetryAttempt
  <2> QED BY <1>o, <2>1, <2>2
<1>6. AcksCovered(s, c)'
  BY <1>b, <1>pc, BrokerAssumption DEF AcksCovered, FrameOK, Covered
<1>7. \A t \in Session, d \in Copy : <<t, d>> # <<s, c>> => SameTask(t, d)
  BY <1>pc, <1>o DEF SameTask
<1>8. \A t \in Session, d \in Copy :
        \/ SameTask(t, d) /\ SameCopy(d)
        \/ TaskOK(t, d)' /\ FrameOK(t, d)' /\ AcksCovered(t, d)'
  BY <1>4, <1>5, <1>6, <1>7, <1>s
<1>9. \A d \in Copy : body[d] # None /\ Covered(d) => Covered(d)'
  BY <1>k, CoveredStays
<1> QED BY <1>1, <1>2, <1>3, <1>8, <1>9, <1>s, LocalStep

\* Channels close, and their tasks stay where they are, end, or go on to settle
\* in vain: lost connections, crashes, restarts and channel exceptions.  Only
\* dead letters may be lost.
LEMMA CloseStep ==
    ASSUME IInv, NEW S \in SUBSET Session, NEW T \in SUBSET Copy,
           \A s \in S : chan[s] = "open",
           \A c \in T : place[c] = "dlq",
           CloseChannels(S),
           place' = [c \in Copy |-> IF c \in T THEN "lost" ELSE Requeued(S)[c]],
           UNCHANGED <<body, args, bound, calls>>,
           outDlq' \in [Session -> [Copy -> Frame \cup {None}]],
           \A s \in Session, c \in Copy : outDlq'[s][c] \in {outDlq[s][c], None},
           pc' \in [Session -> [Copy -> Steps]],
           \A s \in Session, c \in Copy :
               \/ pc'[s][c] = pc[s][c]
               \/ s \in S /\ pc[s][c] # "none" /\ pc'[s][c] \in {"none", "ack", "nack"}
    PROVE  IInv'
<1>t. TypeOK BY DEF IInv
<1>c. /\ chan' = [s \in Session |-> IF s \in S THEN "closed" ELSE chan[s]]
      /\ outPub' = [s \in Session |-> IF s \in S THEN [c \in Copy |-> None] ELSE outPub[s]]
      /\ outSettle' = [s \in Session |->
                          IF s \in S THEN [c \in Copy |-> None] ELSE outSettle[s]]
      /\ owner' = [c \in Copy |-> IF owner[c] \in S THEN None ELSE owner[c]]
  BY DEF CloseChannels
<1>o. \A c \in Copy : owner[c] \in S => place[c] = "unacked" /\ body[c] # None
  BY BrokerAssumption DEF IInv, CopyOK
<1>p. \A c \in Copy : place'[c] = IF c \in T THEN "lost"
                                  ELSE IF owner[c] \in S THEN "ready" ELSE place[c]
  BY DEF Requeued
<1>k. KeepsCopies
  BY <1>o, <1>p DEF KeepsCopies
<1>1. TypeOK'
  <2>1. place' \in [Copy -> Places]
    BY <1>t, <1>p DEF TypeOK, BrokerTypeOK, Places
  <2>2. owner' \in [Copy -> Session \cup {None}]
    BY <1>t, <1>c DEF TypeOK, BrokerTypeOK
  <2>3. chan' \in [Session -> {"new", "open", "closed"}]
    BY <1>t, <1>c DEF TypeOK, BrokerTypeOK
  <2>4. outPub' \in [Session -> [Copy -> Frame \cup {None}]]
    BY <1>t, <1>c DEF TypeOK, BrokerTypeOK
  <2>5. outSettle' \in [Session -> [Copy -> {"ack", "nack", None}]]
    BY <1>t, <1>c DEF TypeOK, BrokerTypeOK
  <2> QED BY <2>1, <2>2, <2>3, <2>4, <2>5, <1>t DEF TypeOK, BrokerTypeOK, ConsumerTypeOK
<1>2. Durability'
  <2>1. /\ \A c \in Copy : place'[c] = "delayed" => place[c] = "delayed"
        /\ \A s \in Session : chan'[s] = "open" => chan[s] = "open"
    BY <1>c, <1>p
  <2> QED BY <2>1 DEF IInv, Durability
<1>3. AttemptLimit'
  BY DEF IInv, AttemptLimit
<1>4. Kept'
  BY <1>k, KeptStays DEF Published
<1>5. ASSUME NEW c \in Copy PROVE CopyOK(c)'
  <2>1. CopyOK(c)
    BY DEF IInv
  <2>2. /\ body[c] # None => Earned(body[c])'
        /\ MayReject(body[c].msg) => MayReject(body[c].msg)'
    BY <2>1, CallsGrow DEF CopyOK
  <2> QED BY <2>1, <2>2, <1>c, <1>o, <1>p, BrokerAssumption DEF CopyOK
<1>6. ASSUME NEW s \in Session, NEW c \in Copy
      PROVE  TaskOK(s, c)' /\ FrameOK(s, c)' /\ AcksCovered(s, c)'
  <2>1. TaskOK(s, c) /\ FrameOK(s, c) /\ AcksCovered(s, c)
    BY DEF IInv
  <2>2. CASE s \in S
    <3>1. chan'[s] = "closed" /\ outPub'[s][c] = None /\ outSettle'[s][c] = None
      BY <2>2, <1>c
    <3>2. TaskOK(s, c)'
      <4>1. CASE pc'[s][c] = pc[s][c]
        BY <2>1, <3>1, <4>1, TaskStays
      <4>2. CASE pc[s][c] # "none" /\ pc'[s][c] \in {"none", "ack", "nack"}
        BY <2>1, <3>1, <4>2 DEF TaskOK
      <4> QED BY <4>1, <4>2
    <3>3. FrameOK(s, c)'
      BY <2>1, <3>1, FrameStays
    <3> QED BY <3>1, <3>2, <3>3 DEF AcksCovered
  <2>3. CASE s \notin S
    <3>1. /\ chan'[s] = chan[s] /\ pc'[s][c] = pc[s][c]
          /\ outPub'[s][c] = outPub[s][c] /\ outSettle'[s][c] = outSettle[s][c]
          /\ owner[c] = s => owner'[c] = s
      BY <2>3, <1>c
    <3>2. TaskOK(s, c)'
      BY <2>1, <3>1, TaskStays DEF TaskOK
    <3>3. FrameOK(s, c)'
      BY <2>1, <3>1, FrameStays DEF FrameOK
    <3>4. AcksCovered(s, c)'
      <4> SUFFICES ASSUME chan[s] = "open",
                          pc[s][c] = "ack" \/ outSettle[s][c] = "ack",
                          outPub[s][c] = None
                   PROVE  Covered(c)'
        BY <3>1 DEF AcksCovered
      <4>1. body[c] # None /\ Covered(c)
        BY <2>1, ActiveHasBody, BrokerAssumption DEF AcksCovered
      <4> QED BY <4>1, <1>k, CoveredStays
    <3> QED BY <3>2, <3>3, <3>4
  <2> QED BY <2>2, <2>3
<1> QED BY <1>1, <1>2, <1>3, <1>4, <1>5, <1>6 DEF IInv

-----------------------------------------------------------------------------
(* Copies appear. *)

\* Fresh is an unused copy, and a new message takes nothing else.
LEMMA EnqueueFacts ==
    ASSUME IInv, NEW p \in Places, NEW b \in Body, Enqueue(p, b), owner' = owner
    PROVE  \E new \in Copy :
             /\ body[new] = None /\ owner[new] = None
             /\ place'[new] = p /\ body'[new] = b
             /\ place' \in [Copy -> Places]
             /\ body' \in [Copy -> Body \cup {None}]
             /\ \A d \in Copy \ {new} : SameCopy(d)
<1>1. PICK new \in Copy : new = Fresh /\ place[new] = "unused"
  BY DEF Enqueue, HasFresh, Fresh
<1>2. body[new] = None /\ owner[new] = None
  BY <1>1 DEF IInv, CopyOK
<1>3. /\ place' = [place EXCEPT ![new] = p]
      /\ body' = [body EXCEPT ![new] = b]
  BY <1>1 DEF Enqueue
<1>4. /\ place \in [Copy -> Places]
      /\ body \in [Copy -> Body \cup {None}]
  BY DEF IInv, TypeOK, BrokerTypeOK
<1>5. \A d \in Copy \ {new} : SameCopy(d)
  BY <1>3, <1>4 DEF SameCopy
<1> QED BY <1>2, <1>3, <1>4, <1>5

\* A copy of an earned body appears, and one publish frame may be consumed.
LEMMA EnqueueStep ==
    ASSUME IInv, NEW p \in {"ready", "delayed", "dlq"}, NEW b \in Body,
           Enqueue(p, b), Earned(b), b.persistent <=> p # "dlq",
           UNCHANGED <<owner, chan, outSettle, args, bound, pc, calls>>,
           outPub' \in [Session -> [Copy -> Frame \cup {None}]],
           outDlq' \in [Session -> [Copy -> Frame \cup {None}]],
           \A t \in Session, d \in Copy :
               /\ outPub'[t][d] \in {outPub[t][d], None}
               /\ outDlq'[t][d] \in {outDlq[t][d], None},
           p = "delayed" => HasRetry /\ (DelayedExchange => bound),
           \A t \in Session, d \in Copy : outPub'[t][d] # outPub[t][d] =>
               p # "dlq" /\ b.msg = body[d].msg /\ ReadRetryAttempt(b) > Attempt(d)
    PROVE  IInv'
<1>t. TypeOK BY DEF IInv
<1>p. p \in Places BY DEF Places
<1>f. PICK new \in Copy :
      /\ body[new] = None /\ owner[new] = None
      /\ place'[new] = p /\ body'[new] = b
      /\ place' \in [Copy -> Places]
      /\ body' \in [Copy -> Body \cup {None}]
      /\ \A d \in Copy \ {new} : SameCopy(d)
  BY <1>p, EnqueueFacts
<1>b. b # None BY BodyAssumption
<1>g. calls \subseteq calls' OBVIOUS
<1>k. KeepsCopies
  BY <1>f DEF KeepsCopies, SameCopy
<1>a. \A d \in Copy \ {new} : Attempt(d)' = Attempt(d)
  BY <1>f DEF Attempt, ReadRetryAttempt, SameCopy
<1>1. TypeOK'
  BY <1>t, <1>f DEF TypeOK, BrokerTypeOK, ConsumerTypeOK
<1>2. Durability'
  BY <1>f DEF IInv, Durability, SameCopy
<1>3. AttemptLimit'
  BY DEF IInv, AttemptLimit
<1>4. Kept'
  <2> SUFFICES ASSUME NEW m \in Msg, Published(m)'
               PROVE  (Done(m) \/ \E c \in Copy : Active(c) /\ body[c].msg = m)'
    BY DEF Kept
  <2>1. CASE \E d \in Copy \ {new} : body'[d] # None /\ body'[d].msg = m
    <3>1. Published(m)
      BY <2>1, <1>f DEF Published, SameCopy
    <3>2. CASE Done(m)
      BY <3>2, <1>k, DoneStays
    <3>3. CASE \E c \in Copy : Active(c) /\ body[c].msg = m
      BY <3>3, <1>f DEF Active, SameCopy
    <3> QED BY <3>1, <3>2, <3>3 DEF IInv, Kept
  <2>2. CASE b.msg = m
    <3>1. CASE p = "dlq"
      <4>1. HasRetry /\ FinalFailure(m)
        BY <2>2, <3>1 DEF Earned
      <4> QED BY <4>1, CallsGrow DEF Done
    <3>2. CASE p # "dlq"
      BY <2>2, <3>2, <1>b, <1>f DEF Active
    <3> QED BY <3>1, <3>2
  <2> QED BY <2>1, <2>2, <1>f DEF Published
<1>5. CopyOK(new)'
  <2>1. Earned(body[new])'
    BY <1>f, CallsGrow
  <2> QED BY <2>1, <1>b, <1>f, BrokerAssumption DEF CopyOK
<1>n. \A t \in Session, d \in Copy :
        pc[t][d] # "none" \/ outSettle[t][d] # None \/ outPub[t][d] # None => d # new
  BY <1>f, ActiveHasBody
<1>c. \A d \in Copy : body[d] # None /\ Covered(d) => Covered(d)'
  BY <1>k, CoveredStays
<1>6. ASSUME NEW t \in Session, NEW d \in Copy
      PROVE  \/ SameTask(t, d) /\ SameCopy(d)
             \/ TaskOK(t, d)' /\ FrameOK(t, d)' /\ AcksCovered(t, d)'
  <2>1. TaskOK(t, d) /\ FrameOK(t, d) /\ AcksCovered(t, d)
    BY DEF IInv
  <2>2. CASE d = new
    <3>1. pc[t][d] = "none" /\ outSettle[t][d] = None /\ outPub[t][d] = None
      BY <2>2, <1>n
    <3>2. TaskOK(t, d)' /\ AcksCovered(t, d)'
      BY <3>1, BrokerAssumption DEF TaskOK, AcksCovered
    <3>3. outDlq'[t][d] = None
      BY <2>1, <2>2, <1>f DEF FrameOK
    <3>4. FrameOK(t, d)'
      BY <3>1, <3>3, BrokerAssumption DEF FrameOK
    <3> QED BY <3>2, <3>4
  <2>3. CASE d # new
    <3>1. SameCopy(d)
      BY <2>3, <1>f
    <3>2. TaskOK(t, d)' /\ FrameOK(t, d)'
      BY <2>1, <3>1, TaskStays, FrameStays DEF SameCopy
    <3>3. AcksCovered(t, d)'
      <4> SUFFICES ASSUME chan[t] = "open",
                          pc[t][d] = "ack" \/ outSettle[t][d] = "ack",
                          outPub'[t][d] = None
                   PROVE  Covered(d)'
        BY DEF AcksCovered
      <4>1. CASE outPub[t][d] = None
        BY <4>1, <2>1, <1>c, ActiveHasBody, BrokerAssumption DEF AcksCovered
      <4>2. CASE outPub[t][d] # None
        <5>1. p # "dlq" /\ b.msg = body[d].msg /\ ReadRetryAttempt(b) > Attempt(d)
          BY <4>2
        <5>2. Attempt(new)' = ReadRetryAttempt(b) /\ Attempt(d)' = Attempt(d)
          BY <2>3, <1>f, <1>a DEF Attempt, ReadRetryAttempt
        <5>3. Active(new)' /\ body'[new].msg = body'[d].msg
          BY <5>1, <3>1, <1>b, <1>f DEF Active, SameCopy
        <5> QED BY <5>1, <5>2, <5>3 DEF Covered
      <4> QED BY <4>1, <4>2
    <3> QED BY <3>2, <3>3
  <2> QED BY <2>2, <2>3
<1>7. \A d \in Copy : SameCopy(d) \/ CopyOK(d)'
  BY <1>5, <1>f
<1> QED BY <1>1, <1>2, <1>3, <1>4, <1>6, <1>7, <1>c, LocalStep

\* A publisher adds an envelope at attempt 0.
LEMMA PublishStep ==
    ASSUME IInv, NEW m \in Msg, Publish(m), outDlq' = outDlq
    PROVE  IInv'
<1> DEFINE b == [msg |-> m, attempt |-> 0, persistent |-> TRUE]
<1>1. /\ Enqueue("ready", b)
      /\ UNCHANGED <<owner, chan, outPub, outSettle, args, bound, pc, calls>>
  BY EnvelopeAssumption DEF Publish
<1>2. b \in Body /\ b.persistent
  BY DEF Body, Header
<1>3. Earned(b)
  BY BrokerAssumption DEF Earned, ReadRetryAttempt
<1>4. /\ outPub' \in [Session -> [Copy -> Frame \cup {None}]]
      /\ outDlq' \in [Session -> [Copy -> Frame \cup {None}]]
  BY <1>1 DEF IInv, TypeOK, BrokerTypeOK
<1> HIDE DEF b
<1> QED BY <1>1, <1>2, <1>3, <1>4, EnqueueStep

\* The broker receives a retry: the new copy continues the delivery it was
\* published for, which may be acked from here on.
LEMMA RecvPublishStep ==
    ASSUME IInv, NEW s \in Session, NEW c \in Copy, BrokerRecvPublish(s, c), outDlq' = outDlq
    PROVE  IInv'
<1> DEFINE b == outPub[s][c].body
<1>1. FrameOK(s, c) /\ outPub[s][c] # None
  BY DEF IInv, BrokerRecvPublish, RecvPublish
<1>2. /\ HasRetry /\ b.msg = body[c].msg /\ b.persistent /\ Earned(b)
      /\ ReadRetryAttempt(b) > Attempt(c) /\ outPub[s][c].to # Dlq
  BY <1>1 DEF FrameOK
<1>3. /\ chan[s] = "open" /\ Enqueue("delayed", b)
      /\ outPub' = [outPub EXCEPT ![s][c] = None]
      /\ UNCHANGED <<owner, chan, outSettle, args, bound, pc, calls>>
  BY <1>2 DEF BrokerRecvPublish, RecvPublish
<1>t. /\ outPub \in [Session -> [Copy -> Frame \cup {None}]]
      /\ outDlq \in [Session -> [Copy -> Frame \cup {None}]]
  BY DEF IInv, TypeOK, BrokerTypeOK
<1>4. b \in Body
  BY <1>1, <1>t DEF Frame
<1>5. /\ outPub' \in [Session -> [Copy -> Frame \cup {None}]]
      /\ outPub'[s][c] = None
      /\ \A t \in Session, d \in Copy : <<t, d>> # <<s, c>> => outPub'[t][d] = outPub[t][d]
  BY <1>3, <1>t
<1>6. HasRetry /\ (DelayedExchange => bound)
  BY <1>2, <1>3 DEF IInv, Durability
<1>7. \A t \in Session, d \in Copy :
        /\ outPub'[t][d] \in {outPub[t][d], None}
        /\ outPub'[t][d] # outPub[t][d] =>
              b.msg = body[d].msg /\ ReadRetryAttempt(b) > Attempt(d)
  BY <1>2, <1>5
<1> HIDE DEF b
<1> QED BY <1>2, <1>3, <1>4, <1>5, <1>6, <1>7, <1>t, EnqueueStep

\* The broker receives a dead letter, on whatever channel it came.
LEMMA RecvDlqStep ==
    ASSUME IInv, NEW s \in Session, NEW c \in Copy, BrokerRecvDlq(s, c)
    PROVE  IInv'
<1> DEFINE b == outDlq[s][c].body
<1>1. /\ outDlq[s][c] # None /\ Enqueue("dlq", b)
      /\ outDlq' = [outDlq EXCEPT ![s][c] = None]
      /\ UNCHANGED <<owner, chan, outPub, outSettle, args, bound, pc, calls>>
  BY DEF BrokerRecvDlq
<1>2. ~b.persistent /\ Earned(b)
  BY <1>1 DEF IInv, FrameOK
<1>t. /\ outPub \in [Session -> [Copy -> Frame \cup {None}]]
      /\ outDlq \in [Session -> [Copy -> Frame \cup {None}]]
  BY DEF IInv, TypeOK, BrokerTypeOK
<1>3. b \in Body
  BY <1>1, <1>t DEF Frame
<1>4. /\ outDlq' \in [Session -> [Copy -> Frame \cup {None}]]
      /\ \A t \in Session, d \in Copy : outDlq'[t][d] \in {outDlq[t][d], None}
  BY <1>1, <1>t
<1> HIDE DEF b
<1> QED BY <1>1, <1>2, <1>3, <1>4, <1>t, EnqueueStep

-----------------------------------------------------------------------------
(* The broker's other steps. *)

\* A session starts, with the binding the delay exchange needs, or fails to.
LEMMA StartStep ==
    ASSUME IInv, NEW s \in Session, StartConsumerChannel(s) \/ StartFails(s), outDlq' = outDlq
    PROVE  IInv'
<1>u. /\ UNCHANGED <<place, body, owner, outPub, outSettle, args, pc, calls>>
      /\ chan[s] = "new"
      /\ chan' = [chan EXCEPT ![s] = "open"] \/ chan' = [chan EXCEPT ![s] = "closed"]
      /\ bound' = (bound \/ (HasRetry /\ DelayedExchange)) \/ bound' = bound
  BY DEF StartConsumerChannel, StartFails
<1>t. TypeOK BY DEF IInv
<1>c. /\ chan' \in [Session -> {"new", "open", "closed"}]
      /\ \A t \in Session : t # s => chan'[t] = chan[t]
      /\ chan'[s] \in {"open", "closed"}
  BY <1>t, <1>u DEF TypeOK, BrokerTypeOK
<1>n. \A c \in Copy : pc[s][c] = "none" /\ owner[c] # s
                      /\ outPub[s][c] = None /\ outSettle[s][c] = None
  BY <1>u DEF IInv, TaskOK, CopyOK, FrameOK
<1>k. KeepsCopies
  BY <1>u DEF KeepsCopies
<1>b. bound' \in BOOLEAN
  BY <1>t, <1>u DEF TypeOK, BrokerTypeOK
<1>1. TypeOK'
  BY <1>t, <1>u, <1>c, <1>b DEF TypeOK, BrokerTypeOK, ConsumerTypeOK
<1>2. Durability'
  <2>1. CASE StartConsumerChannel(s)
    <3>1. HasRetry /\ DelayedExchange => bound'
      BY <2>1, Zenon DEF StartConsumerChannel
    <3> QED BY <3>1, <1>u DEF IInv, Durability
  <2>2. CASE StartFails(s)
    <3>1. bound' = bound /\ \A t \in Session : chan'[t] = "open" => chan[t] = "open"
      BY <2>2, <1>t DEF StartFails, TypeOK, BrokerTypeOK
    <3> QED BY <3>1, <1>u DEF IInv, Durability
  <2> QED BY <2>1, <2>2
<1>3. AttemptLimit' /\ Kept'
  BY <1>u, <1>k, KeptStays DEF IInv, AttemptLimit, Published
<1>4. ASSUME NEW c \in Copy PROVE CopyOK(c)'
  <2>1. CopyOK(c) /\ \A t \in Session : owner[c] = t => chan'[t] = "open"
    BY <1>c, <1>n DEF IInv, CopyOK
  <2> QED BY <2>1, <1>u, CopyStays DEF SameCopy
<1>5. ASSUME NEW t \in Session, NEW c \in Copy
      PROVE  TaskOK(t, c)' /\ FrameOK(t, c)' /\ AcksCovered(t, c)'
  <2>1. TaskOK(t, c) /\ FrameOK(t, c) /\ AcksCovered(t, c)
    BY DEF IInv
  <2>2. FrameOK(t, c)'
    BY <2>1, <1>u, FrameStays
  <2>3. CASE t = s
    BY <2>2, <2>3, <1>u, <1>n, BrokerAssumption DEF TaskOK, AcksCovered
  <2>4. CASE t # s
    <3>1. chan'[t] = chan[t]
      BY <2>4, <1>c
    <3>2. TaskOK(t, c)'
      BY <2>1, <3>1, <1>u, TaskStays
    <3>3. AcksCovered(t, c)'
      <4> SUFFICES ASSUME chan[t] = "open",
                          pc[t][c] = "ack" \/ outSettle[t][c] = "ack",
                          outPub[t][c] = None
                   PROVE  Covered(c)'
        BY <3>1, <1>u DEF AcksCovered
      <4>1. body[c] # None /\ Covered(c)
        BY <2>1, ActiveHasBody, BrokerAssumption DEF AcksCovered
      <4> QED BY <4>1, <1>k, CoveredStays
    <3> QED BY <2>2, <3>2, <3>3
  <2> QED BY <2>3, <2>4
<1> QED BY <1>1, <1>2, <1>3, <1>4, <1>5 DEF IInv

\* A delivery arrives: the copy is owned by an open session, and its task waits
\* for a permit.
LEMMA DeliverStep ==
    ASSUME IInv, NEW s \in Session, NEW c \in Copy, Deliver(s, c), outDlq' = outDlq
    PROVE  IInv'
<1>u. /\ chan[s] = "open" /\ place[c] = "ready"
      /\ place' = [place EXCEPT ![c] = "unacked"]
      /\ owner' = [owner EXCEPT ![c] = s]
      /\ pc' = [pc EXCEPT ![s][c] = "buffered"]
      /\ UNCHANGED <<body, chan, outPub, outSettle, args, bound, calls>>
  BY DEF Deliver, Send, Goto
<1>t. TypeOK BY DEF IInv
<1>pc. /\ pc' \in [Session -> [Copy -> Steps]]
       /\ pc'[s][c] = "buffered"
       /\ \A t \in Session, d \in Copy : <<t, d>> # <<s, c>> => pc'[t][d] = pc[t][d]
  BY <1>t, <1>u DEF TypeOK, ConsumerTypeOK, Steps
<1>p. /\ place' \in [Copy -> Places] /\ place'[c] = "unacked"
      /\ owner' \in [Copy -> Session \cup {None}] /\ owner'[c] = s
      /\ \A d \in Copy \ {c} : SameCopy(d)
  BY <1>t, <1>u DEF TypeOK, BrokerTypeOK, Places, SameCopy
<1>b. body[c] # None /\ owner[c] = None /\ body[c].persistent /\ Earned(body[c])
  BY <1>u DEF IInv, CopyOK
<1>k. KeepsCopies
  BY <1>u, <1>p DEF KeepsCopies, SameCopy
<1>1. TypeOK'
  BY <1>t, <1>u, <1>pc, <1>p DEF TypeOK, BrokerTypeOK, ConsumerTypeOK
<1>2. Durability'
  <2>1. \A d \in Copy : place'[d] = "delayed" => place[d] = "delayed"
    BY <1>p DEF SameCopy
  <2> QED BY <2>1, <1>u DEF IInv, Durability
<1>3. AttemptLimit' /\ Kept'
  BY <1>u, <1>k, KeptStays DEF IInv, AttemptLimit, Published
<1>4. CopyOK(c)'
  <2>1. Earned(body[c])'
    BY <1>b, <1>u, CallsGrow
  <2> QED BY <2>1, <1>u, <1>b, <1>p, BrokerAssumption DEF CopyOK
<1>c. \A d \in Copy : body[d] # None /\ Covered(d) => Covered(d)'
  BY <1>k, CoveredStays
<1>5. ASSUME NEW t \in Session
      PROVE  TaskOK(t, c)' /\ FrameOK(t, c)' /\ AcksCovered(t, c)'
  <2>1. TaskOK(t, c) /\ FrameOK(t, c)
    BY DEF IInv
  <2>2. /\ outPub[t][c] = None /\ outSettle[t][c] = None
        /\ pc[t][c] # "none" => chan[t] # "open"
    BY <2>1, <1>b, BrokerAssumption DEF TaskOK, FrameOK
  <2>3. FrameOK(t, c)'
    BY <2>1, <2>2, <1>u, FrameStays
  <2>4. CASE t = s
    BY <2>2, <2>3, <2>4, <1>u, <1>b, <1>pc, <1>p, BrokerAssumption DEF TaskOK, AcksCovered
  <2>5. CASE t # s
    <3>1. pc'[t][c] = pc[t][c]
      BY <2>5, <1>pc
    <3>2. TaskOK(t, c)'
      BY <2>1, <2>2, <3>1, <1>u, TaskStays
    <3> QED BY <2>2, <2>3, <3>1, <3>2, <1>u, BrokerAssumption DEF AcksCovered
  <2> QED BY <2>4, <2>5
<1>6. \A t \in Session, d \in Copy :
        \/ SameTask(t, d) /\ SameCopy(d)
        \/ TaskOK(t, d)' /\ FrameOK(t, d)' /\ AcksCovered(t, d)'
  BY <1>5, <1>u, <1>pc, <1>p DEF SameTask
<1>7. \A d \in Copy : SameCopy(d) \/ CopyOK(d)'
  BY <1>4, <1>p
<1> QED BY <1>1, <1>2, <1>3, <1>6, <1>7, <1>c, <1>u, LocalStep

\* A settlement arrives: the copy goes away, and the envelope is done or
\* continued by another copy.
LEMMA RecvSettleStep ==
    ASSUME IInv, NEW s \in Session, NEW c \in Copy, BrokerRecvSettle(s, c), outDlq' = outDlq
    PROVE  IInv'
<1>u. /\ chan[s] = "open" /\ outSettle[s][c] # None /\ outPub[s][c] = None /\ owner[c] = s
      /\ place' = [place EXCEPT ![c] = IF outSettle[s][c] = "ack" THEN "acked" ELSE "dropped"]
      /\ owner' = [owner EXCEPT ![c] = None]
      /\ outSettle' = [outSettle EXCEPT ![s][c] = None]
      /\ UNCHANGED <<body, chan, outPub, args, bound, pc, calls>>
  BY DEF BrokerRecvSettle, RecvSettle
<1>t. TypeOK BY DEF IInv
<1>o. /\ outSettle' \in [Session -> [Copy -> {"ack", "nack", None}]]
      /\ outSettle'[s][c] = None
      /\ \A t \in Session, d \in Copy :
             <<t, d>> # <<s, c>> => outSettle'[t][d] = outSettle[t][d]
  BY <1>t, <1>u DEF TypeOK, BrokerTypeOK
<1>p. /\ place' \in [Copy -> Places] /\ place'[c] \in {"acked", "dropped"}
      /\ owner' \in [Copy -> Session \cup {None}] /\ owner'[c] = None
      /\ \A d \in Copy \ {c} : SameCopy(d)
  BY <1>t, <1>u DEF TypeOK, BrokerTypeOK, Places, SameCopy
<1>b. body[c] # None /\ place[c] = "unacked" /\ body[c].persistent /\ Earned(body[c])
  BY <1>u, BrokerAssumption DEF IInv, CopyOK
<1>a. \A d \in Copy : Attempt(d)' = Attempt(d)
  BY <1>u DEF Attempt, ReadRetryAttempt
<1>r. outSettle[s][c] = "nack" => MayReject(body[c].msg)'
  BY <1>u, CallsGrow DEF IInv, FrameOK
<1>d. ASSUME NEW m, Done(m) PROVE Done(m)'
  <2>1. CASE Discarded(m)
    BY <2>1, <1>u, <1>b, <1>p DEF Discarded, SameCopy, Done
  <2>2. CASE Handled(m) \/ (HasRetry /\ FinalFailure(m))
    BY <2>2, <1>u, CallsGrow DEF Done
  <2> QED BY <1>d, <2>1, <2>2 DEF Done
<1>v. \/ Done(body[c].msg)'
      \/ \E x \in Copy : Active(x) /\ body[x].msg = body[c].msg /\ Attempt(x) > Attempt(c)
  <2>1. CASE outSettle[s][c] = "ack"
    BY <2>1, <1>u, <1>d DEF IInv, AcksCovered, Covered
  <2>2. CASE outSettle[s][c] # "ack"
    <3>1. place'[c] = "dropped"
      BY <2>2, <1>t, <1>u DEF TypeOK, BrokerTypeOK
    <3> QED BY <3>1, <1>u, <1>b DEF Done, Discarded
  <2> QED BY <2>1, <2>2
<1>w. \A d \in Copy : Active(d) => Active(d)' \/ d = c
  BY <1>p DEF Active, SameCopy
<1>c. ASSUME NEW d \in Copy, body[d] # None, Covered(d)
      PROVE  Covered(d)'
  <2>1. CASE Done(body[d].msg)
    BY <2>1, <1>u, <1>d DEF Covered
  <2>2. CASE \E e \in Copy : Active(e) /\ body[e].msg = body[d].msg /\ Attempt(e) > Attempt(d)
    <3>1. PICK e \in Copy : Active(e) /\ body[e].msg = body[d].msg /\ Attempt(e) > Attempt(d)
      BY <2>2
    <3>2. CASE e # c
      <4>1. Active(e)'
        BY <3>1, <3>2, <1>w
      <4> QED BY <3>1, <4>1, <1>u, <1>a DEF Covered
    <3>3. CASE e = c
      <4>1. CASE Done(body[c].msg)'
        BY <3>1, <3>3, <4>1, <1>u DEF Covered
      <4>2. CASE \E x \in Copy : Active(x) /\ body[x].msg = body[c].msg
                                 /\ Attempt(x) > Attempt(c)
        <5>1. PICK x \in Copy : Active(x) /\ body[x].msg = body[c].msg
                                /\ Attempt(x) > Attempt(c)
          BY <4>2
        <5>2. Attempt(x) \in Nat /\ Attempt(c) \in Nat /\ Attempt(d) \in Nat
          BY <5>1, <1>b, <1>c, BodyType DEF Active
        <5>3. x # c /\ Attempt(x) > Attempt(d) /\ body[x].msg = body[d].msg
          BY <5>1, <5>2, <3>1, <3>3
        <5>4. Active(x)'
          BY <5>1, <5>3, <1>w
        <5> QED BY <5>3, <5>4, <1>u, <1>a DEF Covered
      <4> QED BY <4>1, <4>2, <1>v
    <3> QED BY <3>2, <3>3
  <2> QED BY <2>1, <2>2, <1>c DEF Covered
<1>1. TypeOK'
  BY <1>t, <1>u, <1>o, <1>p DEF TypeOK, BrokerTypeOK, ConsumerTypeOK
<1>2. Durability'
  <2>1. \A d \in Copy : place'[d] = "delayed" => place[d] = "delayed"
    BY <1>p DEF SameCopy
  <2> QED BY <2>1, <1>u DEF IInv, Durability
<1>3. AttemptLimit'
  BY <1>u DEF IInv, AttemptLimit
<1>4. Kept'
  <2> SUFFICES ASSUME NEW m \in Msg, Published(m)
               PROVE  (Done(m) \/ \E d \in Copy : Active(d) /\ body[d].msg = m)'
    BY <1>u DEF Kept, Published
  <2>1. CASE Done(m)
    BY <2>1, <1>d
  <2>2. CASE \E d \in Copy : Active(d) /\ body[d].msg = m
    <3>1. PICK d \in Copy : Active(d) /\ body[d].msg = m
      BY <2>2
    <3>2. CASE d # c
      BY <3>1, <3>2, <1>u, <1>w
    <3>3. CASE d = c
      <4>1. CASE Done(m)'
        BY <4>1
      <4>2. CASE \E x \in Copy : Active(x) /\ body[x].msg = m /\ Attempt(x) > Attempt(c)
        <5>1. PICK x \in Copy : Active(x) /\ body[x].msg = m /\ Attempt(x) > Attempt(c)
          BY <4>2
        <5>2. x # c
          BY <5>1, <1>b, BodyType
        <5> QED BY <5>1, <5>2, <1>u, <1>w
      <4> QED BY <4>1, <4>2, <3>1, <3>3, <1>u, <1>v
    <3> QED BY <3>2, <3>3
  <2> QED BY <2>1, <2>2 DEF IInv, Kept
<1>5. CopyOK(c)'
  <2>1. Earned(body[c])'
    BY <1>b, <1>u, CallsGrow
  <2>2. place'[c] = "dropped" => outSettle[s][c] = "nack"
    BY <1>t, <1>u DEF TypeOK, BrokerTypeOK
  <2> QED BY <2>1, <2>2, <1>u, <1>b, <1>p, <1>r, BrokerAssumption DEF CopyOK
<1>6. ASSUME NEW t \in Session
      PROVE  TaskOK(t, c)' /\ FrameOK(t, c)' /\ AcksCovered(t, c)'
  <2>1. TaskOK(t, c) /\ FrameOK(t, c) /\ FrameOK(s, c)
    BY DEF IInv
  <2>2. /\ pc[t][c] # "none" => chan[t] # "open"
        /\ outPub'[t][c] = None /\ outSettle'[t][c] = None
    BY <2>1, <1>u, <1>o DEF TaskOK, FrameOK
  <2>3. FrameOK(t, c)'
    BY <2>1, <2>2, <1>u, FrameStays
  <2>4. TaskOK(t, c)'
    BY <2>1, <2>2, <1>u, TaskStays
  <2> QED BY <2>2, <2>3, <2>4, <1>u, BrokerAssumption DEF AcksCovered
<1>7. \A t \in Session, d \in Copy :
        \/ SameTask(t, d) /\ SameCopy(d)
        \/ TaskOK(t, d)' /\ FrameOK(t, d)' /\ AcksCovered(t, d)'
  BY <1>6, <1>u, <1>o, <1>p DEF SameTask
<1>8. \A d \in Copy : SameCopy(d) \/ CopyOK(d)'
  BY <1>5, <1>p
<1> QED BY <1>1, <1>2, <1>3, <1>4, <1>7, <1>8, <1>c, <1>u, LocalStep

\* A delay runs out and the retry is ready again, or a dead letter expires.
LEMMA ExpiryStep ==
    ASSUME IInv, NEW c \in Copy, RetryDue(c) \/ DlqTtlPasses(c), outDlq' = outDlq
    PROVE  IInv'
<1>u. /\ UNCHANGED <<body, owner, chan, outPub, outSettle, args, bound, pc, calls>>
      /\ \/ /\ place[c] = "delayed"
            /\ place' = [place EXCEPT ![c] =
                            IF DelayedExchange /\ ~bound THEN "lost" ELSE "ready"]
         \/ place[c] = "dlq" /\ place' = [place EXCEPT ![c] = "expired"]
  BY DEF RetryDue, DlqTtlPasses, ExpireRetry, ExpireDlq
<1>t. TypeOK BY DEF IInv
<1>d. place[c] = "delayed" => ~(DelayedExchange /\ ~bound)
  BY DEF IInv, Durability
<1>n. \/ place[c] = "delayed" /\ place' = [place EXCEPT ![c] = "ready"]
      \/ place[c] = "dlq" /\ place' = [place EXCEPT ![c] = "expired"]
  BY <1>u, <1>d, Zenon
<1>p. /\ place' \in [Copy -> Places]
      /\ \/ place[c] = "delayed" /\ place'[c] = "ready"
         \/ place[c] = "dlq" /\ place'[c] = "expired"
      /\ \A d \in Copy \ {c} : place'[d] = place[d]
  BY <1>t, <1>n DEF TypeOK, BrokerTypeOK, Places
<1>s. \A d \in Copy \ {c} : SameCopy(d)
  BY <1>u, <1>p DEF SameCopy
<1>k. KeepsCopies
  BY <1>u, <1>p DEF KeepsCopies
<1>b. CopyOK(c) /\ body[c] # None /\ owner[c] = None
  BY <1>p, BrokerAssumption DEF IInv, CopyOK, TypeOK, BrokerTypeOK
<1>1. TypeOK'
  BY <1>t, <1>u, <1>p DEF TypeOK, BrokerTypeOK, ConsumerTypeOK
<1>2. Durability'
  <2>1. \A d \in Copy : place'[d] = "delayed" => place[d] = "delayed"
    BY <1>p
  <2> QED BY <2>1, <1>u DEF IInv, Durability
<1>3. AttemptLimit' /\ Kept'
  BY <1>u, <1>k, KeptStays DEF IInv, AttemptLimit, Published
<1>4. CopyOK(c)'
  <2>1. Earned(body[c])'
    BY <1>b, <1>u, CallsGrow DEF CopyOK
  <2> QED BY <2>1, <1>u, <1>b, <1>p DEF CopyOK
<1>c. \A d \in Copy : body[d] # None /\ Covered(d) => Covered(d)'
  BY <1>k, CoveredStays
<1>5. ASSUME NEW t \in Session
      PROVE  TaskOK(t, c)' /\ FrameOK(t, c)' /\ AcksCovered(t, c)'
  <2>1. TaskOK(t, c) /\ FrameOK(t, c) /\ AcksCovered(t, c)
    BY DEF IInv
  <2>2. TaskOK(t, c)' /\ FrameOK(t, c)'
    BY <2>1, <1>u, TaskStays, FrameStays
  <2>3. chan[t] = "open" => pc[t][c] = "none" /\ outSettle[t][c] = None
    BY <2>1, <1>b, BrokerAssumption DEF TaskOK, FrameOK
  <2> QED BY <2>2, <2>3, <1>u, BrokerAssumption DEF AcksCovered
<1>6. \A t \in Session, d \in Copy :
        \/ SameTask(t, d) /\ SameCopy(d)
        \/ TaskOK(t, d)' /\ FrameOK(t, d)' /\ AcksCovered(t, d)'
  BY <1>5, <1>s, <1>u DEF SameTask
<1>7. \A d \in Copy : SameCopy(d) \/ CopyOK(d)'
  BY <1>4, <1>s
<1> QED BY <1>1, <1>2, <1>3, <1>6, <1>7, <1>c, <1>u, LocalStep

-----------------------------------------------------------------------------
(* The tasks. *)

\* A call fails on a closed channel, or the handler panics: the task moves on to
\* a settlement the closed channel will not carry, or ends.
LEMMA FailStep ==
    ASSUME IInv, NEW s \in Session, NEW c \in Copy, NEW step \in {"ack", "nack", "none"},
           pc[s][c] # "none", step = "none" \/ chan[s] = "closed",
           Goto(s, c, step), UNCHANGED <<brokerVars, calls, outDlq>>
    PROVE  IInv'
<1>1. UNCHANGED <<place, body, owner, chan, outPub, outSettle, args, bound, calls, outDlq>>
  BY DEF brokerVars
<1>2. /\ step \in Steps
      /\ calls' \in SUBSET Call
      /\ args' \in [Queue -> Ttl \cup {NoTtl, Undeclared}]
      /\ AttemptLimit'
  BY <1>1 DEF IInv, TypeOK, BrokerTypeOK, ConsumerTypeOK, Steps, AttemptLimit
<1> QED BY <1>1, <1>2, MoveStep

\* The task decodes the payload or gives it up.
LEMMA DispatchStep ==
    ASSUME IInv, NEW s \in Session, NEW c \in Copy, Dispatch(s, c), outDlq' = outDlq
    PROVE  IInv'
<1>1. /\ pc[s][c] = "buffered"
      /\ UNCHANGED <<place, body, owner, chan, outPub, outSettle, args, bound, calls>>
  BY DEF Dispatch, brokerVars
<1>2. /\ calls' \in SUBSET Call /\ AttemptLimit'
      /\ args' \in [Queue -> Ttl \cup {NoTtl, Undeclared}]
  BY <1>1 DEF IInv, TypeOK, BrokerTypeOK, ConsumerTypeOK, AttemptLimit
<1>3. CASE body[c].msg \in Malformed
  <2>1. Goto(s, c, "nack") /\ "nack" \in Steps
    BY <1>3 DEF Dispatch, Steps
  <2>2. MayReject(body[c].msg)'
    BY <1>1, <1>3 DEF MayReject, Rejectable
  <2> QED BY <1>1, <1>2, <2>1, <2>2, MoveStep
<1>4. CASE body[c].msg \notin Malformed
  <2>1. Goto(s, c, "handling") /\ "handling" \in Steps
    BY <1>4 DEF Dispatch, Steps
  <2> QED BY <1>1, <1>2, <1>4, <2>1, MoveStep
<1> QED BY <1>3, <1>4

\* The handler has returned, and the task goes on to a step its result entitles
\* it to.
LEMMA HandlerReturnsStep ==
    ASSUME IInv, NEW s \in Session, NEW c \in Copy, NEW ok \in BOOLEAN, NEW step \in Steps,
           HandlerReturns(s, c, ok), Goto(s, c, step), outDlq' = outDlq,
           step \in {"declare", "publish"} => ~ok /\ Retries(c),
           step \in {"open_dlq", "declare_dlq", "publish_dlq"} => ~ok /\ Exhausted(c),
           step = "ack" => ok,
           step = "nack" => ~ok /\ (HasRetry => body[c].msg \in Unserializable),
           step # "handling"
    PROVE  IInv'
<1> DEFINE call == [msg |-> body[c].msg, attempt |-> Attempt(c), ok |-> ok]
<1>1. /\ pc[s][c] = "handling" /\ calls' = calls \cup {call}
      /\ UNCHANGED <<place, body, owner, chan, outPub, outSettle, args, bound>>
  BY DEF HandlerReturns, brokerVars
<1>2. body[c] # None /\ body[c].persistent
  BY <1>1 DEF IInv, TaskOK
<1>3. body[c] \in Body /\ Attempt(c) \in 0..MaxRetries /\ Attempt(c) <= EnvMax[body[c].msg]
  BY <1>2, BodyType, AttemptInLimit
<1>4. call \in Call
  BY <1>3, BrokerAssumption DEF Call, Body
<1>5. calls \subseteq calls' /\ calls' \in SUBSET Call
  BY <1>1, <1>4 DEF IInv, TypeOK, ConsumerTypeOK
<1>6. AttemptLimit'
  BY <1>1, <1>3, BrokerAssumption DEF IInv, AttemptLimit
<1>7. args' \in [Queue -> Ttl \cup {NoTtl, Undeclared}]
  BY <1>1 DEF IInv, TypeOK, BrokerTypeOK
<1>8. call \in calls' /\ call.msg = body'[c].msg /\ call.ok = ok
  BY <1>1
<1>9. ok => Done(body[c].msg)'
  <2>1. ok => Handled(body[c].msg)'
    BY <1>8 DEF Handled
  <2> QED BY <2>1 DEF Done
<1>10. ~ok => FailedAt(body[c].msg, Attempt(c))'
  <2>1. Attempt(c)' = Attempt(c)
    BY <1>1 DEF Attempt, ReadRetryAttempt
  <2> QED BY <1>1, <2>1 DEF FailedAt
<1>11. ~ok /\ Exhausted(c) => HasRetry /\ FinalFailure(body[c].msg)'
  <2>1. Attempt(c)' = Attempt(c)
    BY <1>1 DEF Attempt, ReadRetryAttempt
  <2> QED BY <1>1, <1>3, <1>10, <2>1
          DEF Exhausted, Retries, IsRetryExhausted, FinalFailure, RetryDelay
<1>12. ~ok /\ (HasRetry => body[c].msg \in Unserializable) => MayReject(body[c].msg)'
  BY <1>1, <1>8 DEF MayReject, Rejectable
<1> HIDE DEF call
<1> QED BY <1>1, <1>5, <1>6, <1>7, <1>9, <1>10, <1>11, <1>12, MoveStep

\* The handler's success is done with, its failure earns a retry within both
\* limits and is final otherwise; a retry that cannot be written is rejected, and
\* a delay that cannot be calculated ends the task.
LEMMA HandlerStep ==
    ASSUME IInv, NEW s \in Session, NEW c \in Copy,
           \/ HandlerOk(s, c) /\ outDlq' = outDlq
           \/ HandlerErr(s, c) \/ CalculateDelayPanics(s, c) \/ RetrySerializeFails(s, c)
    PROVE  IInv'
<1> USE DEF Steps
<1>1. CASE HandlerOk(s, c) /\ outDlq' = outDlq
  BY <1>1, HandlerReturnsStep DEF HandlerOk
<1>2. CASE HandlerErr(s, c)
  <2>1. \/ Goto(s, c, "declare") /\ Retries(c)
        \/ Goto(s, c, "open_dlq") /\ Exhausted(c)
        \/ Goto(s, c, "nack") /\ ~HasRetry
    BY <1>2 DEF HandlerErr, Exhausted
  <2>2. HandlerReturns(s, c, FALSE) /\ outDlq' = outDlq
    BY <1>2 DEF HandlerErr
  <2>3. CASE Goto(s, c, "declare") /\ Retries(c)
    BY <2>2, <2>3, HandlerReturnsStep
  <2>4. CASE Goto(s, c, "open_dlq") /\ Exhausted(c)
    BY <2>2, <2>4, HandlerReturnsStep
  <2>5. CASE Goto(s, c, "nack") /\ ~HasRetry
    BY <2>2, <2>5, HandlerReturnsStep
  <2> QED BY <2>1, <2>3, <2>4, <2>5
<1>3. CASE CalculateDelayPanics(s, c)
  BY <1>3, HandlerReturnsStep DEF CalculateDelayPanics
<1>4. CASE RetrySerializeFails(s, c)
  BY <1>4, HandlerReturnsStep DEF RetrySerializeFails
<1> QED BY <1>1, <1>2, <1>3, <1>4

\* What a retry's step has established about its attempt.
LEMMA RetryAttempt ==
    ASSUME IInv, NEW s \in Session, NEW c \in Copy, pc[s][c] \in {"declare", "publish"}
    PROVE  /\ HasRetry /\ body[c] \in Body /\ body[c].persistent
           /\ Retries(c) /\ FailedAt(body[c].msg, Attempt(c))
           /\ Attempt(c) \in 0..(MaxRetries - 1)
           /\ Delay[Attempt(c)] \in Ttl
           /\ RetryQueue(Attempt(c) + 1) \in Queue
<1>1. /\ body[c] # None /\ body[c].persistent
      /\ Retries(c) /\ FailedAt(body[c].msg, Attempt(c))
  BY DEF IInv, TaskOK
<1>2. body[c] \in Body /\ Attempt(c) \in Nat
  BY <1>1, BodyType
<1>3. Attempt(c) \in 0..(MaxRetries - 1) /\ HasRetry /\ Delay[Attempt(c)] # None
  BY <1>1, <1>2, BrokerAssumption DEF Retries, RetryDelay
<1>4. Delay[Attempt(c)] \in Ttl
  BY <1>3, ConsumerAssumption
<1>5. RetryQueue(Attempt(c) + 1) \in Queue
  BY <1>3, BrokerAssumption DEF Queue
<1> QED BY <1>1, <1>2, <1>3, <1>4, <1>5

\* The declaration of a retry queue: it is there, or the exception closes the
\* channel, or the channel is gone.
LEMMA CreateRetryQueueStep ==
    ASSUME IInv, NEW s \in Session, NEW c \in Copy, CreateRetryQueue(s, c), outDlq' = outDlq
    PROVE  IInv'
<1> DEFINE q == RetryQueue(Attempt(c) + 1)
           ttl == Delay[Attempt(c)]
<1>1. pc[s][c] = "declare" /\ QueueDeclare(s, c, q, ttl, "publish", "nack")
  BY DEF CreateRetryQueue
<1>2. q \in Queue /\ ttl \in Ttl /\ Retries(c) /\ FailedAt(body[c].msg, Attempt(c))
  BY <1>1, RetryAttempt
<1>t. TypeOK BY DEF IInv
<1>3. CASE /\ args' = [args EXCEPT ![q] = ttl]
           /\ Goto(s, c, "publish")
           /\ UNCHANGED <<place, body, owner, chan, outPub, outSettle, bound, calls>>
  <2>1. args' \in [Queue -> Ttl \cup {NoTtl, Undeclared}]
    BY <1>2, <1>3, <1>t DEF TypeOK, BrokerTypeOK
  <2>2. calls' \in SUBSET Call /\ AttemptLimit' /\ "publish" \in Steps
    BY <1>3, <1>t DEF IInv, TypeOK, ConsumerTypeOK, AttemptLimit, Steps
  <2>3. FailedAt(body[c].msg, Attempt(c))'
    BY <1>2, <1>3 DEF FailedAt, Attempt, ReadRetryAttempt
  <2> QED BY <1>1, <1>2, <1>3, <2>1, <2>2, <2>3, MoveStep
<1>4. CASE chan[s] = "open" /\ Close({s}) /\ Goto(s, c, "nack") /\ UNCHANGED calls
  <2>1. pc' = [pc EXCEPT ![s][c] = "nack"] /\ "nack" \in Steps
    BY <1>4 DEF Goto, Steps
  <2>2. /\ pc' \in [Session -> [Copy -> Steps]]
        /\ \A t \in Session, d \in Copy :
               \/ pc'[t][d] = pc[t][d]
               \/ t \in {s} /\ pc[t][d] # "none" /\ pc'[t][d] \in {"none", "ack", "nack"}
    BY <1>1, <2>1, <1>t DEF TypeOK, ConsumerTypeOK
  <2>3. /\ CloseChannels({s})
        /\ place' = [d \in Copy |-> IF d \in {} THEN "lost" ELSE Requeued({s})[d]]
        /\ UNCHANGED <<body, args, bound>>
    BY <1>4 DEF Close, Requeued
  <2>4. outDlq' \in [Session -> [Copy -> Frame \cup {None}]]
    BY <1>t DEF TypeOK
  <2>5. {s} \in SUBSET Session /\ {} \in SUBSET Copy
        /\ (\A t \in {s} : chan[t] = "open") /\ \A d \in {} : place[d] = "dlq"
    BY <1>4
  <2> QED BY <1>4, <2>2, <2>3, <2>4, <2>5, CloseStep
<1>5. CASE chan[s] = "closed" /\ Goto(s, c, "nack") /\ UNCHANGED <<brokerVars, calls>>
  BY <1>1, <1>5, FailStep
<1> QED BY <1>1, <1>3, <1>4, <1>5 DEF QueueDeclare

\* The declaration of the delay exchange.
LEMMA CreateDelayExchangeStep ==
    ASSUME IInv, NEW s \in Session, NEW c \in Copy, CreateDelayExchange(s, c), outDlq' = outDlq
    PROVE  IInv'
<1>1. pc[s][c] = "declare" /\ UNCHANGED <<brokerVars, calls>>
  BY DEF CreateDelayExchange
<1>2. UNCHANGED <<place, body, owner, chan, outPub, outSettle, args, bound, calls>>
  BY <1>1 DEF brokerVars
<1>3. CASE chan[s] = "open"
  <2>1. Goto(s, c, "publish") /\ "publish" \in Steps
    BY <1>3 DEF CreateDelayExchange, Steps
  <2>2. Retries(c) /\ FailedAt(body[c].msg, Attempt(c))'
    BY <1>1, <1>2, RetryAttempt DEF FailedAt, Attempt, ReadRetryAttempt
  <2>3. /\ calls' \in SUBSET Call /\ AttemptLimit'
        /\ args' \in [Queue -> Ttl \cup {NoTtl, Undeclared}]
    BY <1>2 DEF IInv, TypeOK, BrokerTypeOK, ConsumerTypeOK, AttemptLimit
  <2> QED BY <1>1, <1>2, <2>1, <2>2, <2>3, MoveStep
<1>4. CASE chan[s] # "open"
  <2>1. chan[s] = "closed"
    BY <1>1, <1>4 DEF IInv, TypeOK, BrokerTypeOK, TaskOK
  <2>2. Goto(s, c, "nack")
    BY <1>4 DEF CreateDelayExchange
  <2> QED BY <1>1, <2>1, <2>2, FailStep
<1> QED BY <1>3, <1>4

\* The publish of a retry: a frame ahead of the ack, one attempt further on.
LEMMA SendRetryStep ==
    ASSUME IInv, NEW s \in Session, NEW c \in Copy, SendRetry(s, c), outDlq' = outDlq
    PROVE  IInv'
<1> DEFINE b == [msg |-> body[c].msg, attempt |-> Attempt(c) + 1, persistent |-> TRUE]
           f == RetryFrame(c)
<1>1. pc[s][c] = "publish" /\ BasicPublish(s, c, f, "ack", "nack")
  BY DEF SendRetry
<1>2. /\ HasRetry /\ body[c] \in Body /\ body[c].persistent
      /\ Retries(c) /\ FailedAt(body[c].msg, Attempt(c))
      /\ Attempt(c) \in 0..(MaxRetries - 1)
      /\ RetryQueue(Attempt(c) + 1) \in Queue
  BY <1>1, RetryAttempt
<1>3. b \in Body /\ ReadRetryAttempt(b) = Attempt(c) + 1
  <2>1. Attempt(c) + 1 \in Nat
    BY <1>2, BrokerAssumption
  <2> QED BY <1>2, <2>1, BrokerAssumption DEF Body, Header, ReadRetryAttempt
<1>4. f \in Frame /\ f # None /\ f.body = b /\ f.to # Dlq
  <2>1. f = [to |-> IF DelayedExchange THEN DelayExchange ELSE RetryQueue(Attempt(c) + 1),
             body |-> b]
    BY DEF RetryFrame
  <2>2. f \in Frame
    BY <1>2, <1>3, <2>1 DEF Frame
  <2>3. f # None
    BY <2>2, BodyAssumption
  <2>4. f.to # Dlq
    BY <2>1 DEF DelayExchange, RetryQueue, Dlq
  <2> QED BY <2>1, <2>2, <2>3, <2>4
<1>5. Earned(b)
  <2>1. Earned(body[c])
    BY <1>2, BodyAssumption, BodyType
  <2>2. Allowed(body[c].msg, Attempt(c))
    BY <1>2, EnvelopeAssumption DEF Retries, IsRetryExhausted, Allowed, Body
  <2>3. ASSUME NEW k \in 0..(ReadRetryAttempt(b) - 1)
        PROVE  FailedAt(body[c].msg, k) /\ Allowed(body[c].msg, k)
    <3>1. CASE k = Attempt(c)
      BY <3>1, <1>2, <2>2
    <3>2. CASE k # Attempt(c)
      <4>1. k \in 0..(ReadRetryAttempt(body[c]) - 1)
        BY <3>2, <1>2, <1>3 DEF Attempt
      <4> QED BY <4>1, <2>1, <1>2 DEF Earned
    <3> QED BY <3>1, <3>2
  <2> QED BY <2>3 DEF Earned
<1>6. CASE chan[s] = "open"
  <2>1. /\ outPub' = [outPub EXCEPT ![s][c] = f]
        /\ pc' = [pc EXCEPT ![s][c] = "ack"]
        /\ UNCHANGED <<place, body, owner, chan, outSettle, args, bound, calls>>
    BY <1>1, <1>6 DEF BasicPublish, Goto
  <2>t. TypeOK BY DEF IInv
  <2>2. /\ pc' \in [Session -> [Copy -> Steps]] /\ pc'[s][c] = "ack"
        /\ outPub' \in [Session -> [Copy -> Frame \cup {None}]] /\ outPub'[s][c] = f
        /\ \A t \in Session, d \in Copy : <<t, d>> # <<s, c>> =>
               pc'[t][d] = pc[t][d] /\ outPub'[t][d] = outPub[t][d]
    BY <2>1, <2>t, <1>4 DEF TypeOK, BrokerTypeOK, ConsumerTypeOK, Steps
  <2>3. TypeOK'
    BY <2>1, <2>2, <2>t DEF TypeOK, BrokerTypeOK, ConsumerTypeOK
  <2>k. KeepsCopies
    BY <2>1 DEF KeepsCopies
  <2>4. Durability' /\ AttemptLimit' /\ Kept'
    BY <2>1, <2>k, KeptStays DEF IInv, Durability, AttemptLimit, Published
  <2>5. TaskOK(s, c) /\ FrameOK(s, c) /\ owner[c] = s /\ outSettle[s][c] = None
    BY <1>1, <1>6 DEF IInv, TaskOK, FrameOK
  <2>6. TaskOK(s, c)'
    BY <2>1, <2>2, <2>5, <1>1 DEF TaskOK
  <2>7. FrameOK(s, c)'
    <3>1. Earned(outPub[s][c].body)'
      BY <1>4, <1>5, <2>1, <2>2, CallsGrow
    <3>2. outDlq[s][c] # None => ~outDlq[s][c].body.persistent /\ Earned(outDlq[s][c].body)'
      BY <2>1, <2>5, CallsGrow DEF FrameOK
    <3>3. Attempt(c)' = Attempt(c) /\ ReadRetryAttempt(outPub[s][c].body)' = Attempt(c) + 1
      BY <1>3, <1>4, <2>1, <2>2 DEF Attempt, ReadRetryAttempt
    <3>4. Attempt(c) + 1 > Attempt(c)
      BY <1>2
    <3> HIDE DEF f
    <3> QED BY <1>2, <1>4, <2>1, <2>2, <2>5, <3>1, <3>2, <3>3, <3>4, BrokerAssumption DEF FrameOK
  <2>8. AcksCovered(s, c)'
    BY <1>4, <2>2 DEF AcksCovered
  <2>9. \A d \in Copy : SameCopy(d)
    BY <2>1 DEF SameCopy
  <2>10. \A t \in Session, d \in Copy :
           \/ SameTask(t, d) /\ SameCopy(d)
           \/ TaskOK(t, d)' /\ FrameOK(t, d)' /\ AcksCovered(t, d)'
    BY <2>1, <2>2, <2>6, <2>7, <2>8, <2>9 DEF SameTask
  <2>11. \A d \in Copy : body[d] # None /\ Covered(d) => Covered(d)'
    BY <2>k, CoveredStays
  <2> QED BY <2>1, <2>3, <2>4, <2>9, <2>10, <2>11, LocalStep
<1>7. CASE chan[s] # "open"
  BY <1>1, <1>7, FailStep DEF BasicPublish
<1> QED BY <1>6, <1>7

\* ack_delivery and nack_delivery.
LEMMA SettleStep ==
    ASSUME IInv, NEW s \in Session, NEW c \in Copy, NEW kind \in {"ack", "nack"},
           Settle(s, c, kind), outDlq' = outDlq
    PROVE  IInv'
<1>1. /\ pc[s][c] = kind
      /\ outSettle' = IF chan[s] = "open" THEN [outSettle EXCEPT ![s][c] = kind] ELSE outSettle
      /\ pc' = [pc EXCEPT ![s][c] = "none"]
      /\ UNCHANGED <<place, body, owner, chan, outPub, args, bound, calls>>
  BY DEF Settle, Goto
<1>t. TypeOK BY DEF IInv
<1>2. /\ pc' \in [Session -> [Copy -> Steps]] /\ pc'[s][c] = "none"
      /\ outSettle' \in [Session -> [Copy -> {"ack", "nack", None}]]
      /\ \A t \in Session, d \in Copy : <<t, d>> # <<s, c>> =>
             pc'[t][d] = pc[t][d] /\ outSettle'[t][d] = outSettle[t][d]
      /\ chan[s] # "open" => outSettle'[s][c] = outSettle[s][c]
  BY <1>1, <1>t DEF TypeOK, BrokerTypeOK, ConsumerTypeOK, Steps
<1>3. TypeOK'
  BY <1>1, <1>2, <1>t DEF TypeOK, BrokerTypeOK, ConsumerTypeOK
<1>k. KeepsCopies
  BY <1>1 DEF KeepsCopies
<1>4. Durability' /\ AttemptLimit' /\ Kept'
  BY <1>1, <1>k, KeptStays DEF IInv, Durability, AttemptLimit, Published
<1>5. TaskOK(s, c) /\ FrameOK(s, c) /\ AcksCovered(s, c) /\ body[c] # None
  BY <1>1 DEF IInv, TaskOK
<1>6. TaskOK(s, c)'
  BY <1>2 DEF TaskOK
<1>7. FrameOK(s, c)'
  <2>1. outSettle[s][c] = None
    BY <1>1, <1>5 DEF FrameOK
  <2>2. chan[s] = "open" => owner[c] = s
    BY <1>1, <1>5 DEF TaskOK
  <2>3. /\ outPub[s][c] # None => Earned(outPub[s][c].body)'
        /\ outDlq[s][c] # None => Earned(outDlq[s][c].body)'
    BY <1>1, <1>5, CallsGrow DEF FrameOK
  <2>4. Attempt(c)' = Attempt(c)
    BY <1>1 DEF Attempt, ReadRetryAttempt
  <2>5. kind = "nack" /\ chan[s] = "open" => MayReject(body[c].msg)'
    BY <1>1, <1>5, CallsGrow DEF TaskOK
  <2>6. outSettle'[s][c] = "nack" => kind = "nack" /\ chan[s] = "open"
    BY <1>1, <1>2, <1>t, <2>1, BrokerAssumption DEF TypeOK, BrokerTypeOK
  <2> QED BY <1>1, <1>2, <1>5, <2>1, <2>2, <2>3, <2>4, <2>5, <2>6 DEF FrameOK, ReadRetryAttempt
<1>8. \A d \in Copy : body[d] # None /\ Covered(d) => Covered(d)'
  BY <1>k, CoveredStays
<1>9. AcksCovered(s, c)'
  BY <1>1, <1>5, <1>8 DEF AcksCovered
<1>10. \A d \in Copy : SameCopy(d)
  BY <1>1 DEF SameCopy
<1>11. \A t \in Session, d \in Copy :
         \/ SameTask(t, d) /\ SameCopy(d)
         \/ TaskOK(t, d)' /\ FrameOK(t, d)' /\ AcksCovered(t, d)'
  BY <1>1, <1>2, <1>6, <1>7, <1>9, <1>10 DEF SameTask
<1> QED BY <1>1, <1>3, <1>4, <1>8, <1>10, <1>11, LocalStep

-----------------------------------------------------------------------------
(* send_to_dlq. *)

\* What the dead letter path has established: the failure was final.
LEMMA DeadLetterDeserved ==
    ASSUME IInv, NEW s \in Session, NEW c \in Copy,
           pc[s][c] \in {"open_dlq", "declare_dlq", "publish_dlq"}
    PROVE  /\ HasRetry /\ FinalFailure(body[c].msg) /\ FailedAt(body[c].msg, Attempt(c))
           /\ Exhausted(c) /\ Done(body[c].msg) /\ body[c] # None
BY DEF IInv, TaskOK, Done, Exhausted

\* Steps of the dead letter path go on to the next or to the ack, or end the task.
LEMMA DeadLetterStep ==
    ASSUME IInv, NEW s \in Session, NEW c \in Copy,
           NEW next \in {"declare_dlq", "publish_dlq", "ack", "none"},
           pc[s][c] \in {"open_dlq", "declare_dlq", "publish_dlq"},
           Goto(s, c, next),
           UNCHANGED <<place, body, owner, chan, outPub, outSettle, bound, calls>>,
           args' \in [Queue -> Ttl \cup {NoTtl, Undeclared}],
           outDlq' = outDlq \/ \E f \in Frame : /\ outDlq' = [outDlq EXCEPT ![s][c] = f]
                                                /\ f.body.msg = body[c].msg
                                                /\ ~f.body.persistent /\ Earned(f.body)
    PROVE  IInv'
<1>1. /\ Exhausted(c) /\ FinalFailure(body[c].msg) /\ FailedAt(body[c].msg, Attempt(c))
      /\ HasRetry /\ Done(body[c].msg)
  BY DeadLetterDeserved
<1>2. FinalFailure(body[c].msg)' /\ Done(body[c].msg)'
  BY <1>1, CallsGrow DEF Done
<1>3. FailedAt(body[c].msg, Attempt(c))'
  BY <1>1 DEF FailedAt, Attempt, ReadRetryAttempt
<1>4. next \in Steps /\ calls' \in SUBSET Call /\ AttemptLimit'
  BY DEF IInv, TypeOK, ConsumerTypeOK, AttemptLimit, Steps
<1> QED BY <1>1, <1>2, <1>3, <1>4, MoveStep

\* The channel of the dead letter, its declaration, a failing call and the panic of
\* json!.
LEMMA DlqCallStep ==
    ASSUME IInv, NEW s \in Session, NEW c \in Copy,
           \/ OpenDlqChannel(s, c) \/ DeclareDlq(s, c)
           \/ DlqCallFails(s, c) \/ DlqPayloadPanics(s, c)
    PROVE  IInv'
<1>t. args \in [Queue -> Ttl \cup {NoTtl, Undeclared}]
  BY DEF IInv, TypeOK, BrokerTypeOK
<1>1. CASE OpenDlqChannel(s, c) \/ DlqCallFails(s, c) \/ DlqPayloadPanics(s, c)
  BY <1>1, <1>t, DeadLetterStep DEF OpenDlqChannel, DlqCallFails, DlqPayloadPanics, brokerVars
<1>2. CASE DeclareDlq(s, c)
  <2>1. Dlq \in Queue
    BY DEF Queue
  <2>2. args' = args \/ args' = [args EXCEPT ![Dlq] = NoTtl]
    BY <1>2 DEF DeclareDlq
  <2>3. args' \in [Queue -> Ttl \cup {NoTtl, Undeclared}]
    BY <1>t, <2>1, <2>2
  <2> QED BY <1>2, <2>3, DeadLetterStep DEF DeclareDlq
<1> QED BY <1>1, <1>2

\* The publish of the dead letter, with all the failures it stands for.
LEMMA PublishDlqStep ==
    ASSUME IInv, NEW s \in Session, NEW c \in Copy, PublishDlq(s, c)
    PROVE  IInv'
<1> DEFINE f == [to |-> Dlq, body |-> DlqBody(c)]
<1>1. /\ pc[s][c] = "publish_dlq"
      /\ outDlq' = [outDlq EXCEPT ![s][c] = f]
      /\ Goto(s, c, "ack")
      /\ UNCHANGED <<place, body, owner, chan, outPub, outSettle, args, bound, calls>>
  BY DEF PublishDlq, brokerVars
<1>2. HasRetry /\ FinalFailure(body[c].msg) /\ FailedAt(body[c].msg, Attempt(c))
      /\ body[c] # None
  BY <1>1, DeadLetterDeserved
<1>3. body[c] \in Body /\ body[c].msg \in Msg /\ Attempt(c) \in Nat /\ Earned(body[c])
  BY <1>2, BodyType
<1>4. /\ f \in Frame /\ f.body = DlqBody(c) /\ ~f.body.persistent
      /\ DlqBody(c).msg = body[c].msg /\ ReadRetryAttempt(DlqBody(c)) = Attempt(c) + 1
  BY <1>3, BrokerAssumption DEF DlqBody, Frame, Body, Header, Queue, ReadRetryAttempt
<1>5. Earned(f.body)
  <2>1. ASSUME NEW k \in 0..(ReadRetryAttempt(DlqBody(c)) - 1)
        PROVE  FailedAt(body[c].msg, k)
    <3>1. CASE k = Attempt(c)
      BY <3>1, <1>2
    <3>2. CASE k # Attempt(c)
      <4>1. k \in 0..(ReadRetryAttempt(body[c]) - 1)
        BY <3>2, <1>3, <1>4 DEF Attempt
      <4> QED BY <4>1, <1>3 DEF Earned
    <3> QED BY <3>1, <3>2
  <2> HIDE DEF f
  <2> QED BY <2>1, <1>2, <1>4 DEF Earned
<1>6. args' \in [Queue -> Ttl \cup {NoTtl, Undeclared}]
  BY <1>1 DEF IInv, TypeOK, BrokerTypeOK
<1> HIDE DEF f
<1> QED BY <1>1, <1>4, <1>5, <1>6, DeadLetterStep

-----------------------------------------------------------------------------
(* Faults. *)

\* A dead letter frame is lost, or nothing happens.
LEMMA FrameLossStep ==
    ASSUME IInv, UNCHANGED vars,
           outDlq' \in [Session -> [Copy -> Frame \cup {None}]],
           \A s \in Session, c \in Copy : outDlq'[s][c] \in {outDlq[s][c], None}
    PROVE  IInv'
<1>t. TypeOK BY DEF IInv
<1>u. UNCHANGED <<place, body, owner, chan, outPub, outSettle, args, bound, pc, calls>>
  BY DEF vars
<1>1. CloseChannels({})
  BY <1>t, <1>u DEF CloseChannels, TypeOK, BrokerTypeOK
<1>2. place' = [c \in Copy |-> IF c \in {} THEN "lost" ELSE Requeued({})[c]]
  BY <1>t, <1>u DEF Requeued, TypeOK, BrokerTypeOK
<1>3. pc' \in [Session -> [Copy -> Steps]]
  BY <1>t, <1>u DEF TypeOK, ConsumerTypeOK
<1>4. {} \in SUBSET Session /\ {} \in SUBSET Copy
  OBVIOUS
<1> QED BY <1>1, <1>2, <1>3, <1>4, <1>u, CloseStep

\* A lost connection or a crash closes the session's channel and takes the
\* dead letter frames along; after a crash the tasks are gone, too.
LEMMA LossStep ==
    ASSUME IInv, NEW s \in Session, LoseConnection(s) \/ Crash(s)
    PROVE  IInv'
<1>t. TypeOK BY DEF IInv
<1>1. /\ chan[s] = "open" /\ Close({s}) /\ calls' = calls
      /\ outDlq' = [outDlq EXCEPT ![s] = NoFrames]
      /\ pc' = pc \/ pc' = [pc EXCEPT ![s] = [c \in Copy |-> "none"]]
  BY DEF LoseConnection, Crash, ConnectionLost, ProcessCrash
<1>2. /\ pc' \in [Session -> [Copy -> Steps]]
      /\ \A t \in Session, d \in Copy :
             \/ pc'[t][d] = pc[t][d]
             \/ t \in {s} /\ pc[t][d] # "none" /\ pc'[t][d] \in {"none", "ack", "nack"}
  BY <1>1, <1>t DEF TypeOK, ConsumerTypeOK, Steps
<1>3. /\ outDlq' \in [Session -> [Copy -> Frame \cup {None}]]
      /\ \A t \in Session, d \in Copy : outDlq'[t][d] \in {outDlq[t][d], None}
  BY <1>1, <1>t DEF TypeOK, NoFrames
<1>4. /\ CloseChannels({s})
      /\ place' = [d \in Copy |-> IF d \in {} THEN "lost" ELSE Requeued({s})[d]]
      /\ UNCHANGED <<body, args, bound>>
  BY <1>1 DEF Close, Requeued
<1>5. {s} \in SUBSET Session /\ {} \in SUBSET Copy
      /\ (\A t \in {s} : chan[t] = "open") /\ \A d \in {} : place[d] = "dlq"
  BY <1>1
<1> QED BY <1>1, <1>2, <1>3, <1>4, <1>5, CloseStep

\* A broker restart closes every open channel and forgets the dead letters,
\* which have no delivery mode; everything else is persistent.
LEMMA RestartStep ==
    ASSUME IInv, Restart
    PROVE  IInv'
<1> DEFINE open == {s \in Session : chan[s] = "open"}
<1>t. TypeOK BY DEF IInv
<1>1. /\ CloseChannels(open)
      /\ place' = [c \in Copy |-> IF c \in Transient THEN "lost" ELSE Requeued(open)[c]]
      /\ UNCHANGED <<body, args, bound, pc, calls>>
      /\ outDlq' = [s \in Session |-> NoFrames]
  BY DEF Restart, BrokerRestarts, BrokerRestart
<1>2. ASSUME NEW c \in Transient
      PROVE  place[c] = "dlq"
  <2>1. c \in Copy /\ ~body[c].persistent /\ place[c] \in {"ready", "unacked", "delayed", "dlq"}
    BY DEF Transient
  <2> QED BY <2>1 DEF IInv, CopyOK
<1>3. /\ outDlq' \in [Session -> [Copy -> Frame \cup {None}]]
      /\ \A t \in Session, d \in Copy : outDlq'[t][d] \in {outDlq[t][d], None}
  BY <1>1 DEF NoFrames
<1>4. pc' \in [Session -> [Copy -> Steps]] /\ pc' = pc
  BY <1>1, <1>t DEF TypeOK, ConsumerTypeOK
<1>5. open \in SUBSET Session /\ Transient \in SUBSET Copy
      /\ \A s \in open : chan[s] = "open"
  BY DEF Transient
<1> HIDE DEF open
<1> QED BY <1>1, <1>2, <1>3, <1>4, <1>5, CloseStep

-----------------------------------------------------------------------------
(* The theorems. *)

\* The invariant holds before anything is published.
LEMMA InitIInv == Init => IInv
<1> SUFFICES ASSUME Init PROVE IInv
  OBVIOUS
<1>i. /\ place = [c \in Copy |-> "unused"]
      /\ body = [c \in Copy |-> None]
      /\ owner = [c \in Copy |-> None]
      /\ chan = [s \in Session |-> "new"]
      /\ outPub = [s \in Session |-> [c \in Copy |-> None]]
      /\ outSettle = [s \in Session |-> [c \in Copy |-> None]]
      /\ outDlq = [s \in Session |-> [c \in Copy |-> None]]
      /\ args \in [Queue -> Existing]
      /\ bound \in BOOLEAN
      /\ pc = [s \in Session |-> [c \in Copy |-> "none"]]
      /\ calls = {}
  BY DEF Init, ConsumerInit, BrokerInit, NoFrames
<1>1. TypeOK
  BY <1>i, BrokerAssumption DEF TypeOK, BrokerTypeOK, ConsumerTypeOK, Places, Steps
<1>2. Durability /\ AttemptLimit /\ Kept
  BY <1>i DEF Durability, AttemptLimit, Kept, Published
<1>3. ASSUME NEW c \in Copy PROVE CopyOK(c)
  BY <1>i, BrokerAssumption DEF CopyOK
<1>4. ASSUME NEW s \in Session, NEW c \in Copy
      PROVE  TaskOK(s, c) /\ FrameOK(s, c) /\ AcksCovered(s, c)
  BY <1>i, BrokerAssumption DEF TaskOK, FrameOK, AcksCovered
<1> QED BY <1>1, <1>2, <1>3, <1>4 DEF IInv

\* Every step preserves the invariant, action by action.
LEMMA NextIInv == IInv /\ [Next]_envVars => IInv'
<1> SUFFICES ASSUME IInv, [Next]_envVars PROVE IInv'
  OBVIOUS
<1>t. outDlq \in [Session -> [Copy -> Frame \cup {None}]]
  BY DEF IInv, TypeOK
<1>1. CASE \E m \in Msg : Publish(m) /\ UNCHANGED outDlq
  BY <1>1, PublishStep
<1>2. CASE \E s \in Session : (StartConsumerChannel(s) \/ StartFails(s)) /\ UNCHANGED outDlq
  BY <1>2, StartStep
<1>3. ASSUME NEW s \in Session, NEW c \in Copy, TaskStep(s, c)
      PROVE  IInv'
  <2>1. (AckDelivery(s, c) \/ NackDelivery(s, c)) /\ outDlq' = outDlq => IInv'
    BY SettleStep DEF AckDelivery, NackDelivery
  <2>2. SharedTaskStep(s, c) /\ outDlq' = outDlq => IInv'
    BY <2>1, DispatchStep, HandlerStep, CreateRetryQueueStep, CreateDelayExchangeStep,
       SendRetryStep DEF SharedTaskStep
  <2> QED BY <1>3, <2>2, HandlerStep, DlqCallStep, PublishDlqStep DEF TaskStep
<1>4. ASSUME NEW s \in Session, NEW c \in Copy, BrokerStep(s, c)
      PROVE  IInv'
  BY <1>4, DeliverStep, RecvPublishStep, RecvSettleStep, RecvDlqStep DEF BrokerStep
<1>5. CASE \E c \in Copy : (RetryDue(c) \/ DlqTtlPasses(c)) /\ UNCHANGED outDlq
  BY <1>5, ExpiryStep
<1>6. ASSUME NEW s \in Session, NEW c \in Copy, HandlerPanics(s, c), UNCHANGED outDlq
      PROVE  IInv'
  BY <1>6, FailStep DEF HandlerPanics
<1>7. ASSUME NEW s \in Session, NEW c \in Copy, LoseDlqFrame(s, c)
      PROVE  IInv'
  <2>1. UNCHANGED vars /\ outDlq' = [outDlq EXCEPT ![s][c] = None]
    BY <1>7 DEF LoseDlqFrame
  <2>2. /\ outDlq' \in [Session -> [Copy -> Frame \cup {None}]]
        /\ \A t \in Session, d \in Copy : outDlq'[t][d] \in {outDlq[t][d], None}
    BY <1>t, <2>1
  <2> QED BY <2>1, <2>2, FrameLossStep
<1>8. CASE Fault
  BY <1>8, <1>2, <1>6, <1>7, LossStep, RestartStep DEF Fault
<1>9. CASE UNCHANGED envVars
  <2>1. UNCHANGED vars /\ outDlq' = outDlq
    BY <1>9 DEF envVars
  <2> QED BY <1>t, <2>1, FrameLossStep
<1> QED BY <1>1, <1>2, <1>3, <1>4, <1>5, <1>8, <1>9 DEF Next

\* The inductive invariant holds in every reachable state.
THEOREM Invariance == Spec => []IInv
BY InitIInv, NextIInv, PTL DEF Spec

\* Every variable of the envelope consumer and its broker keeps its type: a
\* retry is published to a queue that exists, and attempts stay numbers.
THEOREM TypeCorrect == Spec => []TypeOK
<1>1. IInv => TypeOK BY DEF IInv
<1> QED BY <1>1, Invariance, PTL

\* An envelope at attempt k was failed by the handler at every attempt before k,
\* and a dead letter finally, also after any sequence of redeliveries.
THEOREM RetriesEarned == Spec => []EarnedRetries
<1>1. IInv => EarnedRetries
  BY DEF IInv, CopyOK, EarnedRetries, Earned, Attempt
<1> QED BY <1>1, Invariance, PTL

\* The handler is never called beyond the envelope's limit or the policy's.
THEOREM WithinLimits == Spec => []AttemptLimit
<1>1. IInv => AttemptLimit BY DEF IInv
<1> QED BY <1>1, Invariance, PTL

\* On an open channel no delivery is settled twice or without being outstanding.
THEOREM SettledOnce == Spec => []SettleOnce
<1>1. IInv => SettleOnce BY DEF IInv, SettleOnce, TaskOK, FrameOK
<1> QED BY <1>1, Invariance, PTL

-----------------------------------------------------------------------------
(* Nothing is lost, and no delivery is forgotten. *)

\* Until its handler has failed for the last time an envelope is never lost, for
\* any interleaving of tasks, losses, crashes, restarts and refused declarations:
\* what is neither handled nor in the broker was discarded as undecodable, for
\* want of a policy, or because its retry could not be serialized.
THEOREM LostOnlyWhenExhausted == Spec => []KeptUntilExhausted
<1>1. ASSUME IInv PROVE KeptUntilExhausted
  <2> SUFFICES ASSUME NEW m \in Msg, Published(m), ~Handled(m), ~Carried(m),
                      ~(HasRetry /\ FinalFailure(m))
               PROVE  MayReject(m) /\ Discarded(m)
    BY DEF KeptUntilExhausted
  <2>1. (\E c \in Copy : Active(c) /\ body[c].msg = m) => Carried(m)
    BY DEF Active, Carried, Live
  <2>2. Discarded(m)
    BY <1>1, <2>1 DEF IInv, Kept, Done
  <2>3. MayReject(m)
    BY <1>1, <2>2 DEF Discarded, IInv, CopyOK
  <2> QED BY <2>2, <2>3
<1> QED BY <1>1, Invariance, PTL

\* What the invariant says of a copy and of a session's part in it.
LEMMA Shapes ==
    ASSUME IInv, NEW s \in Session, NEW c \in Copy
    PROVE  /\ owner[c] # None <=> place[c] = "unacked"
           /\ owner[c] = s => chan[s] = "open"
           /\ pc[s][c] # "none" => body[c] # None /\ chan[s] # "new"
           /\ pc[s][c] # "none" /\ chan[s] = "open" => owner[c] = s
           /\ outPub[s][c] # None \/ outSettle[s][c] # None => owner[c] = s
           /\ outSettle[s][c] # None => pc[s][c] = "none"
           /\ outPub[s][c] # None => outPub[s][c].body.msg = body[c].msg
           /\ outDlq[s][c] # None => body[c] # None /\ outDlq[s][c].body.msg = body[c].msg
BY DEF IInv, CopyOK, TaskOK, FrameOK

\* What was forgotten is accounted for, and what is forgotten now was before, or
\* its task has just panicked.
LEMMA ForgottenStays ==
    ASSUME IInv, NeverForgotten, calls \subseteq calls',
           \A c \in Copy : body[c] # None => body'[c] = body[c],
           "panic" \notin Faults =>
               \A s \in Session, c \in Copy :
                   Forgotten(s, c)' => Forgotten(s, c) \/ Abandoned(c)'
    PROVE  NeverForgotten'
<1>1. ASSUME NEW c \in Copy, body[c] # None, Abandoned(c) PROVE Abandoned(c)'
  <2>1. Attempt(c)' = Attempt(c) /\ body'[c] = body[c]
    BY <1>1 DEF Attempt, ReadRetryAttempt
  <2>2. Retries(c)' <=> Retries(c)
    BY <2>1 DEF Retries, IsRetryExhausted, RetryDelay
  <2> QED BY <1>1, <2>1, <2>2 DEF Abandoned, Exhausted, FailedAt
<1>2. \A s \in Session, c \in Copy : Forgotten(s, c) => body[c] # None
  BY BrokerAssumption DEF Forgotten, IInv, CopyOK
<1> QED BY <1>1, <1>2 DEF NeverForgotten

\* A task goes on with its delivery, and the broker does nothing.
LEMMA MoveForgets ==
    ASSUME IInv, NeverForgotten, NEW s \in Session, NEW c \in Copy, NEW step,
           Goto(s, c, step), calls \subseteq calls', UNCHANGED <<body, owner, outSettle>>,
           step # "none" \/ "panic" \in Faults \/ Abandoned(c)'
    PROVE  NeverForgotten'
<1>1. /\ pc'[s][c] = step
      /\ \A t \in Session, d \in Copy : <<t, d>> # <<s, c>> => pc'[t][d] = pc[t][d]
  BY DEF Goto, IInv, TypeOK, ConsumerTypeOK
<1> QED BY <1>1, ForgottenStays DEF Forgotten

\* The channels of sessions S close: nothing is outstanding on them any more.
LEMMA CloseForgets ==
    ASSUME IInv, NeverForgotten, NEW S \in SUBSET Session, CloseChannels(S),
           UNCHANGED <<body, calls>>, \A t \in Session \ S : pc'[t] = pc[t]
    PROVE  NeverForgotten'
<1>1. /\ \A t \in Session \ S : outSettle'[t] = outSettle[t]
      /\ \A d \in Copy : owner'[d] \in Session => owner'[d] \notin S /\ owner[d] = owner'[d]
  BY BrokerAssumption DEF CloseChannels
<1> QED BY <1>1, ForgottenStays DEF Forgotten

\* The task decodes its payload and calls the handler: it goes on whatever the
\* result, or calculate_delay panics.
LEMMA HandlerForgets ==
    ASSUME IInv, NeverForgotten, NEW s \in Session, NEW c \in Copy,
           \/ Dispatch(s, c) \/ HandlerOk(s, c) \/ HandlerErr(s, c)
           \/ CalculateDelayPanics(s, c) \/ RetrySerializeFails(s, c) \/ HandlerPanics(s, c)
    PROVE  NeverForgotten'
<1>1. CASE Dispatch(s, c) \/ HandlerPanics(s, c)
  BY <1>1, MoveForgets DEF Dispatch, HandlerPanics, brokerVars
<1>2. CASE HandlerOk(s, c) \/ HandlerErr(s, c) \/ RetrySerializeFails(s, c)
  BY <1>2, MoveForgets DEF HandlerOk, HandlerErr, RetrySerializeFails, HandlerReturns, brokerVars
<1>3. CASE CalculateDelayPanics(s, c)
  <2>1. /\ [msg |-> body[c].msg, attempt |-> Attempt(c), ok |-> FALSE] \in calls'
        /\ Retries(c) /\ Attempt(c) \in Overflowing /\ Goto(s, c, "none")
        /\ calls \subseteq calls' /\ UNCHANGED <<body, owner, outSettle>>
    BY <1>3 DEF CalculateDelayPanics, HandlerReturns, brokerVars
  <2>2. Attempt(c)' = Attempt(c)
    BY <2>1 DEF Attempt, ReadRetryAttempt
  <2>3. Retries(c)' /\ FailedAt(body[c].msg, Attempt(c))'
    BY <2>1, <2>2 DEF Retries, IsRetryExhausted, RetryDelay, FailedAt
  <2> QED BY <2>1, <2>2, <2>3, MoveForgets DEF Abandoned
<1> QED BY <1>1, <1>2, <1>3

\* The calls of the retry path: one that fails leads to a nack.
LEMMA CallForgets ==
    ASSUME IInv, NeverForgotten, NEW s \in Session, NEW c \in Copy,
           CreateRetryQueue(s, c) \/ CreateDelayExchange(s, c) \/ SendRetry(s, c)
    PROVE  NeverForgotten'
<1>1. CASE CreateRetryQueue(s, c)
  <2>1. CASE Close({s}) /\ Goto(s, c, "nack") /\ UNCHANGED calls
    <3>1. \A t \in Session \ {s} : pc'[t] = pc[t]
      BY <2>1 DEF Goto, IInv, TypeOK, ConsumerTypeOK
    <3> QED BY <2>1, <3>1, CloseForgets DEF Close
  <2>2. CASE (\E step \in {"publish", "nack"} : Goto(s, c, step))
             /\ UNCHANGED <<body, owner, outSettle, calls>>
    BY <2>2, MoveForgets
  <2> QED BY <1>1, <2>1, <2>2 DEF CreateRetryQueue, QueueDeclare, brokerVars
<1>2. CASE CreateDelayExchange(s, c) \/ SendRetry(s, c)
  <2>1. (\E step \in {"publish", "ack", "nack"} : Goto(s, c, step))
        /\ UNCHANGED <<body, owner, outSettle, calls>>
    BY <1>2 DEF CreateDelayExchange, SendRetry, BasicPublish, brokerVars
  <2> QED BY <2>1, MoveForgets
<1> QED BY <1>1, <1>2

\* The dead letter path: a call that fails leads to the ack, and json! may panic.
LEMMA DlqForgets ==
    ASSUME IInv, NeverForgotten, NEW s \in Session, NEW c \in Copy,
           \/ OpenDlqChannel(s, c) \/ DeclareDlq(s, c) \/ PublishDlq(s, c)
           \/ DlqPayloadPanics(s, c) \/ DlqCallFails(s, c)
    PROVE  NeverForgotten'
<1>1. CASE OpenDlqChannel(s, c) \/ DeclareDlq(s, c) \/ PublishDlq(s, c) \/ DlqCallFails(s, c)
  <2>1. (\E step \in {"declare_dlq", "publish_dlq", "ack"} : Goto(s, c, step))
        /\ UNCHANGED <<body, owner, outSettle, calls>>
    BY <1>1 DEF OpenDlqChannel, DeclareDlq, PublishDlq, DlqCallFails, brokerVars
  <2> QED BY <2>1, MoveForgets
<1>2. CASE DlqPayloadPanics(s, c)
  <2>1. /\ pc[s][c] = "publish_dlq" /\ body[c].msg \in Unserializable /\ Goto(s, c, "none")
        /\ UNCHANGED <<body, owner, outSettle, calls>>
    BY <1>2 DEF DlqPayloadPanics, brokerVars
  <2>2. Attempt(c)' = Attempt(c)
    BY <2>1 DEF Attempt, ReadRetryAttempt
  <2>3. FailedAt(body[c].msg, Attempt(c))' /\ Exhausted(c)'
    BY <2>1, <2>2
       DEF IInv, TaskOK, FailedAt, Exhausted, Retries, IsRetryExhausted, RetryDelay
  <2> QED BY <2>1, <2>3, MoveForgets DEF Abandoned
<1> QED BY <1>1, <1>2

\* The task settles its delivery, or cannot because the channel is closed.
LEMMA SettleForgets ==
    ASSUME IInv, NeverForgotten, NEW s \in Session, NEW c \in Copy,
           NEW kind \in {"ack", "nack"}, Settle(s, c, kind)
    PROVE  NeverForgotten'
<1>1. /\ \A t \in Session, d \in Copy : <<t, d>> # <<s, c>> =>
             pc'[t][d] = pc[t][d] /\ outSettle'[t][d] = outSettle[t][d]
      /\ chan[s] = "open" => outSettle'[s][c] = kind
      /\ UNCHANGED <<body, owner, calls>>
  BY DEF Settle, Goto, IInv, TypeOK, BrokerTypeOK, ConsumerTypeOK
<1>2. owner[c] = s => chan[s] = "open"
  BY Shapes
<1> QED BY <1>1, <1>2, ForgottenStays, BrokerAssumption DEF Forgotten

\* Publishers and the frames the broker receives bring in new copies.
LEMMA ArrivalForgets ==
    ASSUME IInv, NeverForgotten,
           \/ \E m \in Msg : Publish(m)
           \/ \E s \in Session, c \in Copy : BrokerRecvPublish(s, c) \/ BrokerRecvDlq(s, c)
    PROVE  NeverForgotten'
<1>1. /\ UNCHANGED <<owner, outSettle, pc, calls>>
      /\ \E p, b : Enqueue(p, b)
  BY DEF Publish, BrokerRecvPublish, RecvPublish, BrokerRecvDlq
<1>2. \A d \in Copy : body[d] # None => body'[d] = body[d]
  <2>1. Fresh \in Copy /\ place[Fresh] = "unused" /\ \E b : body' = [body EXCEPT ![Fresh] = b]
    BY <1>1 DEF Enqueue, HasFresh, Fresh
  <2> QED BY <2>1 DEF IInv, CopyOK, TypeOK, BrokerTypeOK
<1> QED BY <1>1, <1>2, ForgottenStays DEF Forgotten

\* A delivery leaves the queue for a task, and comes to its end.
LEMMA DeliveryForgets ==
    ASSUME IInv, NeverForgotten, NEW s \in Session, NEW c \in Copy,
           Deliver(s, c) \/ BrokerRecvSettle(s, c)
    PROVE  NeverForgotten'
<1>t. /\ owner \in [Copy -> Session \cup {None}]
      /\ outSettle \in [Session -> [Copy -> {"ack", "nack", None}]]
      /\ pc \in [Session -> [Copy -> Steps]]
  BY DEF IInv, TypeOK, BrokerTypeOK, ConsumerTypeOK
<1>1. CASE Deliver(s, c)
  <2>1. /\ owner'[c] = s /\ pc'[s][c] = "buffered"
        /\ \A d \in Copy \ {c} : owner'[d] = owner[d]
        /\ \A t \in Session, d \in Copy : <<t, d>> # <<s, c>> => pc'[t][d] = pc[t][d]
        /\ UNCHANGED <<body, outSettle, calls>>
    BY <1>1, <1>t DEF Deliver, Send, Goto
  <2> QED BY <2>1, ForgottenStays DEF Forgotten
<1>2. CASE BrokerRecvSettle(s, c)
  <2>1. /\ owner[c] = s /\ owner'[c] = None
        /\ \A d \in Copy \ {c} : owner'[d] = owner[d]
        /\ \A t \in Session, d \in Copy :
               <<t, d>> # <<s, c>> => outSettle'[t][d] = outSettle[t][d]
        /\ UNCHANGED <<body, pc, calls>>
    BY <1>2, <1>t DEF BrokerRecvSettle, RecvSettle
  <2> QED BY <2>1, ForgottenStays, BrokerAssumption DEF Forgotten
<1> QED BY <1>1, <1>2

\* Lost connections, crashes and restarts close channels.
LEMMA FaultForgets ==
    ASSUME IInv, NeverForgotten,
           (\E s \in Session : ConnectionLost(s) \/ ProcessCrash(s)) \/ BrokerRestarts
    PROVE  NeverForgotten'
<1>1. CASE \E s \in Session : ConnectionLost(s) \/ ProcessCrash(s)
  <2>1. PICK s \in Session : ConnectionLost(s) \/ ProcessCrash(s)
    BY <1>1
  <2>2. Close({s}) /\ calls' = calls /\ \A t \in Session \ {s} : pc'[t] = pc[t]
    BY <2>1 DEF ConnectionLost, ProcessCrash, IInv, TypeOK, ConsumerTypeOK
  <2> QED BY <2>2, CloseForgets DEF Close
<1>2. CASE BrokerRestarts
  BY <1>2, CloseForgets DEF BrokerRestarts, BrokerRestart
<1> QED BY <1>1, <1>2

\* Every step keeps the deliveries in sight.
LEMMA NextForgets ==
    ASSUME IInv, NeverForgotten, [Next]_envVars
    PROVE  NeverForgotten'
<1>1. CASE \E s \in Session, c \in Copy : TaskStep(s, c)
  BY <1>1, HandlerForgets, CallForgets, DlqForgets, SettleForgets
     DEF TaskStep, SharedTaskStep, AckDelivery, NackDelivery
<1>2. CASE \E s \in Session, c \in Copy : BrokerStep(s, c)
  BY <1>2, DeliveryForgets, ArrivalForgets DEF BrokerStep
<1>3. CASE \E m \in Msg : Publish(m)
  BY <1>3, ArrivalForgets
<1>4. CASE \/ \E s \in Session : StartConsumerChannel(s) \/ StartFails(s)
           \/ \E c \in Copy : RetryDue(c) \/ DlqTtlPasses(c)
           \/ UNCHANGED vars
  <2>1. UNCHANGED <<body, owner, outSettle, pc, calls>>
    BY <1>4 DEF StartConsumerChannel, StartFails, RetryDue, DlqTtlPasses, ExpireRetry,
       ExpireDlq, vars
  <2> QED BY <2>1, ForgottenStays DEF Forgotten
<1>5. CASE Fault
  BY <1>4, <1>5, HandlerForgets, FaultForgets
     DEF Fault, LoseConnection, Crash, LoseDlqFrame, Restart
<1> QED BY <1>1, <1>2, <1>3, <1>4, <1>5 DEF Next, envVars

\* They are in every reachable state.
LEMMA NeverLost == Spec => [](IInv /\ NeverForgotten)
<1>1. Init => NeverForgotten
  BY BrokerAssumption DEF Init, ConsumerInit, BrokerInit, NeverForgotten, Forgotten
<1>2. IInv /\ NeverForgotten /\ [Next]_envVars => NeverForgotten'
  BY NextForgets
<1> QED BY <1>1, <1>2, Invariance, PTL DEF Spec

\* Unless a handler panics, every delivery on an open channel is with its task or
\* on the way to its settlement, or calculate_delay or json! may have panicked on
\* it: no branch of the handler task ends without a settlement, and no slot of the
\* prefetch window is lost (envelope.rs:49-236).
THEOREM AllDeliveriesEnd == Spec => []NeverForgotten
BY NeverLost, PTL

\* The window of basic_qos and the semaphore of the loop never stop each other:
\* unless the prefetch count is 0 or tasks panic, some outstanding delivery goes
\* on (envelope.rs:30-49).
THEOREM WindowNeverBlocks == Spec => []WindowMoves
<1>1. ASSUME IInv, NeverForgotten PROVE WindowMoves
  <2> SUFFICES ASSUME "panic" \notin Faults, Overflowing = {}, Unserializable = {},
                      Prefetch > 0, NEW s \in Session, NEW c \in Outstanding(s),
                      \A d \in Outstanding(s) : outSettle[s][d] = None /\ d \notin Running(s)
               PROVE  pc[s][c] = "buffered" /\ Cardinality(Running(s)) < Prefetch
    BY DEF WindowMoves, WindowFree
  <2>1. c \in Copy /\ owner[c] = s
    BY DEF Outstanding
  <2>2. pc[s][c] = "buffered"
    BY <1>1, <2>1 DEF NeverForgotten, Forgotten, Abandoned, Running
  <2>3. chan[s] = "open"
    BY <1>1, <2>1 DEF IInv, CopyOK, TaskOK
  <2>4. Running(s) = {}
    <3> SUFFICES ASSUME NEW r \in Running(s) PROVE FALSE
      OBVIOUS
    <3>1. r \in Copy /\ pc[s][r] # "none"
      BY DEF Running
    <3>2. owner[r] = s
      BY <1>1, <2>3, <3>1 DEF IInv, CopyOK, TaskOK
    <3> QED BY <3>1, <3>2 DEF Outstanding
  <2>5. Cardinality(Running(s)) = 0
    BY <2>4, FS_EmptySet
  <2> QED BY <2>2, <2>5
<1> QED BY <1>1, NeverLost, PTL

-----------------------------------------------------------------------------
(* No duplicates: what carries a message, step by step. *)

\* Channels close for good, and nothing that was published is forgotten.
Onwards ==
    /\ \A s \in Session : chan[s] = "closed" => chan'[s] = "closed"
    /\ \A c \in Copy : body[c] # None => body'[c] = body[c]
    /\ calls \subseteq calls'

\* A step that adds no carrier keeps the envelope in one place.
LEMMA SingleStays ==
    ASSUME Single, Onwards, AckFollows',
           \A call \in calls' : call \in calls \/ Published(call.msg),
           Undisturbed' => \A m \in Msg :
               /\ outDlq' = outDlq
               /\ \A c \in Copy : Carries(c, m)' => Carries(c, m)
               /\ Handled(m)' => \/ Handled(m)
                                 \/ /\ CarryingFrames(m, outDlq) = {}
                                    /\ \A c \in Copy : ~Carries(c, m)'
    PROVE  Single'
<1>1. \A call \in calls' : Published(call.msg)'
  BY DEF Single, Onwards, Published
<1>2. ASSUME Undisturbed', NEW m \in Msg
      PROVE  (/\ \A c, d \in Copy : Carries(c, m) /\ Carries(d, m) => c = d
              /\ \A x, y \in CarryingFrames(m, outDlq) : x = y
              /\ CarryingFrames(m, outDlq) = {} \/ \A c \in Copy : ~Carries(c, m)
              /\ Handled(m) => /\ CarryingFrames(m, outDlq) = {}
                               /\ \A c \in Copy : ~Carries(c, m))'
  <2>1. Undisturbed
    BY <1>2 DEF Undisturbed, Onwards
  <2>2. CarryingFrames(m, outDlq)' = CarryingFrames(m, outDlq)
    BY <1>2 DEF CarryingFrames
  <2>3. /\ \A c \in Copy : Carries(c, m)' => Carries(c, m)
        /\ Handled(m)' => \/ Handled(m)
                          \/ /\ CarryingFrames(m, outDlq) = {}
                             /\ \A c \in Copy : ~Carries(c, m)'
    BY <1>2
  <2> QED BY <2>1, <2>2, <2>3 DEF Single
<1> QED BY <1>1, <1>2 DEF Single

\* A delivery of an undisturbed session belongs to its task.
LEMMA OwnTask ==
    ASSUME IInv, Undisturbed, NEW s \in Session, NEW c \in Copy, pc[s][c] # "none"
    PROVE  chan[s] = "open" /\ owner[c] = s /\ place[c] = "unacked" /\ body[c] # None
<1>1. chan[s] # "new" /\ body[c] # None
  BY Shapes
<1>2. chan[s] = "open"
  BY <1>1 DEF Undisturbed, IInv, TypeOK, BrokerTypeOK
<1> QED BY <1>1, <1>2, Shapes, BrokerAssumption

\* The task of one delivery goes on to another step than its ack, and no frame
\* is written.
LEMMA MoveSingle ==
    ASSUME IInv, Single, NEW s \in Session, NEW c \in Copy, NEW step,
           pc[s][c] \notin {"none", "ack"}, Goto(s, c, step),
           UNCHANGED <<place, body, owner, chan, outPub, outSettle, outDlq>>,
           calls \subseteq calls',
           \A call \in calls' : call \in calls \/ call.msg = body[c].msg,
           (\E call \in calls' \ calls : call.ok) => step = "ack"
    PROVE  Single'
<1>1. /\ pc'[s][c] = step
      /\ \A t \in Session, d \in Copy : <<t, d>> # <<s, c>> => pc'[t][d] = pc[t][d]
  BY DEF Goto, IInv, TypeOK, ConsumerTypeOK
<1>2. outPub[s][c] = None /\ outSettle[s][c] = None /\ body[c] # None
  BY Shapes DEF Single, AckFollows
<1>3. AckFollows'
  <2> SUFFICES ASSUME NEW t \in Session, NEW d \in Copy, outPub[t][d] # None
               PROVE  pc'[t][d] = "ack" \/ outSettle[t][d] # None
    BY DEF AckFollows
  <2>1. <<t, d>> # <<s, c>>
    BY <1>2
  <2> QED BY <2>1, <1>1 DEF Single, AckFollows
<1>4. Onwards
  BY DEF Onwards
<1>5. \A call \in calls' : call \in calls \/ Published(call.msg)
  BY <1>2 DEF Published
<1>6. ASSUME Undisturbed', NEW m \in Msg
      PROVE  /\ \A d \in Copy : Carries(d, m)' => Carries(d, m)
             /\ Handled(m)' => \/ Handled(m)
                               \/ /\ CarryingFrames(m, outDlq) = {}
                                  /\ \A d \in Copy : ~Carries(d, m)'
  <2>1. Undisturbed
    BY <1>6 DEF Undisturbed
  <2>2. owner[c] = s /\ place[c] = "unacked"
    BY <2>1, OwnTask
  <2>3. body[c].msg = m => Carries(c, m)
    BY <2>2, <1>2 DEF Carries
  <2>4. ASSUME NEW d \in Copy, Carries(d, m)' PROVE Carries(d, m)
    <3>1. CASE d = c
      BY <3>1, <2>3, <2>4 DEF Carries
    <3>2. CASE d # c
      BY <3>2, <2>4, <1>1 DEF Carries
    <3> QED BY <3>1, <3>2
  <2>5. ASSUME Handled(m)', ~Handled(m)
        PROVE  CarryingFrames(m, outDlq) = {} /\ \A d \in Copy : ~Carries(d, m)'
    <3>1. PICK call \in calls' : call.msg = m /\ call.ok
      BY <2>5 DEF Handled
    <3>2. call \notin calls
      BY <2>5, <3>1 DEF Handled
    <3>3. body[c].msg = m /\ step = "ack"
      BY <3>1, <3>2
    <3>4. Carries(c, m)
      BY <2>3, <3>3
    <3>5. CarryingFrames(m, outDlq) = {} /\ \A d \in Copy : Carries(d, m) => d = c
      BY <3>4, <2>1 DEF Single
    <3>6. ~Carries(c, m)'
      BY <1>1, <1>2, <2>2, <3>3 DEF Carries
    <3> QED BY <2>4, <3>5, <3>6
  <2> QED BY <2>4, <2>5
<1> QED BY <1>3, <1>4, <1>5, <1>6, SingleStays

\* A session closes: nothing is claimed any more.
LEMMA CloseSingle ==
    ASSUME Single, Onwards, calls' = calls,
           \E s \in Session : chan'[s] = "closed",
           \A s \in Session, c \in Copy :
               outPub'[s][c] = None
                 \/ (/\ outPub'[s][c] = outPub[s][c] /\ pc'[s][c] = pc[s][c]
                     /\ outSettle'[s][c] = outSettle[s][c])
    PROVE  Single'
<1>1. AckFollows'
  BY DEF Single, AckFollows
<1>2. ~Undisturbed'
  BY DEF Undisturbed
<1> QED BY <1>1, <1>2, SingleStays DEF Onwards

\* Broker and start steps: copies only move on, tasks and frames stay.
LEMMA PlaceSingle ==
    ASSUME IInv, Single, Onwards, UNCHANGED <<body, calls, outDlq>>, AckFollows',
           \A d \in Copy, m \in Msg : Carries(d, m)' => Carries(d, m)
    PROVE  Single'
BY SingleStays DEF Handled

-----------------------------------------------------------------------------
(* The tasks. *)

\* Decoding, handler results, and the calls on the dead letter channel before
\* the publish.
LEMMA HandlerSingle ==
    ASSUME IInv, Single, NEW s \in Session, NEW c \in Copy,
           \/ (Dispatch(s, c) \/ HandlerOk(s, c) \/ HandlerPanics(s, c)) /\ UNCHANGED outDlq
           \/ HandlerErr(s, c) \/ CalculateDelayPanics(s, c) \/ RetrySerializeFails(s, c)
           \/ OpenDlqChannel(s, c) \/ DeclareDlq(s, c)
           \/ DlqPayloadPanics(s, c) \/ DlqCallFails(s, c)
    PROVE  Single'
<1> DEFINE call(ok) == [msg |-> body[c].msg, attempt |-> Attempt(c), ok |-> ok]
<1>1. CASE /\ Dispatch(s, c) \/ HandlerPanics(s, c)
           /\ UNCHANGED outDlq
  <2>1. /\ UNCHANGED <<place, body, owner, chan, outPub, outSettle, calls>>
        /\ pc[s][c] \notin {"none", "ack"}
        /\ \E step : Goto(s, c, step)
    BY <1>1 DEF Dispatch, HandlerPanics, brokerVars
  <2> QED BY <1>1, <2>1, MoveSingle
<1>2. CASE HandlerOk(s, c) /\ UNCHANGED outDlq
  <2>1. /\ calls' = calls \cup {call(TRUE)} /\ Goto(s, c, "ack")
        /\ UNCHANGED <<place, body, owner, chan, outPub, outSettle>>
        /\ pc[s][c] \notin {"none", "ack"}
    BY <1>2 DEF HandlerOk, HandlerReturns, brokerVars
  <2> QED BY <1>2, <2>1, MoveSingle
<1>3. CASE HandlerErr(s, c) \/ CalculateDelayPanics(s, c) \/ RetrySerializeFails(s, c)
  <2>1. /\ calls' = calls \cup {call(FALSE)}
        /\ UNCHANGED <<place, body, owner, chan, outPub, outSettle, outDlq>>
        /\ pc[s][c] \notin {"none", "ack"}
    BY <1>3 DEF HandlerErr, CalculateDelayPanics, RetrySerializeFails, HandlerReturns, brokerVars
  <2>2. \E step : Goto(s, c, step)
    BY <1>3 DEF HandlerErr, CalculateDelayPanics, RetrySerializeFails
  <2> QED BY <2>1, <2>2, MoveSingle
<1>4. CASE \/ OpenDlqChannel(s, c) \/ DeclareDlq(s, c)
           \/ DlqPayloadPanics(s, c) \/ DlqCallFails(s, c)
  <2>1. /\ UNCHANGED <<place, body, owner, chan, outPub, outSettle, outDlq, calls>>
        /\ pc[s][c] \notin {"none", "ack"}
        /\ \E step : Goto(s, c, step)
    BY <1>4 DEF OpenDlqChannel, DeclareDlq, DlqPayloadPanics, DlqCallFails, brokerVars
  <2> QED BY <2>1, MoveSingle
<1> QED BY <1>1, <1>2, <1>3, <1>4

\* The declarations of the retry path: they succeed, or close the channel, or
\* it was closed.
LEMMA DeclareSingle ==
    ASSUME IInv, Single, NEW s \in Session, NEW c \in Copy, UNCHANGED outDlq,
           CreateRetryQueue(s, c) \/ CreateDelayExchange(s, c)
    PROVE  Single'
<1>1. CASE CreateRetryQueue(s, c)
  <2>1. PICK q, ttl : /\ pc[s][c] = "declare"
                      /\ QueueDeclare(s, c, q, ttl, "publish", "nack")
    BY <1>1 DEF CreateRetryQueue
  <2>2. CASE /\ Goto(s, c, "publish")
             /\ UNCHANGED <<place, body, owner, chan, outPub, outSettle, bound, calls>>
    BY <2>1, <2>2, MoveSingle
  <2>3. CASE Close({s}) /\ Goto(s, c, "nack") /\ UNCHANGED calls
    <3>1. Onwards /\ chan'[s] = "closed"
      BY <2>3 DEF Onwards, Close, CloseChannels
    <3>2. \A t \in Session, d \in Copy :
            outPub'[t][d] = None
              \/ (/\ outPub'[t][d] = outPub[t][d] /\ pc'[t][d] = pc[t][d]
                  /\ outSettle'[t][d] = outSettle[t][d])
      BY <2>3 DEF Close, CloseChannels, Goto, IInv, TypeOK, ConsumerTypeOK
    <3> QED BY <2>3, <3>1, <3>2, CloseSingle
  <2>4. CASE Goto(s, c, "nack") /\ UNCHANGED <<brokerVars, calls>>
    BY <2>1, <2>4, MoveSingle DEF brokerVars
  <2> QED BY <2>1, <2>2, <2>3, <2>4 DEF QueueDeclare
<1>2. CASE CreateDelayExchange(s, c)
  BY <1>2, MoveSingle DEF CreateDelayExchange, brokerVars
<1> QED BY <1>1, <1>2

\* The frame takes the envelope over from the delivery, which waits for its ack.
LEMMA SendSingle ==
    ASSUME IInv, Single, NEW s \in Session, NEW c \in Copy, SendRetry(s, c), UNCHANGED outDlq
    PROVE  Single'
<1>1. PICK f, failed : pc[s][c] \notin {"none", "ack"} /\ BasicPublish(s, c, f, "ack", failed)
  BY DEF SendRetry
<1>2. CASE /\ outPub' = [outPub EXCEPT ![s][c] = f]
           /\ Goto(s, c, "ack")
           /\ UNCHANGED <<place, body, owner, chan, outSettle, args, bound, calls>>
  <2>1. /\ pc'[s][c] = "ack"
        /\ \A t \in Session, d \in Copy : <<t, d>> # <<s, c>> =>
              pc'[t][d] = pc[t][d] /\ outPub'[t][d] = outPub[t][d]
    BY <1>2 DEF Goto, IInv, TypeOK, ConsumerTypeOK, BrokerTypeOK
  <2>2. Onwards
    BY <1>2 DEF Onwards
  <2>3. AckFollows'
    <3> SUFFICES ASSUME NEW t \in Session, NEW d \in Copy, outPub'[t][d] # None
                 PROVE  pc'[t][d] = "ack" \/ outSettle[t][d] # None
      BY <1>2 DEF AckFollows
    <3> QED BY <2>1 DEF Single, AckFollows
  <2>4. ASSUME Undisturbed', NEW m \in Msg, NEW d \in Copy, Carries(d, m)'
        PROVE  Carries(d, m)
    <3>1. owner[c] = s /\ place[c] = "unacked" /\ body[c] # None
      BY <1>1, <1>2, <2>4, OwnTask DEF Undisturbed
    <3>2. CASE d = c
      <4>1. outSettle[s][c] = None
        BY <1>1, Shapes
      <4>2. Carries(c, body[c].msg)
        BY <1>1, <3>1, <4>1 DEF Carries
      <4> QED BY <1>2, <2>4, <3>2, <4>2 DEF Carries
    <3>3. CASE d # c
      BY <1>2, <2>1, <2>4, <3>3 DEF Carries
    <3> QED BY <3>2, <3>3
  <2> QED BY <1>2, <2>2, <2>3, <2>4, SingleStays DEF Handled
<1>3. CASE Goto(s, c, failed) /\ UNCHANGED <<brokerVars, calls>>
  BY <1>1, <1>3, MoveSingle DEF brokerVars
<1> QED BY <1>1, <1>2, <1>3 DEF BasicPublish

\* The dead letter frame takes the envelope over, on a channel of its own.
LEMMA PublishDlqSingle ==
    ASSUME IInv, Single, NEW s \in Session, NEW c \in Copy, PublishDlq(s, c)
    PROVE  Single'
<1> DEFINE f == [to |-> Dlq, body |-> DlqBody(c)]
<1>1. /\ pc[s][c] = "publish_dlq"
      /\ outDlq' = [outDlq EXCEPT ![s][c] = f]
      /\ Goto(s, c, "ack")
      /\ UNCHANGED <<place, body, owner, chan, outPub, outSettle, calls>>
  BY DEF PublishDlq, brokerVars
<1>2. /\ pc'[s][c] = "ack"
      /\ outDlq'[s][c] = f /\ f.body.msg = body[c].msg
      /\ \A t \in Session, d \in Copy : <<t, d>> # <<s, c>> =>
            pc'[t][d] = pc[t][d] /\ outDlq'[t][d] = outDlq[t][d]
  BY <1>1 DEF Goto, IInv, TypeOK, ConsumerTypeOK, DlqBody
<1>3. outPub[s][c] = None /\ outSettle[s][c] = None /\ body[c] # None
  BY <1>1, Shapes DEF Single, AckFollows
<1>4. AckFollows'
  BY <1>1, <1>2 DEF Single, AckFollows
<1>5. \A call \in calls' : Published(call.msg)'
  BY <1>1 DEF Single, Published
<1> HIDE DEF f
<1>6. ASSUME Undisturbed', NEW m \in Msg
      PROVE  /\ \A x, d \in Copy : Carries(x, m)' /\ Carries(d, m)' => x = d
             /\ \A x, y \in CarryingFrames(m, outDlq)' : x = y
             /\ CarryingFrames(m, outDlq)' = {} \/ \A d \in Copy : ~Carries(d, m)'
             /\ Handled(m)' => /\ CarryingFrames(m, outDlq)' = {}
                               /\ \A d \in Copy : ~Carries(d, m)'
  <2>1. Undisturbed
    BY <1>1, <1>6 DEF Undisturbed
  <2>2. owner[c] = s /\ place[c] = "unacked"
    BY <1>1, <2>1, OwnTask
  <2>3. ~Carries(c, m)'
    BY <1>1, <1>2, <1>3, <2>2 DEF Carries
  <2>4. \A d \in Copy : Carries(d, m)' => Carries(d, m)
    <3> SUFFICES ASSUME NEW d \in Copy, Carries(d, m)' PROVE Carries(d, m)
      OBVIOUS
    <3>1. d # c
      BY <2>3
    <3> QED BY <1>1, <1>2, <3>1 DEF Carries
  <2>5. Handled(m)' <=> Handled(m)
    BY <1>1 DEF Handled
  <2>6. CASE m = body[c].msg
    <3>1. Carries(c, m)
      BY <1>1, <1>3, <2>2, <2>6 DEF Carries
    <3>2. /\ CarryingFrames(m, outDlq) = {} /\ ~Handled(m)
          /\ \A d \in Copy : Carries(d, m) => d = c
      BY <2>1, <3>1 DEF Single
    <3>3. \A x \in CarryingFrames(m, outDlq)' : x = <<s, c>>
      BY <1>2, <3>2 DEF CarryingFrames
    <3> QED BY <2>3, <2>4, <2>5, <3>2, <3>3
  <2>7. CASE m # body[c].msg
    <3>1. \A x \in CarryingFrames(m, outDlq)' : x \in CarryingFrames(m, outDlq)
      BY <1>2, <2>7 DEF CarryingFrames
    <3> QED BY <2>1, <2>4, <2>5, <3>1 DEF Single
  <2> QED BY <2>6, <2>7
<1> QED BY <1>4, <1>5, <1>6 DEF Single

\* A settlement is written, or is dropped on a closed channel.
LEMMA SettleSingle ==
    ASSUME IInv, Single, NEW s \in Session, NEW c \in Copy, UNCHANGED outDlq,
           AckDelivery(s, c) \/ NackDelivery(s, c)
    PROVE  Single'
<1>1. PICK kind \in {"ack", "nack"} : Settle(s, c, kind)
  BY DEF AckDelivery, NackDelivery
<1>2. /\ pc[s][c] = kind /\ pc'[s][c] = "none"
      /\ outSettle'[s][c] = IF chan[s] = "open" THEN kind ELSE outSettle[s][c]
      /\ \A t \in Session, d \in Copy : <<t, d>> # <<s, c>> =>
            pc'[t][d] = pc[t][d] /\ outSettle'[t][d] = outSettle[t][d]
      /\ UNCHANGED <<place, body, owner, chan, outPub, args, bound, calls>>
  BY <1>1 DEF Settle, Goto, IInv, TypeOK, ConsumerTypeOK, BrokerTypeOK
<1>3. Onwards
  BY <1>2 DEF Onwards
<1>4. AckFollows'
  <2> SUFFICES ASSUME NEW t \in Session, NEW d \in Copy, outPub[t][d] # None
               PROVE  pc'[t][d] = "ack" \/ outSettle'[t][d] # None
    BY <1>2 DEF AckFollows
  <2>1. CASE <<t, d>> = <<s, c>>
    <3>1. chan[s] = "open"
      BY <2>1, Shapes
    <3> QED BY <1>2, <2>1, <3>1, BrokerAssumption
  <2>2. CASE <<t, d>> # <<s, c>>
    BY <1>2, <2>2 DEF Single, AckFollows
  <2> QED BY <2>1, <2>2
<1>5. ASSUME Undisturbed', NEW m \in Msg, NEW d \in Copy, Carries(d, m)'
      PROVE  Carries(d, m)
  <2>1. chan[s] = "open" /\ owner[c] = s
    BY <1>2, <1>5, OwnTask DEF Undisturbed
  <2>2. CASE d = c
    BY <1>2, <1>5, <2>1, <2>2, BrokerAssumption DEF Carries
  <2>3. CASE d # c
    BY <1>2, <1>5, <2>3 DEF Carries
  <2> QED BY <2>2, <2>3
<1> QED BY <1>2, <1>3, <1>4, <1>5, SingleStays DEF Handled

-----------------------------------------------------------------------------
(* The broker, publishers and faults. *)

\* A new envelope has no other carrier.
LEMMA PublishSingle ==
    ASSUME IInv, Single, NEW n \in Msg, Publish(n), UNCHANGED outDlq
    PROVE  Single'
<1>1. PICK h \in FirstHeaders :
        Enqueue("ready", [msg |-> n, attempt |-> h, persistent |-> TRUE])
  BY DEF Publish
<1> DEFINE b == [msg |-> n, attempt |-> h, persistent |-> TRUE]
<1>2. b \in Body /\ "ready" \in Places
  BY ConsumerAssumption DEF Body, Header, Places
<1>3. b.msg = n OBVIOUS
<1> HIDE DEF b
<1>5. ~Published(n) /\ UNCHANGED <<owner, chan, outPub, outSettle, pc, calls>>
  BY DEF Publish
<1>4. PICK new \in Copy :
        /\ body[new] = None /\ owner[new] = None
        /\ place'[new] = "ready" /\ body'[new] = b
        /\ \A d \in Copy \ {new} : SameCopy(d)
  BY <1>1, <1>2, <1>5, EnqueueFacts DEF b
<1>6. \A call \in calls' : Published(call.msg)'
  BY <1>4, <1>5 DEF Single, Published, SameCopy
<1>7. AckFollows'
  BY <1>5 DEF Single, AckFollows
<1>8. ASSUME Undisturbed', NEW m \in Msg
      PROVE  /\ \A c, d \in Copy : Carries(c, m)' /\ Carries(d, m)' => c = d
             /\ \A x, y \in CarryingFrames(m, outDlq)' : x = y
             /\ CarryingFrames(m, outDlq)' = {} \/ \A d \in Copy : ~Carries(d, m)'
             /\ Handled(m)' => /\ CarryingFrames(m, outDlq)' = {}
                               /\ \A d \in Copy : ~Carries(d, m)'
  <2>1. Undisturbed
    BY <1>5, <1>8 DEF Undisturbed
  <2>2. \A d \in Copy : Carries(d, m)' => d = new \/ Carries(d, m)
    BY <1>4, <1>5 DEF Carries, SameCopy
  <2>3. Carries(new, m)' => m = n
    BY <1>3, <1>4 DEF Carries
  <2>4. ~\E d \in Copy : Carries(d, n)
    BY <1>5 DEF Carries, Published
  <2>5. ~Handled(n)
    BY <1>5 DEF Handled, Single
  <2>6. (Handled(m)' <=> Handled(m)) /\ CarryingFrames(m, outDlq)' = CarryingFrames(m, outDlq)
    BY <1>5 DEF Handled, CarryingFrames
  <2>7. CASE m = n
    <3>1. CarryingFrames(n, outDlq) = {}
      BY <1>5, Shapes DEF CarryingFrames, Published
    <3> QED BY <2>2, <2>4, <2>5, <2>6, <2>7, <3>1
  <2>8. CASE m # n
    BY <2>1, <2>2, <2>3, <2>6, <2>8 DEF Single
  <2> QED BY <2>7, <2>8
<1> QED BY <1>6, <1>7, <1>8 DEF Single

\* The broker receives a retry: the new copy takes over from the frame.
LEMMA RecvPublishSingle ==
    ASSUME IInv, Single, NEW s \in Session, NEW c \in Copy, BrokerRecvPublish(s, c),
           UNCHANGED outDlq
    PROVE  Single'
<1> DEFINE f == outPub[s][c]
           p == IF f.to = Dlq THEN "dlq" ELSE "delayed"
<1>1. /\ f # None /\ Enqueue(p, f.body)
      /\ outPub' = [outPub EXCEPT ![s][c] = None]
      /\ UNCHANGED <<owner, chan, outSettle, pc, calls>>
  BY DEF BrokerRecvPublish, RecvPublish
<1>2. f.body.msg = body[c].msg /\ owner[c] = s
  BY <1>1, Shapes
<1>3. f.body \in Body /\ p \in Places
  BY <1>1 DEF IInv, TypeOK, BrokerTypeOK, Frame, Places
<1>b. body[c] # None /\ place[c] = "unacked"
  BY <1>1, <1>2, ActiveHasBody, Shapes, BrokerAssumption
<1> HIDE DEF p
<1>4. PICK new \in Copy :
        /\ body[new] = None /\ owner[new] = None
        /\ place'[new] = p /\ body'[new] = f.body
        /\ \A d \in Copy \ {new} : SameCopy(d)
  BY <1>1, <1>3, EnqueueFacts
<1>5. /\ outPub'[s][c] = None
      /\ \A t \in Session, d \in Copy : outPub'[t][d] # None => outPub'[t][d] = outPub[t][d]
  BY <1>1 DEF IInv, TypeOK, BrokerTypeOK
<1>6. \A call \in calls' : Published(call.msg)'
  BY <1>1, <1>4 DEF Single, Published, SameCopy
<1>7. AckFollows'
  BY <1>1, <1>5 DEF Single, AckFollows
<1>8. ASSUME Undisturbed', NEW m \in Msg
      PROVE  /\ \A x, d \in Copy : Carries(x, m)' /\ Carries(d, m)' => x = d
             /\ \A x, y \in CarryingFrames(m, outDlq)' : x = y
             /\ CarryingFrames(m, outDlq)' = {} \/ \A d \in Copy : ~Carries(d, m)'
             /\ Handled(m)' => /\ CarryingFrames(m, outDlq)' = {}
                               /\ \A d \in Copy : ~Carries(d, m)'
  <2>1. Undisturbed
    BY <1>1, <1>8 DEF Undisturbed
  <2>2. \A d \in Copy : Carries(d, m)' => d = new \/ Carries(d, m)
    BY <1>1, <1>4, <1>5 DEF Carries, SameCopy
  <2>3. ~Carries(c, m)'
    <3>1. pc[s][c] = "ack" \/ outSettle[s][c] # None
      BY <1>1 DEF Single, AckFollows
    <3>2. place'[c] = "unacked"
      BY <1>b, <1>4 DEF SameCopy
    <3> QED BY <1>1, <1>2, <1>5, <3>1, <3>2 DEF Carries
  <2>4. Carries(new, m)' => Carries(c, m)
    BY <1>1, <1>2, <1>b, <1>4 DEF Carries
  <2>6. (Handled(m)' <=> Handled(m)) /\ CarryingFrames(m, outDlq)' = CarryingFrames(m, outDlq)
    BY <1>1 DEF Handled, CarryingFrames
  <2>7. /\ \A x, d \in Copy : Carries(x, m) /\ Carries(d, m) => x = d
        /\ \A x, y \in CarryingFrames(m, outDlq) : x = y
        /\ CarryingFrames(m, outDlq) = {} \/ \A d \in Copy : ~Carries(d, m)
        /\ Handled(m) => /\ CarryingFrames(m, outDlq) = {}
                         /\ \A d \in Copy : ~Carries(d, m)
    BY <2>1 DEF Single
  <2> HIDE DEF f
  <2> QED BY <2>2, <2>3, <2>4, <2>6, <2>7
<1> QED BY <1>6, <1>7, <1>8 DEF Single

\* The broker receives a dead letter.
LEMMA RecvDlqSingle ==
    ASSUME IInv, Single, NEW s \in Session, NEW c \in Copy, BrokerRecvDlq(s, c)
    PROVE  Single'
<1> DEFINE b == outDlq[s][c].body
<1>1. /\ outDlq[s][c] # None /\ Enqueue("dlq", b)
      /\ outDlq' = [outDlq EXCEPT ![s][c] = None]
      /\ UNCHANGED <<owner, chan, outPub, outSettle, pc, calls>>
  BY DEF BrokerRecvDlq
<1>2. b \in Body /\ "dlq" \in Places
  BY <1>1 DEF IInv, TypeOK, Frame, Places
<1>3. /\ outDlq'[s][c] = None
      /\ \A t \in Session, d \in Copy : outDlq'[t][d] # None => outDlq'[t][d] = outDlq[t][d]
  BY <1>1 DEF IInv, TypeOK
<1>4. PICK new \in Copy :
        /\ body[new] = None /\ owner[new] = None
        /\ place'[new] = "dlq" /\ body'[new] = b
        /\ \A d \in Copy \ {new} : SameCopy(d)
  BY <1>1, <1>2, EnqueueFacts
<1>6. \A call \in calls' : Published(call.msg)'
  BY <1>1, <1>4 DEF Single, Published, SameCopy
<1>7. AckFollows'
  BY <1>1 DEF Single, AckFollows
<1>8. ASSUME Undisturbed', NEW m \in Msg
      PROVE  /\ \A x, d \in Copy : Carries(x, m)' /\ Carries(d, m)' => x = d
             /\ \A x, y \in CarryingFrames(m, outDlq)' : x = y
             /\ CarryingFrames(m, outDlq)' = {} \/ \A d \in Copy : ~Carries(d, m)'
             /\ Handled(m)' => /\ CarryingFrames(m, outDlq)' = {}
                               /\ \A d \in Copy : ~Carries(d, m)'
  <2>1. Undisturbed
    BY <1>1, <1>8 DEF Undisturbed
  <2>2. \A d \in Copy : Carries(d, m)' => d = new \/ Carries(d, m)
    BY <1>1, <1>4 DEF Carries, SameCopy
  <2>3. CarryingFrames(m, outDlq)' \subseteq CarryingFrames(m, outDlq) \ {<<s, c>>}
    BY <1>3 DEF CarryingFrames
  <2>4. b.msg = m => <<s, c>> \in CarryingFrames(m, outDlq)
    BY <1>1 DEF CarryingFrames
  <2>5. Carries(new, m)' => b.msg = m
    BY <1>4 DEF Carries
  <2>6. Handled(m)' <=> Handled(m)
    BY <1>1 DEF Handled
  <2>7. /\ \A x, d \in Copy : Carries(x, m) /\ Carries(d, m) => x = d
        /\ \A x, y \in CarryingFrames(m, outDlq) : x = y
        /\ CarryingFrames(m, outDlq) = {} \/ \A d \in Copy : ~Carries(d, m)
        /\ Handled(m) => /\ CarryingFrames(m, outDlq) = {}
                         /\ \A d \in Copy : ~Carries(d, m)
    BY <2>1 DEF Single
  <2> HIDE DEF b
  <2>8. CASE b.msg = m
    <3>1. /\ \A d \in Copy : ~Carries(d, m)
          /\ ~Handled(m) /\ CarryingFrames(m, outDlq)' = {}
      BY <2>3, <2>4, <2>7, <2>8
    <3> QED BY <2>2, <2>6, <3>1
  <2>9. CASE b.msg # m
    BY <2>2, <2>3, <2>5, <2>6, <2>7, <2>9
  <2> QED BY <2>8, <2>9
<1> QED BY <1>6, <1>7, <1>8 DEF Single

\* Deliveries, settlements and timers move a copy; starts move none.
LEMMA OtherSingle ==
    ASSUME IInv, Single, UNCHANGED outDlq,
           \/ \E s \in Session : StartConsumerChannel(s)
           \/ \E s \in Session, c \in Copy : Deliver(s, c) \/ BrokerRecvSettle(s, c)
           \/ \E c \in Copy : RetryDue(c) \/ DlqTtlPasses(c)
    PROVE  Single'
<1>t. IInv /\ TypeOK BY DEF IInv
<1>1. CASE \E s \in Session : StartConsumerChannel(s)
  <2>1. PICK s \in Session :
          /\ chan[s] = "new" /\ chan' = [chan EXCEPT ![s] = "open"]
          /\ UNCHANGED <<place, body, owner, outPub, outSettle, pc, calls>>
    BY <1>1 DEF StartConsumerChannel
  <2>2. Onwards /\ AckFollows'
    BY <1>t, <2>1 DEF Onwards, TypeOK, BrokerTypeOK, Single, AckFollows
  <2>3. \A d \in Copy, m \in Msg : Carries(d, m)' => Carries(d, m)
    BY <2>1 DEF Carries
  <2> QED BY <2>1, <2>2, <2>3, PlaceSingle
<1>2. CASE \E s \in Session, c \in Copy : Deliver(s, c)
  <2>1. PICK s \in Session, c \in Copy :
          /\ place[c] = "ready" /\ place' = [place EXCEPT ![c] = "unacked"]
          /\ owner' = [owner EXCEPT ![c] = s]
          /\ Goto(s, c, "buffered")
          /\ UNCHANGED <<body, chan, outPub, outSettle, calls>>
    BY <1>2 DEF Deliver, Send
  <2>2. \A t \in Session, d \in Copy : <<t, d>> # <<s, c>> => pc'[t][d] = pc[t][d]
    BY <1>t, <2>1 DEF Goto, TypeOK, ConsumerTypeOK
  <2>3. outPub[s][c] = None
    BY <1>t, <2>1, Shapes, BrokerAssumption
  <2>4. AckFollows'
    BY <2>1, <2>2, <2>3 DEF Single, AckFollows
  <2>5. ASSUME NEW d \in Copy, NEW m \in Msg, Carries(d, m)' PROVE Carries(d, m)
    <3>1. CASE d = c
      BY <2>1, <2>5, <3>1 DEF Carries
    <3>2. CASE d # c
      BY <1>t, <2>1, <2>2, <2>5, <3>2 DEF Carries, TypeOK, BrokerTypeOK
    <3> QED BY <3>1, <3>2
  <2> QED BY <2>1, <2>4, <2>5, PlaceSingle DEF Onwards
<1>3. CASE \E s \in Session, c \in Copy : BrokerRecvSettle(s, c)
  <2>1. PICK s \in Session, c \in Copy :
          /\ outPub[s][c] = None
          /\ place' = [place EXCEPT ![c] =
                          IF outSettle[s][c] = "ack" THEN "acked" ELSE "dropped"]
          /\ owner' = [owner EXCEPT ![c] = None]
          /\ outSettle' = [outSettle EXCEPT ![s][c] = None]
          /\ UNCHANGED <<body, chan, outPub, pc, calls>>
    BY <1>3 DEF BrokerRecvSettle, RecvSettle
  <2>2. /\ place'[c] \in {"acked", "dropped"}
        /\ \A d \in Copy \ {c} : place'[d] = place[d] /\ owner'[d] = owner[d]
        /\ \A t \in Session, d \in Copy :
              <<t, d>> # <<s, c>> => outSettle'[t][d] = outSettle[t][d]
        /\ owner'[c] = None
    BY <1>t, <2>1 DEF TypeOK, BrokerTypeOK
  <2>3. AckFollows'
    BY <2>1, <2>2 DEF Single, AckFollows
  <2>4. ASSUME NEW d \in Copy, NEW m \in Msg, Carries(d, m)' PROVE Carries(d, m)
    <3>1. CASE d = c
      BY <2>2, <2>4, <3>1, BrokerAssumption DEF Carries
    <3>2. CASE d # c
      BY <2>1, <2>2, <2>4, <3>2 DEF Carries
    <3> QED BY <3>1, <3>2
  <2> QED BY <2>1, <2>3, <2>4, PlaceSingle DEF Onwards
<1>4. CASE \E c \in Copy : RetryDue(c) \/ DlqTtlPasses(c)
  <2>1. PICK c \in Copy :
          /\ place[c] \in {"delayed", "dlq"}
          /\ \E p : place' = [place EXCEPT ![c] = p]
          /\ UNCHANGED <<body, owner, chan, outPub, outSettle, pc, calls>>
    BY <1>4 DEF RetryDue, DlqTtlPasses, ExpireRetry, ExpireDlq
  <2>2. \A d \in Copy \ {c} : place'[d] = place[d]
    BY <1>t, <2>1 DEF TypeOK, BrokerTypeOK
  <2>3. AckFollows'
    BY <2>1 DEF Single, AckFollows
  <2>4. ASSUME NEW d \in Copy, NEW m \in Msg, Carries(d, m)' PROVE Carries(d, m)
    BY <2>1, <2>2, <2>4 DEF Carries
  <2> QED BY <2>1, <2>3, <2>4, PlaceSingle DEF Onwards
<1> QED BY <1>1, <1>2, <1>3, <1>4

\* A failed start, a lost connection, a crash and a restart close a session, and
\* dead letter frames are lost after one was closed.
LEMMA FaultSingle ==
    ASSUME IInv, Single,
           \/ \E s \in Session : StartFails(s) /\ UNCHANGED outDlq
           \/ \E s \in Session : LoseConnection(s) \/ Crash(s)
           \/ \E s \in Session, c \in Copy : LoseDlqFrame(s, c)
           \/ Restart
    PROVE  Single'
<1>1. CASE \E s \in Session : StartFails(s)
  <2>1. PICK s \in Session :
          /\ chan[s] = "new" /\ chan' = [chan EXCEPT ![s] = "closed"]
          /\ UNCHANGED <<body, outPub, outSettle, pc, calls>>
    BY <1>1 DEF StartFails
  <2>2. chan'[s] = "closed" /\ Onwards
    BY <2>1 DEF Onwards, IInv, TypeOK, BrokerTypeOK
  <2> QED BY <2>1, <2>2, CloseSingle
<1>2. CASE (\E s \in Session : ConnectionLost(s) \/ ProcessCrash(s)) \/ BrokerRestarts
  <2>1. PICK S \in SUBSET Session :
          /\ S # {} /\ CloseChannels(S)
          /\ UNCHANGED <<body, calls>>
          /\ \A t \in Session \ S : pc'[t] = pc[t]
    <3>1. CASE \E s \in Session : ConnectionLost(s)
      BY <3>1 DEF ConnectionLost, Close
    <3>2. CASE \E s \in Session : ProcessCrash(s)
      <4>1. PICK s \in Session : ProcessCrash(s)
        BY <3>2
      <4>2. \A t \in Session \ {s} : pc'[t] = pc[t]
        BY <4>1 DEF ProcessCrash, IInv, TypeOK, ConsumerTypeOK
      <4> QED BY <4>1, <4>2 DEF ProcessCrash, Close
    <3>3. CASE BrokerRestarts
      <4>1. {s \in Session : chan[s] = "open"} # {}
        BY <3>3 DEF BrokerRestarts
      <4> QED BY <3>3, <4>1 DEF BrokerRestarts, BrokerRestart
    <3> QED BY <1>2, <3>1, <3>2, <3>3
  <2>2. Onwards /\ \E s \in Session : chan'[s] = "closed"
    BY <2>1 DEF Onwards, CloseChannels
  <2>3. \A t \in Session, d \in Copy :
          outPub'[t][d] = None
            \/ (/\ outPub'[t][d] = outPub[t][d] /\ pc'[t][d] = pc[t][d]
                /\ outSettle'[t][d] = outSettle[t][d])
    BY <2>1 DEF CloseChannels
  <2> QED BY <2>1, <2>2, <2>3, CloseSingle
<1>3. CASE \E s \in Session, c \in Copy : LoseDlqFrame(s, c)
  <2>1. PICK s \in Session : chan[s] = "closed" /\ UNCHANGED vars
    BY <1>3 DEF LoseDlqFrame
  <2>2. Onwards /\ chan'[s] = "closed"
    BY <2>1 DEF Onwards, vars
  <2> QED BY <2>1, <2>2, CloseSingle DEF vars
<1> QED BY <1>1, <1>2, <1>3 DEF LoseConnection, Crash, Restart

-----------------------------------------------------------------------------
(* The theorem. *)

\* Nothing is published at first.
LEMMA InitSingle == Init => Single
BY DEF Init, ConsumerInit, BrokerInit, Single, AckFollows, Carries, Handled,
       CarryingFrames, NoFrames

\* Every step keeps a message in one place.
LEMMA NextSingle == IInv /\ Single /\ [Next]_envVars => Single'
<1> SUFFICES ASSUME IInv, Single, [Next]_envVars PROVE Single'
  OBVIOUS
<1>1. CASE \E m \in Msg : Publish(m) /\ UNCHANGED outDlq
  BY <1>1, PublishSingle
<1>2. CASE \E s \in Session, c \in Copy : TaskStep(s, c)
  BY <1>2, HandlerSingle, DeclareSingle, SendSingle, SettleSingle, PublishDlqSingle
     DEF TaskStep, SharedTaskStep
<1>3. CASE \E s \in Session, c \in Copy : BrokerStep(s, c)
  BY <1>3, RecvPublishSingle, RecvDlqSingle, OtherSingle DEF BrokerStep
<1>4. CASE \/ \E s \in Session : StartConsumerChannel(s) /\ UNCHANGED outDlq
           \/ \E c \in Copy : (RetryDue(c) \/ DlqTtlPasses(c)) /\ UNCHANGED outDlq
  BY <1>4, OtherSingle
<1>5. CASE Fault
  BY <1>5, FaultSingle, HandlerSingle DEF Fault
<1>6. CASE UNCHANGED envVars
  <2>1. Onwards /\ AckFollows'
    BY <1>6 DEF envVars, vars, Onwards, Single, AckFollows
  <2>2. \A d \in Copy, m \in Msg : Carries(d, m)' => Carries(d, m)
    BY <1>6 DEF envVars, vars, Carries
  <2> QED BY <1>6, <2>1, <2>2, PlaceSingle DEF envVars, vars
<1> QED BY <1>1, <1>2, <1>3, <1>4, <1>5, <1>6 DEF Next

\* A set whose members are all equal has one at most.
LEMMA AtMostOne ==
    ASSUME NEW S, \A x, y \in S : x = y
    PROVE  Cardinality(S) \in {0, 1} /\ (Cardinality(S) = 0 <=> S = {})
<1>1. CASE S = {}
  BY <1>1, FS_EmptySet
<1>2. CASE S # {}
  <2>1. PICK x \in S : S = {x}
    BY <1>2
  <2> QED BY <2>1, FS_Singleton
<1> QED BY <1>1, <1>2

\* The carriers that NoDuplicates counts are copies that carry the envelope,
\* frames of such copies, or dead letter frames.
LEMMA CarriersCounted ==
    ASSUME IInv, Single
    PROVE  NoDuplicates
<1> SUFFICES ASSUME Undisturbed, NEW m \in Msg
             PROVE  Cardinality(CarryingCopies(m)) + Cardinality(CarryingFrames(m, outPub))
                      + Cardinality(CarryingFrames(m, outDlq))
                        <= (IF Handled(m) THEN 0 ELSE 1)
  BY DEF NoDuplicates, Undisturbed
<1> DEFINE A == CarryingCopies(m)
           B == CarryingFrames(m, outPub)
           D == CarryingFrames(m, outDlq)
<1>1. \A c, d \in Copy : Carries(c, m) /\ Carries(d, m) => c = d
  BY DEF Single
<1>2. ASSUME NEW c \in A
      PROVE  /\ c \in Copy /\ Carries(c, m)
             /\ \A s \in Session : outPub[s][c] = None
  <2>1. c \in Copy /\ body[c] # None /\ body[c].msg = m
    BY DEF CarryingCopies
  <2>2. CASE place[c] \in {"ready", "delayed", "dlq", "expired"}
    BY <2>1, <2>2, Shapes, BrokerAssumption DEF Carries
  <2>3. CASE place[c] = "unacked" /\ ~WaitsForAck(c)
    <3>1. owner[c] # None
      BY <2>1, <2>3 DEF IInv, CopyOK
    <3>2. PICK s \in Session : owner[c] = s
      BY <2>1, <3>1 DEF IInv, TypeOK, BrokerTypeOK
    <3> QED BY <2>1, <2>3, <3>2 DEF Carries, WaitsForAck
  <2> QED BY <2>2, <2>3 DEF CarryingCopies
<1>3. ASSUME NEW d \in B
      PROVE  /\ d = <<d[1], d[2]>> /\ d[1] \in Session /\ d[2] \in Copy
             /\ outPub[d[1]][d[2]] # None /\ owner[d[2]] = d[1] /\ Carries(d[2], m)
  <2>1. /\ d \in Session \X Copy /\ outPub[d[1]][d[2]] # None
        /\ outPub[d[1]][d[2]].body.msg = m
    BY DEF CarryingFrames
  <2>2. d = <<d[1], d[2]>> /\ d[1] \in Session /\ d[2] \in Copy
    BY <2>1
  <2>3. owner[d[2]] = d[1] /\ body[d[2]].msg = m
    BY <2>1, <2>2, Shapes
  <2>4. body[d[2]] # None
    BY <2>1, <2>2, ActiveHasBody
  <2>5. place[d[2]] = "unacked"
    BY <2>2, <2>3, Shapes, BrokerAssumption
  <2> QED BY <2>1, <2>2, <2>3, <2>4, <2>5 DEF Carries
<1>4. \A x, y \in A : x = y
  BY <1>1, <1>2
<1>5. \A x, y \in B : x = y
  <2> SUFFICES ASSUME NEW x \in B, NEW y \in B PROVE x = y
    OBVIOUS
  <2>1. x[2] = y[2] /\ x[1] = y[1]
    BY <1>1, <1>3
  <2> QED BY <2>1, <1>3
<1>6. A = {} \/ B = {}
  <2> SUFFICES ASSUME NEW x \in A, NEW y \in B PROVE FALSE
    OBVIOUS
  <2>1. x = y[2]
    BY <1>1, <1>2, <1>3
  <2> QED BY <2>1, <1>2, <1>3
<1>7. /\ \A x, y \in D : x = y
      /\ D = {} \/ (A = {} /\ B = {})
      /\ Handled(m) => A = {} /\ B = {} /\ D = {}
  BY <1>2, <1>3 DEF Single
<1>8. /\ Cardinality(A) \in {0, 1} /\ (Cardinality(A) = 0 <=> A = {})
      /\ Cardinality(B) \in {0, 1} /\ (Cardinality(B) = 0 <=> B = {})
      /\ Cardinality(D) \in {0, 1} /\ (Cardinality(D) = 0 <=> D = {})
  BY <1>4, <1>5, <1>7, AtMostOne
<1> QED BY <1>6, <1>7, <1>8

\* Without a closed channel an envelope is in one place at most, and in none
\* once the handler has succeeded: the dead letter's own channel makes no
\* duplicate, although nothing orders it with the ack (envelope.rs:242-300).
THEOREM NeverDuplicated == Spec => []NoDuplicates
<1>1. Spec => []Single
  BY InitSingle, NextSingle, Invariance, PTL DEF Spec
<1> QED BY <1>1, CarriersCounted, Invariance, PTL
=============================================================================
