-------------------------- MODULE ConnectionProofs --------------------------
(***************************************************************************)
(* Proofs about Connection, for any number of tasks and connection ids:    *)
(* the queues of its two locks, and its safety properties.                 *)
(***************************************************************************)
EXTENDS Connection, SequenceTheorems, TLAPS

-----------------------------------------------------------------------------
(* Queues. *)

\* A task that is not in a queue joins it at its end.
LEMMA Joins ==
    ASSUME NEW s \in Seq(Proc), IsInjective(s), NEW p \in Proc, p \notin ToSet(s)
    PROVE  /\ Append(s, p) \in Seq(Proc)
           /\ IsInjective(Append(s, p))
           /\ ToSet(Append(s, p)) = ToSet(s) \cup {p}
           /\ Append(s, p) # <<>>
           /\ Head(Append(s, p)) = IF s = <<>> THEN p ELSE Head(s)
<1>1. /\ Append(s, p) \in Seq(Proc) /\ Len(Append(s, p)) = Len(s) + 1
      /\ Append(s, p)[Len(s) + 1] = p
      /\ \A i \in 1..Len(s) : Append(s, p)[i] = s[i]
  OBVIOUS
<1>2. DOMAIN s = 1..Len(s) /\ DOMAIN Append(s, p) = 1..(Len(s) + 1)
  BY <1>1
<1>3. IsInjective(Append(s, p))
  BY <1>1, <1>2 DEF IsInjective, ToSet
<1>4. ToSet(Append(s, p)) = ToSet(s) \cup {p}
  BY <1>1, <1>2 DEF ToSet
<1>5. Append(s, p) # <<>> /\ Head(Append(s, p)) = Append(s, p)[1]
  BY AppendProperties, HeadTailProperties
<1>6. CASE s = <<>>
  BY <1>1, <1>3, <1>4, <1>5, <1>6
<1>7. CASE s # <<>>
  <2>1. Len(s) \in Nat \ {0} /\ Head(s) = s[1]
    BY <1>7, HeadTailProperties
  <2> QED BY <1>1, <1>3, <1>4, <1>5, <1>7, <2>1
<1> QED BY <1>6, <1>7

\* The head of a queue leaves it.
LEMMA Leaves ==
    ASSUME NEW s \in Seq(Proc), IsInjective(s), s # <<>>
    PROVE  /\ Tail(s) \in Seq(Proc)
           /\ IsInjective(Tail(s))
           /\ Head(s) \in ToSet(s)
           /\ ToSet(Tail(s)) = ToSet(s) \ {Head(s)}
<1>1. /\ Tail(s) \in Seq(Proc) /\ Len(Tail(s)) = Len(s) - 1 /\ Len(s) \in Nat \ {0}
      /\ Head(s) = s[1]
      /\ \A i \in 1..(Len(s) - 1) : Tail(s)[i] = s[i + 1]
  OBVIOUS
<1>2. DOMAIN s = 1..Len(s) /\ DOMAIN Tail(s) = 1..(Len(s) - 1)
  BY <1>1
<1>3. IsInjective(Tail(s))
  BY <1>1, <1>2 DEF IsInjective
<1>4. Head(s) \in ToSet(s)
  BY <1>1, <1>2 DEF ToSet
<1>5. ASSUME NEW x PROVE x \in ToSet(Tail(s)) <=> x \in ToSet(s) \ {Head(s)}
  <2>1. ASSUME x \in ToSet(Tail(s)) PROVE x \in ToSet(s) \ {Head(s)}
    <3>1. PICK i \in 1..(Len(s) - 1) : x = s[i + 1]
      BY <2>1, <1>1, <1>2 DEF ToSet
    <3>2. i + 1 \in DOMAIN s /\ 1 \in DOMAIN s /\ i + 1 # 1
      BY <1>1, <1>2
    <3> QED BY <3>1, <3>2, <1>1 DEF ToSet, IsInjective
  <2>2. ASSUME x \in ToSet(s) \ {Head(s)} PROVE x \in ToSet(Tail(s))
    <3>1. PICK i \in 1..Len(s) : x = s[i] /\ i # 1
      BY <2>2, <1>1, <1>2 DEF ToSet
    <3>2. i - 1 \in 1..(Len(s) - 1) /\ Tail(s)[i - 1] = x
      BY <3>1, <1>1
    <3> QED BY <3>2, <1>2 DEF ToSet
  <2> QED BY <2>1, <2>2
<1> QED BY <1>1, <1>3, <1>4, <1>5

\* It leaves to wait at the end again.
LEMMA WaitsAgain ==
    ASSUME NEW s \in Seq(Proc), IsInjective(s), s # <<>>
    PROVE  /\ Append(Tail(s), Head(s)) \in Seq(Proc)
           /\ IsInjective(Append(Tail(s), Head(s)))
           /\ ToSet(Append(Tail(s), Head(s))) = ToSet(s)
<1>1. /\ Tail(s) \in Seq(Proc) /\ IsInjective(Tail(s)) /\ Head(s) \in Proc
      /\ Head(s) \notin ToSet(Tail(s)) /\ ToSet(s) = ToSet(Tail(s)) \cup {Head(s)}
  BY Leaves
<1> QED BY <1>1, Joins

-----------------------------------------------------------------------------
(* Types. *)

RwWaits == ReadWaits \cup WriteWaits
LockWaits == {"lock", "recheck", "connecting", "store"}

\* The fair queues hold the tasks whose await says so.
Queues ==
    /\ rwQueue \in Seq(Proc) /\ IsInjective(rwQueue)
    /\ lockQueue \in Seq(Proc) /\ IsInjective(lockQueue)
    /\ ToSet(rwQueue) = {p \in Proc : pc[p] \in RwWaits}
    /\ ToSet(lockQueue) = {p \in Proc : pc[p] \in LockWaits}

Plain ==
    /\ pc \in [Proc -> Awaits]
    /\ manual \subseteq Proc
    /\ inner \in Conn \cup {None}
    /\ up \subseteq Conn
    /\ local \in [Proc -> Conn \cup {None}]
    /\ guards \subseteq Proc
    /\ writer \in Proc \cup {None}
    /\ closed \subseteq Proc

LEMMA TypeParts == TypeOK <=> Plain /\ Queues
BY DEF TypeOK, Plain, Queues, RwWaits, LockWaits

\* A task goes to another await, and the queues with it.
LEMMA QueueStep ==
    ASSUME TypeOK, NEW p \in Proc, NEW await \in Awaits, Goto(p, await),
           \/ (pc[p] \in RwWaits) = (await \in RwWaits) /\ rwQueue' = rwQueue
           \/ pc[p] \in RwWaits /\ await \in RwWaits
                /\ rwQueue # <<>> /\ Head(rwQueue) = p /\ WaitAgain(p)
           \/ pc[p] \notin RwWaits /\ await \in RwWaits /\ Wait(p)
           \/ pc[p] \in RwWaits /\ await \notin RwWaits
                /\ rwQueue # <<>> /\ Head(rwQueue) = p /\ Leave,
           \/ (pc[p] \in LockWaits) = (await \in LockWaits) /\ lockQueue' = lockQueue
           \/ pc[p] \notin LockWaits /\ await \in LockWaits /\ Lock(p)
           \/ pc[p] \in LockWaits /\ await \notin LockWaits
                /\ lockQueue # <<>> /\ Head(lockQueue) = p /\ Unlock
    PROVE  Queues' /\ pc' \in [Proc -> Awaits]
<1>q. Queues /\ pc \in [Proc -> Awaits]
  BY TypeParts DEF Plain
<1>1. /\ pc' \in [Proc -> Awaits] /\ pc'[p] = await
      /\ \A q \in Proc \ {p} : pc'[q] = pc[q]
  BY <1>q DEF Goto
<1>r. /\ p \in ToSet(rwQueue) <=> pc[p] \in RwWaits
      /\ p \in ToSet(lockQueue) <=> pc[p] \in LockWaits
  BY <1>q DEF Queues
<1>2. /\ rwQueue' \in Seq(Proc) /\ IsInjective(rwQueue')
      /\ ToSet(rwQueue') = IF await \in RwWaits THEN ToSet(rwQueue) \cup {p} ELSE ToSet(rwQueue) \ {p}
  <2> USE DEF Queues
  <2>1. CASE (pc[p] \in RwWaits) = (await \in RwWaits) /\ rwQueue' = rwQueue
    BY <1>q, <1>r, <2>1
  <2>2. CASE pc[p] \in RwWaits /\ await \in RwWaits /\ rwQueue # <<>> /\ Head(rwQueue) = p /\ WaitAgain(p)
    BY <1>q, <1>r, <2>2, WaitsAgain DEF WaitAgain
  <2>3. CASE pc[p] \notin RwWaits /\ await \in RwWaits /\ Wait(p)
    BY <1>q, <1>r, <2>3, Joins DEF Wait
  <2>4. CASE pc[p] \in RwWaits /\ await \notin RwWaits /\ rwQueue # <<>> /\ Head(rwQueue) = p /\ Leave
    BY <1>q, <1>r, <2>4, Leaves DEF Leave
  <2> QED BY <2>1, <2>2, <2>3, <2>4
<1>3. /\ lockQueue' \in Seq(Proc) /\ IsInjective(lockQueue')
      /\ ToSet(lockQueue') = IF await \in LockWaits THEN ToSet(lockQueue) \cup {p}
                                                     ELSE ToSet(lockQueue) \ {p}
  <2> USE DEF Queues
  <2>1. CASE (pc[p] \in LockWaits) = (await \in LockWaits) /\ lockQueue' = lockQueue
    BY <1>q, <1>r, <2>1
  <2>2. CASE pc[p] \notin LockWaits /\ await \in LockWaits /\ Lock(p)
    BY <1>q, <1>r, <2>2, Joins DEF Lock
  <2>3. CASE pc[p] \in LockWaits /\ await \notin LockWaits /\ lockQueue # <<>> /\ Head(lockQueue) = p /\ Unlock
    BY <1>q, <1>r, <2>3, Leaves DEF Unlock
  <2> QED BY <2>1, <2>2, <2>3
<1>4. /\ ToSet(rwQueue') = {q \in Proc : pc'[q] \in RwWaits}
      /\ ToSet(lockQueue') = {q \in Proc : pc'[q] \in LockWaits}
  BY <1>q, <1>1, <1>2, <1>3 DEF Queues
<1>5. ToSet(rwQueue)' = ToSet(rwQueue') /\ ToSet(lockQueue)' = ToSet(lockQueue')
  BY DEF ToSet
<1>6. IsInjective(rwQueue)' /\ IsInjective(lockQueue)'
  BY <1>2, <1>3 DEF IsInjective
<1> QED BY <1>1, <1>2, <1>3, <1>4, <1>5, <1>6 DEF Queues

-----------------------------------------------------------------------------
(* The invariant. *)

\* The part of IInv that is about the control of the tasks.
Control ==
    /\ \A p \in manual : pc[p] \in {"lock", "connecting", "store"}
    /\ ErrorNeedsClose /\ GuardPinsConnection

LEMMA Parts == IInv <=> Plain /\ Queues /\ Exclusive /\ Separate /\ Control
BY TypeParts DEF IInv, Control

LEMMA PartsNext ==
    Plain' /\ Queues' /\ Exclusive' /\ Separate' /\ Control' => IInv'
BY DEF IInv, Control, TypeOK, Plain, Queues, RwWaits, LockWaits

\* Joining the queue of reconnect_lock leaves its head alone.
LEMMA HeadStays ==
    ASSUME Queues, NEW p \in Proc, pc[p] \notin LockWaits, Lock(p), lockQueue # <<>>
    PROVE  lockQueue' # <<>> /\ Head(lockQueue') = Head(lockQueue)
<1>1. p \notin ToSet(lockQueue)
  BY DEF Queues
<1> QED BY <1>1, Joins DEF Queues, Lock

\* A task that holds reconnect_lock is the head of its queue.
LEMMA LockHead ==
    ASSUME Exclusive, NEW p \in Proc, pc[p] \in {"recheck", "connecting", "store"}
    PROVE  lockQueue # <<>> /\ Head(lockQueue) = p
BY DEF Exclusive, Holds

\* A call of create_channel() preserves the invariant.
LEMMA CreateChannelSafe ==
    ASSUME ConnectionAssumption, IInv, NEW p \in Proc, CreateChannel(p)
    PROVE  IInv'
<1>p. Plain /\ Queues /\ Exclusive /\ Separate /\ Control /\ TypeOK
  BY Parts DEF IInv
<1>1. Queues' /\ pc' \in [Proc -> Awaits]
  <2>1. Goto(p, "check") /\ "check" \in Awaits
    BY DEF CreateChannel, Call, Awaits, ReadWaits, WriteWaits
  <2> QED BY <1>p, <2>1, QueueStep, LockHead DEF CreateChannel, Call, Granted, Awaits,
             ReadWaits, WriteWaits, RwWaits, LockWaits
<1>2. Plain'
  BY <1>p, <1>1 DEF Plain, CreateChannel, Call
<1>3. Exclusive'
  BY <1>p, <1>1 DEF Exclusive, Holds, IsConnected, Plain, Control, Separate, LockWaits,
     Goto, Granted, CreateChannel, Call
<1>4. Separate'
  BY <1>p, <1>1 DEF Separate, Plain, Goto, Granted, CreateChannel, Call
<1>5. Control'
  BY <1>p, <1>1 DEF Control, ErrorNeedsClose, GuardPinsConnection, Separate, Exclusive,
     Holds, IsConnected, Plain, ConnectionAssumption, Goto, Granted, ReadWaits,
     CreateChannel, Call
<1> QED BY <1>1, <1>2, <1>3, <1>4, <1>5, PartsNext

\* A call of close() preserves the invariant.
LEMMA CloseSafe ==
    ASSUME ConnectionAssumption, IInv, NEW p \in Proc, Close(p)
    PROVE  IInv'
<1>p. Plain /\ Queues /\ Exclusive /\ Separate /\ Control /\ TypeOK
  BY Parts DEF IInv
<1>1. Queues' /\ pc' \in [Proc -> Awaits]
  <2>1. Goto(p, "take") /\ "take" \in Awaits
    BY DEF Close, Call, Awaits, ReadWaits, WriteWaits
  <2> QED BY <1>p, <2>1, QueueStep, LockHead DEF Close, Call, Granted, Awaits, ReadWaits,
             WriteWaits, RwWaits, LockWaits
<1>2. Plain'
  BY <1>p, <1>1 DEF Plain, Close, Call
<1>3. Exclusive'
  BY <1>p, <1>1 DEF Exclusive, Holds, IsConnected, Plain, Control, Separate, LockWaits,
     Goto, Granted, Close, Call
<1>4. Separate'
  BY <1>p, <1>1 DEF Separate, Plain, Goto, Granted, Close, Call
<1>5. Control'
  BY <1>p, <1>1 DEF Control, ErrorNeedsClose, GuardPinsConnection, Separate, Exclusive,
     Holds, IsConnected, Plain, ConnectionAssumption, Goto, Granted, ReadWaits, Close, Call
<1> QED BY <1>1, <1>2, <1>3, <1>4, <1>5, PartsNext

\* A call of reconnect() preserves the invariant.
LEMMA ReconnectSafe ==
    ASSUME ConnectionAssumption, IInv, NEW p \in Proc, Reconnect(p)
    PROVE  IInv'
<1>p. Plain /\ Queues /\ Exclusive /\ Separate /\ Control /\ TypeOK
  BY Parts DEF IInv
<1>1. Queues' /\ pc' \in [Proc -> Awaits]
  <2>1. Goto(p, "lock") /\ "lock" \in Awaits
    BY DEF Reconnect, Call, Awaits, ReadWaits, WriteWaits
  <2> QED BY <1>p, <2>1, QueueStep, LockHead DEF Reconnect, Call, Granted, Awaits,
             ReadWaits, WriteWaits, RwWaits, LockWaits
<1>2. Plain'
  BY <1>p, <1>1 DEF Plain, Reconnect, Call
<1>3. Exclusive'
  BY <1>p, <1>1, HeadStays DEF Exclusive, Holds, IsConnected, Plain, Control, Separate,
     LockWaits, Goto, Granted, Reconnect, Call
<1>4. Separate'
  BY <1>p, <1>1 DEF Separate, Plain, Goto, Granted, Reconnect, Call
<1>5. Control'
  BY <1>p, <1>1 DEF Control, ErrorNeedsClose, GuardPinsConnection, Separate, Exclusive,
     Holds, IsConnected, Plain, ConnectionAssumption, Goto, Granted, ReadWaits, Reconnect,
     Call
<1> QED BY <1>1, <1>2, <1>3, <1>4, <1>5, PartsNext

\* The step in which ensure_connected() looks at the connection preserves the invariant.
LEMMA CheckSafe ==
    ASSUME ConnectionAssumption, IInv, NEW p \in Proc, Check(p)
    PROVE  IInv'
<1>p. Plain /\ Queues /\ Exclusive /\ Separate /\ Control /\ TypeOK
  BY Parts DEF IInv
<1>1. Queues' /\ pc' \in [Proc -> Awaits]
  <2>1. CASE IsConnected
    <3>1. Goto(p, "pick") /\ "pick" \in Awaits
      BY <2>1 DEF Check, Awaits, ReadWaits, WriteWaits
    <3> QED BY <1>p, <2>1, <3>1, QueueStep, LockHead DEF Check, Granted, Awaits, ReadWaits,
               WriteWaits, RwWaits, LockWaits
  <2>2. CASE ~IsConnected
    <3>1. Goto(p, "lock") /\ "lock" \in Awaits
      BY <2>2 DEF Check, Awaits, ReadWaits, WriteWaits
    <3> QED BY <1>p, <2>2, <3>1, QueueStep, LockHead DEF Check, Granted, Awaits, ReadWaits,
               WriteWaits, RwWaits, LockWaits
  <2> QED BY <2>1, <2>2
<1>2. Plain'
  BY <1>p, <1>1 DEF Plain, Check
<1>3. Exclusive'
  BY <1>p, <1>1, HeadStays DEF Exclusive, Holds, IsConnected, Plain, Control, Separate,
     LockWaits, Goto, Granted, Check
<1>4. Separate'
  BY <1>p, <1>1 DEF Separate, Plain, Goto, Granted, Check
<1>5. Control'
  BY <1>p, <1>1 DEF Control, ErrorNeedsClose, GuardPinsConnection, Separate, Exclusive,
     Holds, IsConnected, Plain, ConnectionAssumption, Goto, Granted, ReadWaits, Check
<1> QED BY <1>1, <1>2, <1>3, <1>4, <1>5, PartsNext

\* The step in which reconnect_lock is acquired preserves the invariant.
LEMMA LockedSafe ==
    ASSUME ConnectionAssumption, IInv, NEW p \in Proc, Locked(p)
    PROVE  IInv'
<1>p. Plain /\ Queues /\ Exclusive /\ Separate /\ Control /\ TypeOK
  BY Parts DEF IInv
<1>1. Queues' /\ pc' \in [Proc -> Awaits]
  <2>1. CASE p \in manual
    <3>1. Goto(p, "connecting") /\ "connecting" \in Awaits
      BY <2>1 DEF Locked, Awaits, ReadWaits, WriteWaits
    <3> QED BY <1>p, <2>1, <3>1, QueueStep, LockHead DEF Locked, Granted, Awaits, ReadWaits,
               WriteWaits, RwWaits, LockWaits
  <2>2. CASE p \notin manual
    <3>1. Goto(p, "recheck") /\ "recheck" \in Awaits
      BY <2>2 DEF Locked, Awaits, ReadWaits, WriteWaits
    <3> QED BY <1>p, <2>2, <3>1, QueueStep, LockHead DEF Locked, Granted, Awaits, ReadWaits,
               WriteWaits, RwWaits, LockWaits
  <2> QED BY <2>1, <2>2
<1>2. Plain'
  BY <1>p, <1>1 DEF Plain, Locked
<1>3. Exclusive'
  BY <1>p, <1>1 DEF Exclusive, Holds, IsConnected, Plain, Control, Separate, LockWaits,
     Goto, Granted, Locked
<1>4. Separate'
  BY <1>p, <1>1 DEF Separate, Plain, Goto, Granted, Locked
<1>5. Control'
  BY <1>p, <1>1 DEF Control, ErrorNeedsClose, GuardPinsConnection, Separate, Exclusive,
     Holds, IsConnected, Plain, ConnectionAssumption, Goto, Granted, ReadWaits, Locked
<1> QED BY <1>1, <1>2, <1>3, <1>4, <1>5, PartsNext

\* The step in which ensure_connected() looks again under the lock preserves the invariant.
LEMMA RecheckSafe ==
    ASSUME ConnectionAssumption, IInv, NEW p \in Proc, Recheck(p)
    PROVE  IInv'
<1>p. Plain /\ Queues /\ Exclusive /\ Separate /\ Control /\ TypeOK
  BY Parts DEF IInv
<1>1. Queues' /\ pc' \in [Proc -> Awaits]
  <2>1. CASE IsConnected
    <3>1. Goto(p, "pick") /\ "pick" \in Awaits
      BY <2>1 DEF Recheck, Awaits, ReadWaits, WriteWaits
    <3> QED BY <1>p, <2>1, <3>1, QueueStep, LockHead DEF Recheck, Granted, Awaits,
               ReadWaits, WriteWaits, RwWaits, LockWaits
  <2>2. CASE ~IsConnected
    <3>1. Goto(p, "connecting") /\ "connecting" \in Awaits
      BY <2>2 DEF Recheck, Awaits, ReadWaits, WriteWaits
    <3> QED BY <1>p, <2>2, <3>1, QueueStep, LockHead DEF Recheck, Granted, Awaits,
               ReadWaits, WriteWaits, RwWaits, LockWaits
  <2> QED BY <2>1, <2>2
<1>2. Plain'
  BY <1>p, <1>1 DEF Plain, Recheck
<1>3. Exclusive'
  BY <1>p, <1>1 DEF Exclusive, Holds, IsConnected, Plain, Control, Separate, LockWaits,
     Goto, Granted, Recheck
<1>4. Separate'
  BY <1>p, <1>1 DEF Separate, Plain, Goto, Granted, Recheck
<1>5. Control'
  BY <1>p, <1>1 DEF Control, ErrorNeedsClose, GuardPinsConnection, Separate, Exclusive,
     Holds, IsConnected, Plain, ConnectionAssumption, Goto, Granted, ReadWaits, Recheck
<1> QED BY <1>1, <1>2, <1>3, <1>4, <1>5, PartsNext

\* The step in which lapin returns a new connection preserves the invariant.
LEMMA ConnectOkSafe ==
    ASSUME ConnectionAssumption, IInv, NEW p \in Proc, ConnectOk(p)
    PROVE  IInv'
<1>p. Plain /\ Queues /\ Exclusive /\ Separate /\ Control /\ TypeOK
  BY Parts DEF IInv
<1>1. Queues' /\ pc' \in [Proc -> Awaits]
  <2>1. Goto(p, "store") /\ "store" \in Awaits
    BY DEF ConnectOk, Unused, Referenced, Awaits, ReadWaits, WriteWaits
  <2> QED BY <1>p, <2>1, QueueStep, LockHead DEF ConnectOk, Unused, Referenced, Granted,
             Awaits, ReadWaits, WriteWaits, RwWaits, LockWaits
<1>2. Plain'
  BY <1>p, <1>1 DEF Plain, ConnectOk, Unused, Referenced
<1>3. Exclusive'
  BY <1>p, <1>1 DEF Exclusive, Holds, IsConnected, Plain, Control, Separate, LockWaits,
     Goto, Granted, ConnectOk, Unused, Referenced
<1>4. Separate'
  BY <1>p, <1>1 DEF Separate, Plain, Goto, Granted, ConnectOk, Unused, Referenced
<1>5. Control'
  BY <1>p, <1>1 DEF Control, ErrorNeedsClose, GuardPinsConnection, Separate, Exclusive,
     Holds, IsConnected, Plain, ConnectionAssumption, Goto, Granted, ReadWaits, ConnectOk,
     Unused, Referenced
<1> QED BY <1>1, <1>2, <1>3, <1>4, <1>5, PartsNext

\* The step in which connect() returns an error preserves the invariant.
LEMMA ConnectFailsSafe ==
    ASSUME ConnectionAssumption, IInv, NEW p \in Proc, ConnectFails(p)
    PROVE  IInv'
<1>p. Plain /\ Queues /\ Exclusive /\ Separate /\ Control /\ TypeOK
  BY Parts DEF IInv
<1>1. Queues' /\ pc' \in [Proc -> Awaits]
  <2>1. Goto(p, "idle") /\ "idle" \in Awaits
    BY DEF ConnectFails, Awaits, ReadWaits, WriteWaits
  <2> QED BY <1>p, <2>1, QueueStep, LockHead DEF ConnectFails, Granted, Awaits, ReadWaits,
             WriteWaits, RwWaits, LockWaits
<1>2. Plain'
  BY <1>p, <1>1 DEF Plain, ConnectFails
<1>3. Exclusive'
  BY <1>p, <1>1 DEF Exclusive, Holds, IsConnected, Plain, Control, Separate, LockWaits,
     Goto, Granted, ConnectFails
<1>4. Separate'
  BY <1>p, <1>1 DEF Separate, Plain, Goto, Granted, ConnectFails
<1>5. Control'
  BY <1>p, <1>1 DEF Control, ErrorNeedsClose, GuardPinsConnection, Separate, Exclusive,
     Holds, IsConnected, Plain, ConnectionAssumption, Goto, Granted, ReadWaits, ConnectFails
<1> QED BY <1>1, <1>2, <1>3, <1>4, <1>5, PartsNext

\* The step in which connect() stores its connection preserves the invariant.
LEMMA StoreSafe ==
    ASSUME ConnectionAssumption, IInv, NEW p \in Proc, Store(p)
    PROVE  IInv'
<1>p. Plain /\ Queues /\ Exclusive /\ Separate /\ Control /\ TypeOK
  BY Parts DEF IInv
<1>1. Queues' /\ pc' \in [Proc -> Awaits]
  <2>1. CASE p \in manual
    <3>1. Goto(p, "idle") /\ "idle" \in Awaits
      BY <2>1 DEF Store, Awaits, ReadWaits, WriteWaits
    <3> QED BY <1>p, <2>1, <3>1, QueueStep, LockHead DEF Store, Granted, Awaits, ReadWaits,
               WriteWaits, RwWaits, LockWaits
  <2>2. CASE p \notin manual
    <3>1. Goto(p, "pick") /\ "pick" \in Awaits
      BY <2>2 DEF Store, Awaits, ReadWaits, WriteWaits
    <3> QED BY <1>p, <2>2, <3>1, QueueStep, LockHead DEF Store, Granted, Awaits, ReadWaits,
               WriteWaits, RwWaits, LockWaits
  <2> QED BY <2>1, <2>2
<1>2. Plain'
  BY <1>p, <1>1 DEF Plain, Store
<1>3. Exclusive'
  BY <1>p, <1>1 DEF Exclusive, Holds, IsConnected, Plain, Control, Separate, LockWaits,
     Goto, Granted, Store
<1>4. Separate'
  BY <1>p, <1>1 DEF Separate, Plain, Goto, Granted, Store
<1>5. Control'
  BY <1>p, <1>1 DEF Control, ErrorNeedsClose, GuardPinsConnection, Separate, Exclusive,
     Holds, IsConnected, Plain, ConnectionAssumption, Goto, Granted, ReadWaits, Store
<1> QED BY <1>1, <1>2, <1>3, <1>4, <1>5, PartsNext

\* The step in which create_channel() returns without a connection preserves the invariant.
LEMMA NoActiveConnectionSafe ==
    ASSUME ConnectionAssumption, IInv, NEW p \in Proc, NoActiveConnection(p)
    PROVE  IInv'
<1>p. Plain /\ Queues /\ Exclusive /\ Separate /\ Control /\ TypeOK
  BY Parts DEF IInv
<1>1. Queues' /\ pc' \in [Proc -> Awaits]
  <2>1. Goto(p, "idle") /\ "idle" \in Awaits
    BY DEF NoActiveConnection, Awaits, ReadWaits, WriteWaits
  <2> QED BY <1>p, <2>1, QueueStep, LockHead DEF NoActiveConnection, Granted, Awaits,
             ReadWaits, WriteWaits, RwWaits, LockWaits
<1>2. Plain'
  BY <1>p, <1>1 DEF Plain, NoActiveConnection
<1>3. Exclusive'
  BY <1>p, <1>1 DEF Exclusive, Holds, IsConnected, Plain, Control, Separate, LockWaits,
     Goto, Granted, NoActiveConnection
<1>4. Separate'
  BY <1>p, <1>1 DEF Separate, Plain, Goto, Granted, NoActiveConnection
<1>5. Control'
  BY <1>p, <1>1 DEF Control, ErrorNeedsClose, GuardPinsConnection, Separate, Exclusive,
     Holds, IsConnected, Plain, ConnectionAssumption, Goto, Granted, ReadWaits,
     NoActiveConnection
<1> QED BY <1>1, <1>2, <1>3, <1>4, <1>5, PartsNext

\* The step in which create_channel() takes its read guard preserves the invariant.
LEMMA PickSafe ==
    ASSUME ConnectionAssumption, IInv, NEW p \in Proc, Pick(p)
    PROVE  IInv'
<1>p. Plain /\ Queues /\ Exclusive /\ Separate /\ Control /\ TypeOK
  BY Parts DEF IInv
<1>1. Queues' /\ pc' \in [Proc -> Awaits]
  <2>1. Goto(p, "opening") /\ "opening" \in Awaits
    BY DEF Pick, Awaits, ReadWaits, WriteWaits
  <2> QED BY <1>p, <2>1, QueueStep, LockHead DEF Pick, Granted, Awaits, ReadWaits,
             WriteWaits, RwWaits, LockWaits
<1>2. Plain'
  BY <1>p, <1>1 DEF Plain, Pick
<1>3. Exclusive'
  BY <1>p, <1>1 DEF Exclusive, Holds, IsConnected, Plain, Control, Separate, LockWaits,
     Goto, Granted, Pick
<1>4. Separate'
  BY <1>p, <1>1 DEF Separate, Plain, Goto, Granted, Pick
<1>5. Control'
  BY <1>p, <1>1 DEF Control, ErrorNeedsClose, GuardPinsConnection, Separate, Exclusive,
     Holds, IsConnected, Plain, ConnectionAssumption, Goto, Granted, ReadWaits, Pick
<1> QED BY <1>1, <1>2, <1>3, <1>4, <1>5, PartsNext

\* The step in which create_channel() returns preserves the invariant.
LEMMA OpenedSafe ==
    ASSUME ConnectionAssumption, IInv, NEW p \in Proc, Opened(p)
    PROVE  IInv'
<1>p. Plain /\ Queues /\ Exclusive /\ Separate /\ Control /\ TypeOK
  BY Parts DEF IInv
<1>1. Queues' /\ pc' \in [Proc -> Awaits]
  <2>1. Goto(p, "idle") /\ "idle" \in Awaits
    BY DEF Opened, Awaits, ReadWaits, WriteWaits
  <2> QED BY <1>p, <2>1, QueueStep, LockHead DEF Opened, Granted, Awaits, ReadWaits,
             WriteWaits, RwWaits, LockWaits
<1>2. Plain'
  BY <1>p, <1>1 DEF Plain, Opened
<1>3. Exclusive'
  BY <1>p, <1>1 DEF Exclusive, Holds, IsConnected, Plain, Control, Separate, LockWaits,
     Goto, Granted, Opened
<1>4. Separate'
  BY <1>p, <1>1 DEF Separate, Plain, Goto, Granted, Opened
<1>5. Control'
  BY <1>p, <1>1 DEF Control, ErrorNeedsClose, GuardPinsConnection, Separate, Exclusive,
     Holds, IsConnected, Plain, ConnectionAssumption, Goto, Granted, ReadWaits, Opened
<1> QED BY <1>1, <1>2, <1>3, <1>4, <1>5, PartsNext

\* The step in which close() takes the connection preserves the invariant.
LEMMA TakeSafe ==
    ASSUME ConnectionAssumption, IInv, NEW p \in Proc, Take(p)
    PROVE  IInv'
<1>p. Plain /\ Queues /\ Exclusive /\ Separate /\ Control /\ TypeOK
  BY Parts DEF IInv
<1>1. Queues' /\ pc' \in [Proc -> Awaits]
  <2>1. Goto(p, "closing") /\ "closing" \in Awaits
    BY DEF Take, CreatingChannel, Awaits, ReadWaits, WriteWaits
  <2> QED BY <1>p, <2>1, QueueStep, LockHead DEF Take, CreatingChannel, Granted, Awaits,
             ReadWaits, WriteWaits, RwWaits, LockWaits
<1>2. Plain'
  BY <1>p, <1>1 DEF Plain, Take, CreatingChannel
<1>3. Exclusive'
  BY <1>p, <1>1 DEF Exclusive, Holds, IsConnected, Plain, Control, Separate, LockWaits,
     Goto, Granted, Take, CreatingChannel
<1>4. Separate'
  BY <1>p, <1>1 DEF Separate, Plain, Goto, Granted, Take, CreatingChannel
<1>5. Control'
  <2>1. \A q \in manual' : pc'[q] \in {"lock", "connecting", "store"}
    BY <1>p, <1>1 DEF Control, Plain, Goto, Granted, Take
  <2>2. ASSUME NEW q \in Proc, pc'[q] = "pick", q \notin closed' PROVE FALSE
    <3>1. pc[q] = "pick"
      BY <1>p, <2>2 DEF Plain, Goto, Take
    <3>2. q \in CreatingChannel
      BY <1>p, <3>1 DEF CreatingChannel, ReadWaits, Control
    <3> QED BY <2>2, <3>2 DEF Take
  <2>3. guards' = {}
    BY DEF Take, Granted, WriteWaits
  <2> QED BY <2>1, <2>2, <2>3 DEF Control, ErrorNeedsClose, GuardPinsConnection
<1> QED BY <1>1, <1>2, <1>3, <1>4, <1>5, PartsNext

\* The step in which close() finds nothing preserves the invariant.
LEMMA NothingToCloseSafe ==
    ASSUME ConnectionAssumption, IInv, NEW p \in Proc, NothingToClose(p)
    PROVE  IInv'
<1>p. Plain /\ Queues /\ Exclusive /\ Separate /\ Control /\ TypeOK
  BY Parts DEF IInv
<1>1. Queues' /\ pc' \in [Proc -> Awaits]
  <2>1. Goto(p, "idle") /\ "idle" \in Awaits
    BY DEF NothingToClose, Awaits, ReadWaits, WriteWaits
  <2> QED BY <1>p, <2>1, QueueStep, LockHead DEF NothingToClose, Granted, Awaits, ReadWaits,
             WriteWaits, RwWaits, LockWaits
<1>2. Plain'
  BY <1>p, <1>1 DEF Plain, NothingToClose
<1>3. Exclusive'
  BY <1>p, <1>1 DEF Exclusive, Holds, IsConnected, Plain, Control, Separate, LockWaits,
     Goto, Granted, NothingToClose
<1>4. Separate'
  BY <1>p, <1>1 DEF Separate, Plain, Goto, Granted, NothingToClose
<1>5. Control'
  BY <1>p, <1>1 DEF Control, ErrorNeedsClose, GuardPinsConnection, Separate, Exclusive,
     Holds, IsConnected, Plain, ConnectionAssumption, Goto, Granted, ReadWaits,
     NothingToClose
<1> QED BY <1>1, <1>2, <1>3, <1>4, <1>5, PartsNext

\* The step in which close() returns preserves the invariant.
LEMMA ClosedSafe ==
    ASSUME ConnectionAssumption, IInv, NEW p \in Proc, Closed(p)
    PROVE  IInv'
<1>p. Plain /\ Queues /\ Exclusive /\ Separate /\ Control /\ TypeOK
  BY Parts DEF IInv
<1>1. Queues' /\ pc' \in [Proc -> Awaits]
  <2>1. Goto(p, "idle") /\ "idle" \in Awaits
    BY DEF Closed, Awaits, ReadWaits, WriteWaits
  <2> QED BY <1>p, <2>1, QueueStep, LockHead DEF Closed, Granted, Awaits, ReadWaits,
             WriteWaits, RwWaits, LockWaits
<1>2. Plain'
  BY <1>p, <1>1 DEF Plain, Closed
<1>3. Exclusive'
  BY <1>p, <1>1 DEF Exclusive, Holds, IsConnected, Plain, Control, Separate, LockWaits,
     Goto, Granted, Closed
<1>4. Separate'
  BY <1>p, <1>1 DEF Separate, Plain, Goto, Granted, Closed
<1>5. Control'
  BY <1>p, <1>1 DEF Control, ErrorNeedsClose, GuardPinsConnection, Separate, Exclusive,
     Holds, IsConnected, Plain, ConnectionAssumption, Goto, Granted, ReadWaits, Closed
<1> QED BY <1>1, <1>2, <1>3, <1>4, <1>5, PartsNext

\* A lost connection preserves the invariant.
LEMMA ConnectionDropsSafe ==
    ASSUME ConnectionAssumption, IInv, NEW c \in Conn, ConnectionDrops(c)
    PROVE  IInv'
<1>p. Plain /\ Queues /\ Exclusive /\ Separate /\ Control
  BY Parts
<1>1. Plain' /\ Queues'
  BY <1>p DEF Plain, Queues, ConnectionDrops, ToSet, IsInjective
<1>2. Exclusive' /\ Separate' /\ Control'
  BY <1>p DEF Exclusive, Holds, IsConnected, Separate, Control, ErrorNeedsClose,
              GuardPinsConnection, ConnectionDrops
<1> QED BY <1>1, <1>2, PartsNext

\* So does a stutter.
LEMMA StutterSafe == ASSUME IInv, UNCHANGED vars PROVE IInv'
<1>p. Plain /\ Queues /\ Exclusive /\ Separate /\ Control
  BY Parts
<1>1. Plain' /\ Queues'
  BY <1>p DEF Plain, Queues, vars, ToSet, IsInjective
<1>2. Exclusive' /\ Separate' /\ Control'
  BY <1>p DEF Exclusive, Holds, IsConnected, Separate, Control, ErrorNeedsClose,
              GuardPinsConnection, vars
<1> QED BY <1>1, <1>2, PartsNext

\* with_config() establishes it.
LEMMA InitIInv == ASSUME ConnectionAssumption, Init PROVE IInv
<1>1. ToSet(<<>>) = {} /\ IsInjective(<<>>)
  BY DEF ToSet, IsInjective
<1>2. Plain /\ Queues
  BY <1>1 DEF Init, Plain, Queues, Awaits, ReadWaits, WriteWaits, RwWaits, LockWaits
<1>3. Exclusive /\ Separate /\ Control
  BY DEF Init, Exclusive, Holds, IsConnected, Separate, Control, ErrorNeedsClose,
         GuardPinsConnection
<1> QED BY <1>2, <1>3, Parts

\* Every step preserves it.
LEMMA NextIInv == ASSUME ConnectionAssumption, IInv, [Next]_vars PROVE IInv'
<1>1. CASE UNCHANGED vars
  BY <1>1, StutterSafe
<1>2. ASSUME NEW c \in Conn, ConnectionDrops(c) PROVE IInv'
  BY <1>2, ConnectionDropsSafe
<1>3. ASSUME NEW p \in Proc, CreateChannel(p) \/ Reconnect(p) \/ Close(p) PROVE IInv'
  BY <1>3, CreateChannelSafe, ReconnectSafe, CloseSafe
<1>4. ASSUME NEW p \in Proc, Step(p) PROVE IInv'
  BY <1>4, CheckSafe, LockedSafe, RecheckSafe, ConnectOkSafe, ConnectFailsSafe, StoreSafe,
     NoActiveConnectionSafe, PickSafe, OpenedSafe, TakeSafe, NothingToCloseSafe, ClosedSafe
     DEF Step
<1> QED BY <1>1, <1>2, <1>3, <1>4 DEF Next

-----------------------------------------------------------------------------
(* Who holds the guards, and what the queues wait for. *)

\* Every step takes and drops the guards with the await they are held over.
LEMMA HoldersStep ==
    ASSUME ConnectionAssumption, IInv, Holders, [Next]_vars
    PROVE  Holders'
<1>p. Plain
  BY Parts
<1>1. CASE UNCHANGED vars
  BY <1>1 DEF Holders, vars
<1>2. ASSUME NEW c \in Conn, ConnectionDrops(c) PROVE Holders'
  BY <1>2 DEF Holders, ConnectionDrops
<1>3. ASSUME NEW p \in Proc, CreateChannel(p) \/ Reconnect(p) \/ Close(p) PROVE Holders'
  BY <1>3, <1>p DEF Holders, Plain, CreateChannel, Reconnect, Close, Call, Goto
<1>4. ASSUME NEW p \in Proc, Step(p) PROVE Holders'
  <2> USE <1>p DEF Holders, Plain, Goto
  <2>1. CASE Check(p) \/ Locked(p) \/ Recheck(p)
    BY <2>1 DEF Check, Locked, Recheck, Granted
  <2>2. CASE ConnectOk(p) \/ ConnectFails(p) \/ Store(p)
    BY <2>2 DEF ConnectOk, ConnectFails, Store, Granted
  <2>3. CASE NoActiveConnection(p) \/ NothingToClose(p)
    BY <2>3 DEF NoActiveConnection, NothingToClose, Granted
  <2>4. CASE Pick(p)
    BY <2>4 DEF Pick, Granted
  <2>5. CASE Opened(p)
    BY <2>5 DEF Opened
  <2>6. CASE Take(p)
    BY <2>6, ConnectionAssumption DEF Take, Granted, ConnectionAssumption
  <2>7. CASE Closed(p)
    BY <2>7, ConnectionAssumption DEF Closed, ConnectionAssumption
  <2> QED BY <1>4, <2>1, <2>2, <2>3, <2>4, <2>5, <2>6, <2>7 DEF Step
<1> QED BY <1>1, <1>2, <1>3, <1>4 DEF Next

\* A task first in line for a guard has it, or lapin owes the holders an answer.
LEMMA GuardComes ==
    ASSUME IInv, Holders, rwQueue # <<>>
    PROVE  \E p \in {Head(rwQueue), writer} \cup guards : p \in Proc /\ CanStep(p)
<1>p. Plain /\ Queues
  BY Parts
<1> DEFINE h == Head(rwQueue)
<1>1. h \in Proc /\ pc[h] \in ReadWaits \cup WriteWaits
  BY <1>p, Leaves DEF Queues, RwWaits
<1>2. CASE writer \in Proc
  BY <1>2 DEF Holders, CanStep
<1>3. CASE guards # {}
  BY <1>3, <1>p DEF Holders, CanStep, Plain
<1>4. CASE writer = None /\ guards = {}
  <2>1. Granted(h, pc[h])
    BY <1>1, <1>4 DEF Granted
  <2> QED BY <1>1, <2>1 DEF CanStep
<1> QED BY <1>2, <1>3, <1>4, <1>p DEF Plain

\* The task first in line for reconnect_lock has it, or holds it and connects
\* or waits for a guard.
LEMMA LockComes ==
    ASSUME IInv, lockQueue # <<>>
    PROVE  CanStep(Head(lockQueue)) \/ Head(lockQueue) \in ToSet(rwQueue)
<1>p. Queues
  BY Parts
<1> DEFINE h == Head(lockQueue)
<1>1. h \in Proc /\ pc[h] \in LockWaits
  BY <1>p, Leaves DEF Queues
<1>2. CASE pc[h] \in {"lock", "connecting"}
  BY <1>2 DEF CanStep
<1>3. CASE pc[h] \in {"recheck", "store"}
  BY <1>1, <1>3, <1>p DEF Queues, RwWaits, ReadWaits, WriteWaits
<1> QED BY <1>1, <1>2, <1>3 DEF LockWaits

-----------------------------------------------------------------------------
(* The theorems. *)

\* The two locks, the stored connection and the ones in the tasks' hands stay
\* as IInv says, whatever calls interleave and whatever connections are lost.
THEOREM Invariance == Spec => []IInv
<1>1. Init => IInv
  BY ConnectionAssumption, InitIInv
<1>2. IInv /\ [Next]_vars => IInv'
  BY ConnectionAssumption, NextIInv
<1> QED BY <1>1, <1>2, PTL DEF Spec

\* Every variable keeps its type, and each queue holds the tasks that wait in it.
THEOREM TypeCorrect == Spec => []TypeOK
<1>1. IInv => TypeOK
  BY DEF IInv
<1> QED BY <1>1, Invariance, PTL

\* create_channel() reports "No active connection" only if a close() overlapped
\* with the call (connection.rs:111-122).
THEOREM ErrorsComeFromClose == Spec => []ErrorNeedsClose
<1>1. IInv => ErrorNeedsClose
  BY DEF IInv
<1> QED BY <1>1, Invariance, PTL

\* While a channel is opened its connection is the stored one and in nobody
\* else's hands (connection.rs:113-117, 134-136).
THEOREM GuardsPin == Spec => []GuardPinsConnection
<1>1. IInv => GuardPinsConnection
  BY DEF IInv
<1> QED BY <1>1, Invariance, PTL

\* However many callers find the connection lost, the one that connects replaces
\* a dead connection (connection.rs:175-187).
THEOREM ReplacesOnlyLost == Spec => NoNeedlessReplacement
<1>1. ASSUME IInv, NEW p \in Proc, pc[p] = "store", p \notin manual
      PROVE  ~IsConnected
  BY <1>1 DEF IInv, Exclusive
<1>2. IInv /\ [Next]_vars =>
        [\A p \in Proc : pc[p] = "store" /\ pc'[p] # "store" /\ p \notin manual
            => ~IsConnected]_vars
  BY <1>1
<1> QED BY <1>2, Invariance, PTL DEF Spec, NoNeedlessReplacement

\* The two locks never wait for each other: what a queue waits for is always on
\* its way, for any number of callers (connection.rs:99-187).
THEOREM LocksNeverDeadlock == Spec => []NoDeadlock
<1>1. Init => Holders
  BY ConnectionAssumption DEF Init, Holders, ConnectionAssumption
<1>2. IInv /\ Holders /\ [Next]_vars => Holders'
  BY ConnectionAssumption, HoldersStep
<1>3. IInv /\ Holders => NoDeadlock
  BY GuardComes, LockComes DEF NoDeadlock
<1> QED BY <1>1, <1>2, <1>3, Invariance, PTL DEF Spec
=============================================================================
