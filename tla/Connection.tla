----------------------------- MODULE Connection -----------------------------
(***************************************************************************)
(* Connection of src/connection.rs: several tasks of one process call      *)
(* create_channel(), reconnect() and close() on a shared Arc<Connection>.  *)
(* The lapin connection sits in a tokio RwLock (inner); connecting is      *)
(* serialised by a tokio Mutex (reconnect_lock).  Both locks are fair: a   *)
(* request waits in a queue, and a queued writer holds back later readers. *)
(*                                                                         *)
(* is_connected() takes the read guard and drops it without an await in    *)
(* between, so its step is the grant.  create_channel() keeps the read     *)
(* guard while lapin opens the channel, and close() the write guard while  *)
(* lapin closes the connection.                                            *)
(***************************************************************************)
EXTENDS Naturals, SequencesExt

CONSTANTS
    Proc,     \* tasks that share the connection
    Conn,     \* ids of lapin connections; an id nothing refers to is used again
    None

ASSUME ConnectionAssumption == None \notin Conn /\ None \notin Proc

VARIABLES
    pc,        \* the await each task has reached
    manual,    \* tasks in a call of reconnect()
    inner,     \* the stored lapin connection, or None
    up,        \* connections whose status is connected
    local,     \* the connection a task is about to store or to close
    guards,    \* tasks that hold a read guard over an await
    writer,    \* the task that holds the write guard over an await, or None
    rwQueue,   \* tasks that wait for a guard, first come first served
    lockQueue, \* reconnect_lock: the head holds it, the rest wait
    closed     \* tasks in a create_channel() during which a close() took the connection

vars == <<pc, manual, inner, up, local, guards, writer, rwQueue, lockQueue, closed>>

ReadWaits == {"check", "recheck", "pick"}
WriteWaits == {"store", "take"}
Awaits == ReadWaits \cup WriteWaits \cup {"idle", "lock", "connecting", "opening", "closing"}

TypeOK ==
    /\ pc \in [Proc -> Awaits]
    /\ manual \subseteq Proc
    /\ inner \in Conn \cup {None}
    /\ up \subseteq Conn
    /\ local \in [Proc -> Conn \cup {None}]
    /\ guards \subseteq Proc
    /\ writer \in Proc \cup {None}
    /\ rwQueue \in Seq(Proc)
    /\ lockQueue \in Seq(Proc)
    /\ closed \subseteq Proc
    \* The queues hold exactly the tasks whose await says so, once each.
    /\ IsInjective(rwQueue) /\ IsInjective(lockQueue)
    /\ ToSet(rwQueue) = {p \in Proc : pc[p] \in ReadWaits \cup WriteWaits}
    /\ ToSet(lockQueue) =
          {p \in Proc : pc[p] \in {"lock", "recheck", "connecting", "store"}}

Init ==
    /\ pc = [p \in Proc |-> "idle"]
    /\ manual = {}
    /\ \E c \in Conn : inner = c /\ up = {c}     \* Connection::with_config connects
    /\ local = [p \in Proc |-> None]
    /\ guards = {}
    /\ writer = None
    /\ rwQueue = <<>>
    /\ lockQueue = <<>>
    /\ closed = {}

-----------------------------------------------------------------------------
IsConnected == inner \in up

\* The guard p waits for is granted to it.
Granted(p, await) ==
    /\ pc[p] = await
    /\ rwQueue # <<>> /\ Head(rwQueue) = p
    /\ writer = None
    /\ await \in WriteWaits => guards = {}

Goto(p, await) == pc' = [pc EXCEPT ![p] = await]

\* p leaves the head of the queue, or goes on to wait at its end again.
Leave == rwQueue' = Tail(rwQueue)
WaitAgain(p) == rwQueue' = Append(Tail(rwQueue), p)
Wait(p) == rwQueue' = Append(rwQueue, p)

Lock(p) == lockQueue' = Append(lockQueue, p)
Unlock == lockQueue' = Tail(lockQueue)

\* Tasks in create_channel that have not picked a connection yet.
CreatingChannel ==
    {p \in Proc \ manual : pc[p] \in ReadWaits \cup {"lock", "connecting", "store"}}

\* Connections some task or the Connection itself refers to.
Referenced == {inner} \cup {local[p] : p \in Proc}

\* Ids for a new connection; only the bound on Conn can leave none.
Unused == Conn \ Referenced

-----------------------------------------------------------------------------
(* Calls. *)

Call(p, await) ==
    /\ pc[p] = "idle"
    /\ Goto(p, await)
    /\ UNCHANGED <<inner, up, local, guards, writer, closed>>

CreateChannel(p) == Call(p, "check") /\ Wait(p) /\ UNCHANGED <<manual, lockQueue>>
Close(p) == Call(p, "take") /\ Wait(p) /\ UNCHANGED <<manual, lockQueue>>
Reconnect(p) ==
    /\ Call(p, "lock") /\ Lock(p)
    /\ manual' = manual \cup {p}
    /\ UNCHANGED rwQueue

(* ensure_connected. *)

\* Mutant: the read guard lives to the end of the if-let, across the reconnect.
CheckKeepsGuard(p) ==
    /\ Granted(p, "check")
    /\ IF IsConnected
       THEN Goto(p, "pick") /\ WaitAgain(p) /\ UNCHANGED <<guards, lockQueue>>
       ELSE Goto(p, "lock") /\ Leave /\ Lock(p) /\ guards' = guards \cup {p}
    /\ UNCHANGED <<manual, inner, up, local, writer, closed>>

Check(p) ==
    /\ Granted(p, "check")
    /\ IF IsConnected
       THEN Goto(p, "pick") /\ WaitAgain(p) /\ UNCHANGED lockQueue
       ELSE Goto(p, "lock") /\ Leave /\ Lock(p)
    /\ UNCHANGED <<manual, inner, up, local, guards, writer, closed>>

\* reconnect_lock is acquired: create_channel looks again, reconnect does not.
Locked(p) ==
    /\ pc[p] = "lock"
    /\ lockQueue # <<>> /\ Head(lockQueue) = p
    /\ IF p \in manual
       THEN Goto(p, "connecting") /\ UNCHANGED rwQueue
       ELSE Goto(p, "recheck") /\ Wait(p)
    /\ UNCHANGED <<manual, inner, up, local, guards, writer, lockQueue, closed>>

\* Mutant: the lock is not followed by a second look.
RecheckSkipped(p) ==
    /\ Granted(p, "recheck")
    /\ Goto(p, "connecting") /\ Leave
    /\ UNCHANGED <<manual, inner, up, local, guards, writer, lockQueue, closed>>

Recheck(p) ==
    /\ Granted(p, "recheck")
    /\ IF IsConnected
       THEN Goto(p, "pick") /\ WaitAgain(p) /\ Unlock
       ELSE Goto(p, "connecting") /\ Leave /\ UNCHANGED lockQueue
    /\ UNCHANGED <<manual, inner, up, local, guards, writer, closed>>

(* connect, under reconnect_lock. *)

ConnectOk(p) ==
    /\ pc[p] = "connecting"
    /\ Unused # {}
    /\ LET c == CHOOSE x \in Unused : TRUE
       IN  /\ local' = [local EXCEPT ![p] = c]
           /\ up' = up \cup {c}
    /\ Goto(p, "store") /\ Wait(p)
    /\ UNCHANGED <<manual, inner, guards, writer, lockQueue, closed>>

\* Mutants: the error is not returned to the caller, the lock is not released.
ConnectErrorIgnored(p) ==
    /\ pc[p] = "connecting"
    /\ Goto(p, "pick") /\ Wait(p) /\ Unlock
    /\ UNCHANGED <<manual, inner, up, local, guards, writer, closed>>

ConnectFailsLocked(p) ==
    /\ pc[p] = "connecting"
    /\ Goto(p, "idle")
    /\ UNCHANGED <<manual, inner, up, local, guards, writer, rwQueue, lockQueue, closed>>

\* The attempt fails or the timeout cuts it off: the call returns the error.
ConnectFails(p) ==
    /\ pc[p] = "connecting"
    /\ Goto(p, "idle") /\ Unlock
    /\ manual' = manual \ {p} /\ closed' = closed \ {p}
    /\ UNCHANGED <<inner, up, local, guards, writer, rwQueue>>

Store(p) ==
    /\ Granted(p, "store")
    /\ inner' = local[p]
    /\ up' = up \ {inner}     \* what it replaces is out of everybody's reach
    /\ local' = [local EXCEPT ![p] = None]
    /\ Unlock
    /\ manual' = manual \ {p}
    /\ IF p \in manual
       THEN Goto(p, "idle") /\ Leave
       ELSE Goto(p, "pick") /\ WaitAgain(p)
    /\ UNCHANGED <<guards, writer, closed>>

(* The rest of create_channel. *)

NoActiveConnection(p) ==
    /\ Granted(p, "pick")
    /\ inner = None
    /\ Goto(p, "idle") /\ Leave
    /\ closed' = closed \ {p}
    /\ UNCHANGED <<manual, inner, up, local, guards, writer, lockQueue>>

Pick(p) ==
    /\ Granted(p, "pick")
    /\ inner # None
    /\ guards' = guards \cup {p}
    /\ Goto(p, "opening") /\ Leave
    /\ closed' = closed \ {p}
    /\ UNCHANGED <<manual, inner, up, local, writer, lockQueue>>

\* lapin's create_channel returns, with a channel or with an error.
Opened(p) ==
    /\ pc[p] = "opening"
    /\ guards' = guards \ {p}
    /\ Goto(p, "idle")
    /\ UNCHANGED <<manual, inner, up, local, writer, rwQueue, lockQueue, closed>>

(* close. *)

\* Mutant: close() leaves the connection in place and drops the guard first.
TakeShared(p) ==
    /\ Granted(p, "take")
    /\ inner # None
    /\ local' = [local EXCEPT ![p] = inner]
    /\ closed' = closed \cup CreatingChannel
    /\ Goto(p, "closing") /\ Leave
    /\ UNCHANGED <<manual, inner, up, guards, writer, lockQueue>>

Take(p) ==
    /\ Granted(p, "take")
    /\ inner # None
    /\ local' = [local EXCEPT ![p] = inner]
    /\ inner' = None
    /\ writer' = p
    /\ closed' = closed \cup CreatingChannel
    /\ Goto(p, "closing") /\ Leave
    /\ UNCHANGED <<manual, up, guards, lockQueue>>

NothingToClose(p) ==
    /\ Granted(p, "take")
    /\ inner = None
    /\ Goto(p, "idle") /\ Leave
    /\ UNCHANGED <<manual, inner, up, local, guards, writer, lockQueue, closed>>

\* lapin's close returns, with or without an error, and the guard is dropped.
Closed(p) ==
    /\ pc[p] = "closing"
    /\ up' = up \ {local[p]}
    /\ local' = [local EXCEPT ![p] = None]
    /\ writer' = None
    /\ Goto(p, "idle")
    /\ UNCHANGED <<manual, inner, guards, rwQueue, lockQueue, closed>>

\* The network or the broker ends a connection.
ConnectionDrops(c) ==
    /\ c \in up
    /\ up' = up \ {c}
    /\ UNCHANGED <<pc, manual, inner, local, guards, writer, rwQueue, lockQueue, closed>>

-----------------------------------------------------------------------------
Step(p) ==
    \/ Check(p) \/ Locked(p) \/ Recheck(p)
    \/ ConnectOk(p) \/ ConnectFails(p) \/ Store(p)
    \/ NoActiveConnection(p) \/ Pick(p) \/ Opened(p)
    \/ Take(p) \/ NothingToClose(p) \/ Closed(p)

Next ==
    \/ \E p \in Proc : CreateChannel(p) \/ Reconnect(p) \/ Close(p) \/ Step(p)
    \/ \E c \in Conn : ConnectionDrops(c)

\* Tasks are scheduled, and lapin's connect (bounded by connection_timeout),
\* create_channel and close return.  Nobody has to make calls.
Spec == Init /\ [][Next]_vars /\ \A p \in Proc : WF_vars(Step(p))

-----------------------------------------------------------------------------
(* Properties. *)

\* After a loss the waiting callers share one new connection: ensure_connected
\* replaces a live connection never, however its callers, reconnect() and close()
\* interleave (connection.rs:175-187).  reconnect() does so on purpose.
NoNeedlessReplacement ==
    [][\A p \in Proc : pc[p] = "store" /\ pc'[p] # "store" /\ p \notin manual
            => ~IsConnected]_vars

\* create_channel reports "No active connection" only if a close() took the
\* connection while the call was running: between ensure_connected and the
\* second read of inner nothing else can empty it (connection.rs:111-122).
ErrorNeedsClose ==
    \A p \in Proc : pc[p] = "pick" /\ p \notin closed => inner # None

\* A guard held over an await pins the connection: the channel is opened on the
\* stored one, and no connection is closed under a caller that is using it.
GuardPinsConnection ==
    guards # {} => inner # None /\ writer = None /\ \A p \in Proc : local[p] # inner

\* p waits for lapin only, or what it waits for is granted to it.
CanStep(p) ==
    \/ pc[p] \in {"connecting", "opening", "closing"}
    \/ pc[p] = "lock" /\ lockQueue # <<>> /\ Head(lockQueue) = p
    \/ \E await \in ReadWaits \cup WriteWaits : Granted(p, await)

\* The two locks never wait for each other, though ensure_connected() takes the
\* read guard and connect() the write guard under reconnect_lock: whoever is first
\* in line for a guard goes on or waits for lapin to answer a holder of one, and
\* whoever is first in line for reconnect_lock goes on or waits for a guard
\* (connection.rs:99-187).
NoDeadlock ==
    /\ rwQueue # <<>> =>
          \E p \in {Head(rwQueue), writer} \cup guards : p \in Proc /\ CanStep(p)
    /\ lockQueue # <<>> =>
          CanStep(Head(lockQueue)) \/ Head(lockQueue) \in ToSet(rwQueue)

\* Every call returns: the two locks never wait for each other, and a caller
\* whose connect fails lets the next one try.
CallsReturn == \A p \in Proc : pc[p] # "idle" ~> pc[p] = "idle"

-----------------------------------------------------------------------------
(* The inductive invariant behind the safety properties. *)

\* The tasks that hold reconnect_lock.
Holds(p) == pc[p] \in {"recheck", "connecting", "store"}

\* reconnect_lock belongs to the head of its queue, and while a caller of
\* create_channel connects under it, nobody brings a connection up.
Exclusive ==
    \A p \in Proc :
        /\ Holds(p) => lockQueue # <<>> /\ Head(lockQueue) = p
        /\ pc[p] \in {"connecting", "store"} /\ p \notin manual => ~IsConnected

\* A connection is in one hand: stored, or with one task.
Separate ==
    \A p \in Proc :
        /\ pc[p] = "store" => local[p] # None
        /\ local[p] # None => local[p] # inner
        /\ \A q \in Proc \ {p} : local[p] # None => local[p] # local[q]

\* A guard is held over lapin's answer and no longer.
Holders ==
    /\ guards = {p \in Proc : pc[p] = "opening"}
    /\ \A p \in Proc : writer = p <=> pc[p] = "closing"

IInv ==
    /\ TypeOK /\ Exclusive /\ Separate
    /\ \A p \in manual : pc[p] \in {"lock", "connecting", "store"}
    /\ ErrorNeedsClose /\ GuardPinsConnection
=============================================================================
