----------------------------- MODULE SharedQueue ------------------------------
(***************************************************************************)
(* The sharedQueue of objects/core/sharedQueue.self: a list under a lock,  *)
(* and a semaphore of capacity 1 on which all wait that found it empty.    *)
(* A remover that finds it empty leaves word in count, gives up the lock   *)
(* and waits; an adder that finds such word signals, once.                 *)
(*                                                                         *)
(* The lock is a recursiveSemaphore, so that the queue can be printed by   *)
(* who holds it; add: and removeFirst do not use that.  An operation of    *)
(* the list is two steps, one that reads it and one that writes it: only   *)
(* the lock makes them one.                                                *)
(***************************************************************************)
EXTENDS Semaphores, FiniteSets

CONSTANTS
  Adders,    \* the processes that send add:, each its own element
  Removers,  \* the processes that send removeFirst
  none       \* no element

lockSema  == "lockSema"
blockSema == "blockSema"

ASSUME SharedQueueAssumption ==
  /\ Semas = {lockSema, blockSema}
  /\ nullSemaphore \notin Semas
  /\ Procs = Adders \cup Removers
  /\ Adders \cap Removers = {} /\ IsFiniteSet(Removers)
  /\ Procs \cap Semas = {}
  /\ none \notin Adders

VARIABLES
  rep,    \* sharedQueue.self
  count,  \* sharedQueue.self: the removers that found rep empty
  pc,     \* what the process is in the middle of
  seen,   \* what the operation of the list that the process is in has read
  taken   \* the element that a remover has taken and not handled yet

queueVars == <<rep, count, seen, taken>>

(***************************************************************************)
(* pc of an adder:                                                         *)
(*   "added"      it is not in add:                                        *)
(*   "add"        lockSema wait is next                                    *)
(*   "adding", "linking", "signalling", "leaving"   in protectNoNLR:       *)
(* of a remover:                                                           *)
(*   "removed"    it is not in removeFirst                                 *)
(*   "remove"     the first lockSema wait is next                          *)
(*   "removing", "unlinking", "leavingDone", "leavingEmpty"                *)
(*                in the first protectNoNLR:                               *)
(*   "blocking", "waiting"     blockSema wait is next, has been sent       *)
(*   "lowering", "leavingLow"  in the second protectNoNLR:                 *)
(*   "dead"                                                                *)
(***************************************************************************)
Goto(p, c) == pc' = [pc EXCEPT ![p] = c]

At(p, c) == CanRun(p) /\ pc[p] = c

\* wait and signal, on the way from c to d.
WaitOn(p, s, c, d) ==
  /\ At(p, c)
  /\ sema' = Waited(sema, s, p)
  /\ Goto(p, d)
  /\ UNCHANGED <<suspendedOn, queueVars>>

SignalTo(p, s, c, d) ==
  /\ At(p, c)
  /\ sema' = Signalled(sema, s)
  /\ Goto(p, d)
  /\ UNCHANGED <<suspendedOn, queueVars>>

Read(p) == seen' = [seen EXCEPT ![p] = rep]
Forgets(p) == seen' = [seen EXCEPT ![p] = <<>>]
-----------------------------------------------------------------------------
\* add: (addOperation:).
EnterAdd(p) == WaitOn(p, lockSema, "add", "adding")

Adding(p) ==
  /\ At(p, "adding")
  /\ Read(p)
  /\ Goto(p, "linking")
  /\ UNCHANGED <<sema, suspendedOn, rep, count, taken>>

Link(p) ==
  /\ At(p, "linking")
  /\ rep' = Append(seen[p], p)
  /\ Forgets(p)
  /\ Goto(p, "signalling")
  /\ UNCHANGED <<sema, suspendedOn, count, taken>>

\* Mutant: an adder that wakes nobody if it is only one.
MoreThanOneWaits == 1 < count

SomeoneWaits == 0 < count

SignalWaiter(p) ==
  /\ At(p, "signalling")
  /\ sema' = IF SomeoneWaits THEN Signalled(sema, blockSema) ELSE sema
  /\ Goto(p, "leaving")
  /\ UNCHANGED <<suspendedOn, queueVars>>

LeaveAdd(p) == SignalTo(p, lockSema, "leaving", "added")

-----------------------------------------------------------------------------
\* removeFirst (removeFirstOrLast:).
EnterRemove(p) == WaitOn(p, lockSema, "remove", "removing")

Removing(p) ==
  /\ At(p, "removing")
  /\ IF rep # <<>>
     THEN Read(p) /\ Goto(p, "unlinking") /\ UNCHANGED count
     ELSE count' = 1 + count /\ Goto(p, "leavingEmpty") /\ UNCHANGED seen
  /\ UNCHANGED <<sema, suspendedOn, rep, taken>>

Unlink(p) ==
  /\ At(p, "unlinking")
  /\ taken' = [taken EXCEPT ![p] = Head(seen[p])]
  /\ rep' = Tail(seen[p])
  /\ Forgets(p)
  /\ Goto(p, "leavingDone")
  /\ UNCHANGED <<sema, suspendedOn, count>>

LeaveDone(p) == SignalTo(p, lockSema, "leavingDone", "removed")
LeaveEmpty(p) == SignalTo(p, lockSema, "leavingEmpty", "blocking")

Block(p) == WaitOn(p, blockSema, "blocking", "waiting")
EnterLower(p) == WaitOn(p, lockSema, "waiting", "lowering")

Lower(p) ==
  /\ At(p, "lowering")
  /\ count' = count - 1
  /\ Goto(p, "leavingLow")
  /\ UNCHANGED <<sema, suspendedOn, rep, seen, taken>>

LeaveLow(p) == SignalTo(p, lockSema, "leavingLow", "remove")

-----------------------------------------------------------------------------
QueueInit ==
  /\ sema = [s \in Semas |-> [count |-> IF s = lockSema THEN 1 ELSE 0, queue |-> <<>>]]
  /\ suspendedOn = [p \in {} |-> nullSemaphore]
  /\ rep = <<>>
  /\ count = 0
  /\ seen = [p \in Procs |-> <<>>]
  /\ taken = [p \in Removers |-> none]

QueueStep(p) ==
  \/ /\ p \in Adders
     /\ EnterAdd(p) \/ Adding(p) \/ Link(p) \/ SignalWaiter(p) \/ LeaveAdd(p)
  \/ /\ p \in Removers
     /\ \/ EnterRemove(p) \/ Removing(p) \/ Unlink(p) \/ LeaveDone(p)
        \/ LeaveEmpty(p) \/ Block(p) \/ EnterLower(p) \/ Lower(p) \/ LeaveLow(p)

\* What leaves the queue came in that order and goes to one process each:
\* rep and the elements taken from it behave as AbstractQueue.
Queue == INSTANCE AbstractQueue WITH
           Elements <- Adders, Takers <- Removers, items <- rep
IsQueue == Queue!Spec
=============================================================================
