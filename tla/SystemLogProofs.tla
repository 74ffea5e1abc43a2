-------------------------- MODULE SystemLogProofs ----------------------------
(***************************************************************************)
(* Proofs about SystemLog, and the SharedQueue in it, for any number of    *)
(* processes that log and that handle what is logged: what goes through    *)
(* the queue comes out in order and once, and, if hup is not sent while a  *)
(* handler is being started, no entry is left with all handlers asleep.    *)
(*                                                                         *)
(* The argument for the order: one process at most is inside the lock      *)
(* (LockOK), so that what an operation of the list has read is still what  *)
(* is there when it writes (ListOK).                                       *)
(*                                                                         *)
(* The argument against sleep: count is at least the number of handlers on *)
(* their way to sleep (CountOK), so that an adder that signals for nobody  *)
(* has a handler awake.  Looked says who will look at the queue next: a    *)
(* handler awake, one for whom there is a permit, or one that hup is about *)
(* to start.  The last exempts hup's logger from the rest, but not while   *)
(* another is about to give it a handler that may sleep by then: AbortOK   *)
(* says why there is none when hup aborts the one it found.                *)
(***************************************************************************)
EXTENDS SystemLog, Lemmas

\* The semaphores of the queue are sound, and those of them with a permit.
Sound(st) == SemaOK(st, Semas, Procs)
Permits(st) == Counted(st, Semas)

LoggerPCs == Starting \cup {"added", "add", "adding", "linking", "signalling", "leaving"}
HandlerPCs == {"removed", "remove", "removing", "unlinking", "leavingDone",
               "leavingEmpty", "blocking", "waiting", "lowering", "leavingLow", "dead"}

PcOK ==
  /\ pc \in [Procs -> LoggerPCs \cup HandlerPCs]
  /\ \A u \in Loggers : pc[u] \in LoggerPCs
  /\ \A h \in Handlers : pc[h] \in HandlerPCs

Types ==
  /\ PcOK
  /\ Sound(sema)
  /\ rep \in Seq(Adders) /\ count \in Int
  /\ seen \in [Procs -> Seq(Adders)]
  /\ taken \in [Handlers -> Adders \cup {none}]

LogTypes ==
  /\ running \in Handlers \cup {deadProcess}
  /\ proc \in [Loggers -> Handlers \cup {deadProcess}]

\* Who is queued is where that wait is; only handlers of entries break.
QueuesOK ==
  /\ \A p \in Queued(sema, lockSema) : pc[p] \in {"adding", "removing", "lowering"}
  /\ \A p \in Queued(sema, blockSema) : pc[p] = "waiting"
  /\ blockSema \in Permits(sema) => Queued(sema, blockSema) = {}
  /\ \A h \in Suspended : /\ h \in Handlers /\ pc[h] = "removed"
                          /\ suspendedOn[h] = nullSemaphore

\* Inside protectNoNLR:, with the lock.
Inside(p) ==
  \/ pc[p] \in {"linking", "signalling", "leaving", "unlinking", "leavingDone",
                "leavingEmpty", "leavingLow"}
  \/ pc[p] \in {"adding", "removing", "lowering"} /\ p \notin Queued(sema, lockSema)

LockOK ==
  /\ \A p, q \in Procs : Inside(p) /\ Inside(q) => p = q
  /\ lockSema \in Permits(sema) =>
       Queued(sema, lockSema) = {} /\ \A p \in Procs : ~Inside(p)

ListOK ==
  /\ \A p \in Procs : pc[p] \in {"linking", "unlinking"} => seen[p] = rep
  /\ \A h \in Handlers : /\ pc[h] = "unlinking" => rep # <<>>
                         /\ pc[h] \notin {"leavingDone", "removed"} => taken[h] = none

\* Those that count stands for.
Counting == {h \in Handlers : pc[h] \in {"leavingEmpty", "blocking", "waiting", "lowering"}}
CountOK == Cardinality(Counting) <= count

\* Whom a logger is about to make running is alive, and nobody else knows it.
StartOK ==
  \A v \in Loggers : pc[v] \in {"assign", "reassign"} =>
    /\ IsAlive(proc[v]) /\ running # proc[v]
    /\ \A u \in Loggers \ {v} : proc[u] # proc[v]

\* While hup is about to abort a process that is alive, that one is running,
\* and nobody starts another.
AbortOK ==
  \A u \in Loggers : pc[u] = "abort" /\ IsAlive(proc[u]) =>
    running = proc[u] /\ \A v \in Loggers \ {u} : pc[v] \notin Starting

SomeAlive == \E h \in Handlers : IsAlive(h)
Replacing(u) == pc[u] \in {"forget", "check", "restart"}

\* Who adds an entry has made sure that somebody handles it.
AliveOK ==
  (\E v \in Loggers : pc[v] \in {"add", "adding", "linking", "signalling"}) =>
    SomeAlive \/ \E u \in Loggers : Replacing(u)

\* h comes back to look at the queue without being woken.
Looks(h) ==
  /\ IsAlive(h) /\ pc[h] \notin {"leavingEmpty", "blocking"}
  /\ pc[h] = "waiting" => h \notin Queued(sema, blockSema)

\* hup will start a handler whatever else happens.
WillStart ==
  /\ \E u \in Loggers : Replacing(u)
  /\ \A v \in Loggers : /\ pc[v] \notin {"assign", "reassign"}
                        /\ pc[v] = "check" => ~IsAlive(running)

Looked ==
  rep # <<>> =>
    \/ \E u \in Loggers : pc[u] = "signalling"
    \/ WillStart
    \/ \E h \in Handlers : Looks(h)
    \/ blockSema \in Permits(sema) /\ SomeAlive

QueueInv == Types /\ QueuesOK /\ LockOK /\ ListOK
WakeInv == QueueInv /\ LogTypes /\ CountOK /\ StartOK /\ AbortOK /\ AliveOK /\ Looked

LEMMA Constants ==
  /\ lockSema \in Semas /\ blockSema \in Semas /\ lockSema # blockSema
  /\ Semas = {lockSema, blockSema} /\ nullSemaphore \notin Semas
  /\ Procs = Loggers \cup Handlers /\ Loggers \cap Handlers = {}
  /\ Adders = Loggers /\ Removers = Handlers
  /\ deadProcess \notin Procs /\ none \notin Adders /\ IsFiniteSet(Handlers)
BY SharedQueueAssumption, SystemLogAssumption
   DEF lockSema, blockSema, Loggers, Handlers

\* A process that runs neither is suspended nor waits for a semaphore.
LEMMA RunnerIsNotQueued ==
  ASSUME NEW p \in Procs, CanRun(p)
  PROVE  /\ p \notin Suspended /\ ~Waits(p)
         /\ \A s \in Semas : p \notin Queued(sema, s)
BY DEF CanRun, Waits, Queued

\* What a wait and a signal do to the semaphores of the queue.
LEMMA QueueWaited ==
  ASSUME NEW st, Sound(st), NEW s \in Semas, NEW p \in Procs,
         p \notin Queued(st, s)
  PROVE  /\ Sound(Waited(st, s, p))
         /\ \/ /\ s \in Permits(st)
               /\ Permits(Waited(st, s, p)) = Permits(st) \ {s}
               /\ \A r \in Semas : Queued(Waited(st, s, p), r) = Queued(st, r)
            \/ /\ s \notin Permits(st)
               /\ Permits(Waited(st, s, p)) = Permits(st)
               /\ Queued(Waited(st, s, p), s) = Queued(st, s) \cup {p}
               /\ \A r \in Semas \ {s} : Queued(Waited(st, s, p), r) = Queued(st, r)
BY WaitedEffect DEF Sound, Permits

LEMMA QueueSignalled ==
  ASSUME NEW st, Sound(st), NEW s \in Semas
  PROVE  /\ Sound(Signalled(st, s))
         /\ \/ /\ Queued(st, s) = {}
               /\ Permits(Signalled(st, s)) = Permits(st) \cup {s}
               /\ \A r \in Semas : Queued(Signalled(st, s), r) = Queued(st, r)
            \/ \E q \in Queued(st, s) :
                 /\ q \in Procs
                 /\ Permits(Signalled(st, s)) = Permits(st)
                 /\ Queued(Signalled(st, s), s) = Queued(st, s) \ {q}
                 /\ \A r \in Semas \ {s} : Queued(Signalled(st, s), r) = Queued(st, r)
BY SignalledEffect DEF Sound, Permits

USE DEF At, Goto, queueVars, logVars, queueState, Starting, Loggers, Handlers

\* A process goes to a place of its own.
LEMMA PcKept ==
  ASSUME PcOK, NEW p \in Procs, NEW x, pc' = [pc EXCEPT ![p] = x],
         \/ p \in Loggers /\ x \in LoggerPCs
         \/ p \in Handlers /\ x \in HandlerPCs
  PROVE  PcOK'
BY Constants, Zenon DEF PcOK

LEMMA PcNames ==
  /\ {"adding", "linking", "signalling", "leaving", "added", "add"} \cup Starting
       \subseteq LoggerPCs
  /\ {"removing", "unlinking", "leavingDone", "leavingEmpty", "blocking", "waiting",
      "lowering", "leavingLow", "remove", "removed", "dead"} \subseteq HandlerPCs
BY DEF LoggerPCs, HandlerPCs

-----------------------------------------------------------------------------
(* The lock and the list.                                                  *)

\* Who enters the lock has its one permit, or is queued and outside.
LEMMA EnterKeeps ==
  ASSUME QueueInv, NEW p \in Procs, NEW c, NEW d, WaitOn(p, lockSema, c, d),
         \/ p \in Loggers /\ c = "add" /\ d = "adding"
         \/ /\ p \in Handlers
            /\ \/ c = "remove" /\ d = "removing"
               \/ c = "waiting" /\ d = "lowering"
  PROVE  QueueInv'
<1>0. Types /\ QueuesOK /\ LockOK /\ ListOK
  BY DEF QueueInv
<1>a. CanRun(p) /\ p \notin Suspended /\ \A s \in Semas : p \notin Queued(sema, s)
  BY RunnerIsNotQueued, Constants DEF WaitOn
<1>b. /\ Sound(sema')
      /\ \/ /\ lockSema \in Permits(sema)
            /\ Permits(sema') = Permits(sema) \ {lockSema}
            /\ \A r \in Semas : Queued(sema', r) = Queued(sema, r)
         \/ /\ lockSema \notin Permits(sema)
            /\ Permits(sema') = Permits(sema)
            /\ Queued(sema', lockSema) = Queued(sema, lockSema) \cup {p}
            /\ Queued(sema', blockSema) = Queued(sema, blockSema)
  BY <1>0, <1>a, QueueWaited, Constants DEF WaitOn, Types
<1>t. PcOK'
  <2>1. pc' = [pc EXCEPT ![p] = d]
    BY DEF WaitOn
  <2>2. \/ p \in Loggers /\ d \in LoggerPCs
        \/ p \in Handlers /\ d \in HandlerPCs
    BY PcNames, Constants
  <2>3. QED  BY <1>0, <2>1, <2>2, PcKept DEF Types
<1>1. Types'
  BY <1>0, <1>t, <1>a, <1>b, Constants
     DEF Types, WaitOn, Suspended
<1>2. QueuesOK'
  BY <1>0, <1>a, <1>b, Constants
     DEF Types, PcOK, LoggerPCs, HandlerPCs, QueuesOK, WaitOn, Suspended
<1>3. LockOK'
  BY <1>0, <1>a, <1>b, Constants
     DEF Types, PcOK, QueuesOK, LockOK, Inside, WaitOn, Suspended
<1>4. ListOK'
  BY <1>0, <1>a, <1>b, Constants
     DEF Types, PcOK, LockOK, Inside, ListOK, WaitOn, Suspended
<1>5. QED  BY <1>1, <1>2, <1>3, <1>4 DEF QueueInv

\* Who leaves the lock passes it on to one process that is queued, or counts
\* the permit.
LEMMA LeaveKeeps ==
  ASSUME QueueInv, NEW p \in Procs, NEW c, NEW d, SignalTo(p, lockSema, c, d),
         \/ p \in Loggers /\ c = "leaving" /\ d = "added"
         \/ /\ p \in Handlers
            /\ \/ c = "leavingDone" /\ d = "removed"
               \/ c = "leavingEmpty" /\ d = "blocking"
               \/ c = "leavingLow" /\ d = "remove"
  PROVE  QueueInv'
<1>0. Types /\ QueuesOK /\ LockOK /\ ListOK
  BY DEF QueueInv
<1>a. CanRun(p) /\ p \notin Suspended /\ \A s \in Semas : p \notin Queued(sema, s)
  BY RunnerIsNotQueued, Constants DEF SignalTo
<1>b. /\ Sound(sema')
      /\ \/ /\ Queued(sema, lockSema) = {}
            /\ Permits(sema') = Permits(sema) \cup {lockSema}
            /\ \A r \in Semas : Queued(sema', r) = Queued(sema, r)
         \/ \E q \in Queued(sema, lockSema) :
              /\ q \in Procs
              /\ Permits(sema') = Permits(sema)
              /\ Queued(sema', lockSema) = Queued(sema, lockSema) \ {q}
              /\ Queued(sema', blockSema) = Queued(sema, blockSema)
  BY <1>0, QueueSignalled, Constants DEF SignalTo, Types
<1>t. PcOK'
  BY <1>0, <1>a, <1>b, PcKept, PcNames, Constants DEF Types, SignalTo, Suspended
<1>1. Types'
  BY <1>0, <1>t, <1>a, <1>b, Constants
     DEF Types, SignalTo, Suspended
<1>2. QueuesOK'
  BY <1>0, <1>a, <1>b, Constants
     DEF Types, PcOK, LoggerPCs, HandlerPCs, QueuesOK, SignalTo, Suspended
<1>3. LockOK'
  BY <1>0, <1>a, <1>b, Constants
     DEF Types, PcOK, QueuesOK, LockOK, Inside, SignalTo, Suspended
<1>4. ListOK'
  BY <1>0, <1>a, <1>b, Constants
     DEF Types, PcOK, LockOK, Inside, ListOK, SignalTo, Suspended
<1>5. QED  BY <1>1, <1>2, <1>3, <1>4 DEF QueueInv

\* What is read under the lock is what is there.
LEMMA AddingKeeps ==
  ASSUME QueueInv, NEW p \in Loggers, Adding(p)
  PROVE  QueueInv'
<1>0. Types /\ QueuesOK /\ LockOK /\ ListOK
  BY DEF QueueInv
<1>a. CanRun(p) /\ p \notin Suspended /\ \A s \in Semas : p \notin Queued(sema, s)
  BY RunnerIsNotQueued, Constants DEF Adding
<1>t. PcOK'
  BY <1>0, <1>a, PcKept, PcNames, Constants DEF Types, Adding, Suspended, Read
<1>1. Types'
  BY <1>0, <1>t, <1>a, Constants
     DEF Types, Adding, Suspended, Read
<1>2. QueuesOK'
  BY <1>0, <1>a, Constants
     DEF Types, PcOK, LoggerPCs, HandlerPCs, QueuesOK, Adding, Suspended, Read
<1>3. LockOK'
  BY <1>0, <1>a, Constants
     DEF Types, PcOK, QueuesOK, LockOK, Inside, Adding, Suspended, Read
<1>4. ListOK'
  BY <1>0, <1>a, Constants
     DEF Types, PcOK, LockOK, Inside, ListOK, Adding, Suspended, Read
<1>5. QED  BY <1>1, <1>2, <1>3, <1>4 DEF QueueInv

\* Nobody else has read the list that is written.
LEMMA LinkKeeps ==
  ASSUME QueueInv, NEW p \in Loggers, Link(p)
  PROVE  QueueInv'
<1>0. Types /\ QueuesOK /\ LockOK /\ ListOK
  BY DEF QueueInv
<1>a. CanRun(p) /\ p \notin Suspended /\ \A s \in Semas : p \notin Queued(sema, s)
  BY RunnerIsNotQueued, Constants DEF Link
<1>t. PcOK'
  BY <1>0, <1>a, PcKept, PcNames, Constants DEF Types, Link, Suspended, Forgets
<1>1. Types'
  BY <1>0, <1>t, <1>a, Constants
     DEF Types, Link, Suspended, Forgets
<1>2. QueuesOK'
  BY <1>0, <1>a, Constants
     DEF Types, PcOK, LoggerPCs, HandlerPCs, QueuesOK, Link, Suspended, Forgets
<1>3. LockOK'
  BY <1>0, <1>a, Constants
     DEF Types, PcOK, QueuesOK, LockOK, Inside, Link, Suspended, Forgets
<1>4. ListOK'
  BY <1>0, <1>a, Constants
     DEF Types, PcOK, LockOK, Inside, ListOK, Link, Suspended, Forgets
<1>5. QED  BY <1>1, <1>2, <1>3, <1>4 DEF QueueInv

\* What is read under the lock is what is there; word is left in count.
LEMMA RemovingKeeps ==
  ASSUME QueueInv, NEW p \in Handlers, Removing(p)
  PROVE  QueueInv'
<1>0. Types /\ QueuesOK /\ LockOK /\ ListOK
  BY DEF QueueInv
<1>a. CanRun(p) /\ p \notin Suspended /\ \A s \in Semas : p \notin Queued(sema, s)
  BY RunnerIsNotQueued, Constants DEF Removing
<1>b. pc[p] = "removing" /\ UNCHANGED <<sema, suspendedOn, rep, taken>>
  BY DEF Removing
<1>c. \/ /\ rep # <<>> /\ seen' = [seen EXCEPT ![p] = rep]
         /\ pc' = [pc EXCEPT ![p] = "unlinking"] /\ count' = count
      \/ /\ seen' = seen
         /\ pc' = [pc EXCEPT ![p] = "leavingEmpty"] /\ count' = 1 + count
  BY DEF Removing, Read
<1>d. PICK x \in {"unlinking", "leavingEmpty"} : pc' = [pc EXCEPT ![p] = x]
  BY <1>c
<1>e. /\ DOMAIN pc = Procs /\ p \in Procs /\ pc'[p] = x
      /\ \A q \in Procs \ {p} : pc'[q] = pc[q]
  BY <1>0, <1>d, Constants DEF Types, PcOK
<1>t. PcOK'
  BY <1>0, <1>a, <1>b, <1>c, PcKept, PcNames, Constants DEF Types, Suspended
<1>1. Types'
  <2>1. count' \in Int /\ seen' \in [Procs -> Seq(Adders)]
    BY <1>0, <1>c DEF Types
  <2>2. QED  BY <1>0, <1>b, <1>t, <2>1 DEF Types
<1>2. QueuesOK'
  <2>1. \A s \in Semas : Queued(sema, s) \subseteq Procs \ {p}
    BY <1>0, <1>a DEF Types, Sound, SemaOK, Queued, Elems
  <2>2. QED  BY <1>0, <1>a, <1>b, <1>e, <2>1, Constants DEF QueuesOK, Suspended
<1>3. LockOK'
  BY <1>0, <1>a, <1>b, <1>e, Constants DEF LockOK, Inside
<1>4. ListOK'
  BY <1>0, <1>a, <1>b, <1>c, Constants
     DEF Types, PcOK, LockOK, Inside, ListOK, Suspended
<1>5. QED  BY <1>1, <1>2, <1>3, <1>4 DEF QueueInv

\* Nobody else has read the list that is written.
LEMMA UnlinkKeeps ==
  ASSUME QueueInv, NEW p \in Handlers, Unlink(p)
  PROVE  QueueInv'
<1>0. Types /\ QueuesOK /\ LockOK /\ ListOK
  BY DEF QueueInv
<1>a. CanRun(p) /\ p \notin Suspended /\ \A s \in Semas : p \notin Queued(sema, s)
  BY RunnerIsNotQueued, Constants DEF Unlink
<1>t. PcOK'
  BY <1>0, <1>a, PcKept, PcNames, Constants DEF Types, Unlink, Suspended, Forgets
<1>1. Types'
  <2>1. Head(seen[p]) \in Adders /\ Tail(seen[p]) \in Seq(Adders)
    <3>1. seen[p] \in Seq(Adders) /\ seen[p] # <<>>
      BY <1>0, Constants DEF Unlink, ListOK, Types
    <3>2. QED  BY <3>1
  <2>2. QED  BY <1>0, <1>t, <2>1, Constants DEF Types, Unlink, Forgets
<1>2. QueuesOK'
  BY <1>0, <1>a, Constants
     DEF Types, PcOK, LoggerPCs, HandlerPCs, QueuesOK, Unlink, Suspended, Forgets
<1>3. LockOK'
  BY <1>0, <1>a, Constants
     DEF Types, PcOK, QueuesOK, LockOK, Inside, Unlink, Suspended, Forgets
<1>4. ListOK'
  BY <1>0, <1>a, Constants
     DEF Types, PcOK, LockOK, Inside, ListOK, Unlink, Suspended, Forgets
<1>5. QED  BY <1>1, <1>2, <1>3, <1>4 DEF QueueInv

\* Only count changes.
LEMMA LowerKeeps ==
  ASSUME QueueInv, NEW p \in Handlers, Lower(p)
  PROVE  QueueInv'
<1>0. Types /\ QueuesOK /\ LockOK /\ ListOK
  BY DEF QueueInv
<1>a. CanRun(p) /\ p \notin Suspended /\ \A s \in Semas : p \notin Queued(sema, s)
  BY RunnerIsNotQueued, Constants DEF Lower
<1>t. PcOK'
  BY <1>0, <1>a, PcKept, PcNames, Constants DEF Types, Lower, Suspended
<1>1. Types'
  BY <1>0, <1>t, <1>a, Constants
     DEF Types, Lower, Suspended
<1>2. QueuesOK'
  BY <1>0, <1>a, Constants
     DEF Types, PcOK, LoggerPCs, HandlerPCs, QueuesOK, Lower, Suspended
<1>3. LockOK'
  BY <1>0, <1>a, Constants
     DEF Types, PcOK, QueuesOK, LockOK, Inside, Lower, Suspended
<1>4. ListOK'
  BY <1>0, <1>a, Constants
     DEF Types, PcOK, LockOK, Inside, ListOK, Lower, Suspended
<1>5. QED  BY <1>1, <1>2, <1>3, <1>4 DEF QueueInv

\* Who waits for an entry does so outside the lock.
LEMMA BlockKeeps ==
  ASSUME QueueInv, NEW p \in Handlers, Block(p)
  PROVE  QueueInv'
<1>0. Types /\ QueuesOK /\ LockOK /\ ListOK
  BY DEF QueueInv
<1>a. CanRun(p) /\ p \notin Suspended /\ \A s \in Semas : p \notin Queued(sema, s)
  BY RunnerIsNotQueued, Constants DEF Block, WaitOn
<1>b. /\ Sound(sema')
      /\ \/ /\ blockSema \in Permits(sema)
            /\ Permits(sema') = Permits(sema) \ {blockSema}
            /\ \A r \in Semas : Queued(sema', r) = Queued(sema, r)
         \/ /\ blockSema \notin Permits(sema)
            /\ Permits(sema') = Permits(sema)
            /\ Queued(sema', blockSema) = Queued(sema, blockSema) \cup {p}
            /\ Queued(sema', lockSema) = Queued(sema, lockSema)
  BY <1>0, <1>a, QueueWaited, Constants DEF Block, WaitOn, Types
<1>t. PcOK'
  BY <1>0, <1>a, <1>b, PcKept, PcNames, Constants DEF Types, Block, WaitOn, Suspended
<1>1. Types'
  BY <1>0, <1>t, <1>a, <1>b, Constants
     DEF Types, Block, WaitOn, Suspended
<1>2. QueuesOK'
  BY <1>0, <1>a, <1>b, Constants
     DEF Types, PcOK, LoggerPCs, HandlerPCs, QueuesOK, Block, WaitOn, Suspended
<1>3. LockOK'
  BY <1>0, <1>a, <1>b, Constants
     DEF Types, PcOK, QueuesOK, LockOK, Inside, Block, WaitOn, Suspended
<1>4. ListOK'
  BY <1>0, <1>a, <1>b, Constants
     DEF Types, PcOK, LockOK, Inside, ListOK, Block, WaitOn, Suspended
<1>5. QED  BY <1>1, <1>2, <1>3, <1>4 DEF QueueInv

\* blockSema has a permit only when nobody is queued there.
LEMMA SignalWaiterKeeps ==
  ASSUME QueueInv, NEW p \in Loggers, SignalWaiter(p)
  PROVE  QueueInv'
<1>0. Types /\ QueuesOK /\ LockOK /\ ListOK
  BY DEF QueueInv
<1>a. CanRun(p) /\ p \notin Suspended /\ \A s \in Semas : p \notin Queued(sema, s)
  BY RunnerIsNotQueued, Constants DEF SignalWaiter
<1>b. /\ Sound(sema')
      /\ \/ sema' = sema
         \/ /\ Queued(sema, blockSema) = {}
            /\ Permits(sema') = Permits(sema) \cup {blockSema}
            /\ \A r \in Semas : Queued(sema', r) = Queued(sema, r)
         \/ \E q \in Queued(sema, blockSema) :
              /\ q \in Procs
              /\ Permits(sema') = Permits(sema)
              /\ Queued(sema', blockSema) = Queued(sema, blockSema) \ {q}
              /\ Queued(sema', lockSema) = Queued(sema, lockSema)
  BY <1>0, QueueSignalled, Constants DEF SignalWaiter, Types
<1>t. PcOK'
  BY <1>0, <1>a, <1>b, PcKept, PcNames, Constants DEF Types, SignalWaiter, Suspended
<1>1. Types'
  BY <1>0, <1>t, <1>a, <1>b, Constants
     DEF Types, SignalWaiter, Suspended
<1>2. QueuesOK'
  BY <1>0, <1>a, <1>b, Constants
     DEF Types, PcOK, LoggerPCs, HandlerPCs, QueuesOK, SignalWaiter, Suspended
<1>3. LockOK'
  BY <1>0, <1>a, <1>b, Constants
     DEF Types, PcOK, QueuesOK, LockOK, Inside, SignalWaiter, Suspended
<1>4. ListOK'
  BY <1>0, <1>a, <1>b, Constants
     DEF Types, PcOK, LockOK, Inside, ListOK, SignalWaiter, Suspended
<1>5. QED  BY <1>1, <1>2, <1>3, <1>4 DEF QueueInv

\* What a logger does before it adds its entry leaves the queue alone.
LEMMA LogStepKeeps ==
  ASSUME QueueInv, NEW u \in Loggers, UNCHANGED queueState,
         NEW x \in Starting \cup {"added", "add"}, pc[u] \in Starting \cup {"added", "add"},
         pc' = [pc EXCEPT ![u] = x]
  PROVE  QueueInv'
<1>0. Types /\ QueuesOK /\ LockOK /\ ListOK
  BY DEF QueueInv
<1>t. PcOK'
  BY <1>0, PcKept, PcNames, Constants DEF Types, Suspended
<1>1. Types'
  BY <1>0, <1>t, Constants
     DEF Types, Suspended
<1>2. QueuesOK'
  BY <1>0, Constants
     DEF Types, PcOK, LoggerPCs, HandlerPCs, QueuesOK, Suspended
<1>3. LockOK'
  BY <1>0, Constants
     DEF Types, PcOK, QueuesOK, LockOK, Inside, Suspended
<1>4. ListOK'
  BY <1>0, Constants
     DEF Types, PcOK, LockOK, Inside, ListOK, Suspended
<1>5. QED  BY <1>1, <1>2, <1>3, <1>4 DEF QueueInv

\* A new handler is outside the lock and on no queue.
LEMMA StartRunningKeeps ==
  ASSUME QueueInv, NEW u \in Loggers, StartRunning(u)
  PROVE  QueueInv'
<1>0. Types /\ QueuesOK /\ LockOK /\ ListOK
  BY DEF QueueInv
<1>a. Fresh # {} => (CHOOSE h \in Fresh : TRUE) \in Fresh
  OBVIOUS
<1> DEFINE h == CHOOSE h \in Fresh : TRUE
<1>b. h \in Handlers /\ pc[h] = "dead" /\ h # u
  BY <1>a, Constants DEF StartRunning, Fresh
<1> HIDE DEF h
<1>c. PICK x \in {"assign", "reassign"} : pc' = [pc EXCEPT ![h] = "remove", ![u] = x]
  BY <1>b DEF StartRunning, h
<1>d. /\ DOMAIN pc = Procs /\ u \in Procs /\ h \in Procs
      /\ pc[u] \in {"start", "restart"} /\ UNCHANGED queueState
  BY <1>0, <1>b, Constants DEF StartRunning, Types, PcOK
<1>e. /\ pc'[h] = "remove" /\ pc'[u] = x
      /\ \A q \in Procs \ {h, u} : pc'[q] = pc[q]
  BY <1>b, <1>c, <1>d
<1>t. PcOK'
  BY <1>0, <1>b, <1>c, <1>d, <1>e, PcNames, Constants DEF Types, PcOK
<1>1. Types'
  BY <1>0, <1>t, <1>b, <1>d, <1>e, Constants
     DEF Types, Suspended
<1>2. QueuesOK'
  <2>1. \A s \in Semas : Queued(sema, s) \subseteq Procs
    BY <1>0 DEF Types, Sound, SemaOK, Queued, Elems
  <2>2. h \notin Suspended /\ \A s \in Semas : h \notin Queued(sema, s) /\ u \notin Queued(sema, s)
    BY <1>0, <1>b, <1>d, Constants DEF QueuesOK
  <2>3. QED  BY <1>0, <1>b, <1>d, <1>e, <2>1, <2>2, Constants DEF QueuesOK, Suspended
<1>3. LockOK'
  BY <1>0, <1>b, <1>d, <1>e, Constants
     DEF Types, PcOK, QueuesOK, LockOK, Inside, Suspended
<1>4. ListOK'
  BY <1>0, <1>b, <1>d, <1>e, Constants
     DEF Types, PcOK, LockOK, Inside, ListOK, Suspended
<1>5. QED  BY <1>1, <1>2, <1>3, <1>4 DEF QueueInv

\* Who has handled an entry has none.
LEMMA HandledKeeps ==
  ASSUME QueueInv, NEW p \in Handlers, Handled(p)
  PROVE  QueueInv'
<1>0. Types /\ QueuesOK /\ LockOK /\ ListOK
  BY DEF QueueInv
<1>a. CanRun(p) /\ p \notin Suspended /\ \A s \in Semas : p \notin Queued(sema, s)
  BY RunnerIsNotQueued, Constants DEF Handled
<1>t. PcOK'
  BY <1>0, <1>a, PcKept, PcNames, Constants DEF Types, Handled, Suspended
<1>1. Types'
  BY <1>0, <1>t, <1>a, Constants
     DEF Types, Handled, Suspended
<1>2. QueuesOK'
  BY <1>0, <1>a, Constants
     DEF Types, PcOK, LoggerPCs, HandlerPCs, QueuesOK, Handled, Suspended
<1>3. LockOK'
  BY <1>0, <1>a, Constants
     DEF Types, PcOK, QueuesOK, LockOK, Inside, Handled, Suspended
<1>4. ListOK'
  BY <1>0, <1>a, Constants
     DEF Types, PcOK, LockOK, Inside, ListOK, Handled, Suspended
<1>5. QED  BY <1>1, <1>2, <1>3, <1>4 DEF QueueInv

\* A handler that breaks is on no queue.
LEMMA BreaksKeeps ==
  ASSUME QueueInv, NEW p \in Handlers, Breaks(p)
  PROVE  QueueInv'
<1>0. Types /\ QueuesOK /\ LockOK /\ ListOK
  BY DEF QueueInv
<1>a. /\ pc[p] = "removed" /\ p \notin Suspended
      /\ \A s \in Semas : p \notin Queued(sema, s)
  BY RunnerIsNotQueued, Constants DEF Breaks
<1>b. \A s \in Semas : p \notin Elems(sema[s].queue)
  BY <1>a DEF Queued
<1>c. sema' = sema
  BY <1>0, <1>b DEF Breaks, Suspend, Without, Types, Sound, SemaOK
<1>d. /\ Suspended' = Suspended \cup {p}
      /\ \A q \in Suspended : suspendedOn'[q] = suspendedOn[q]
      /\ suspendedOn'[p] = nullSemaphore
  BY <1>a, <1>b DEF Breaks, Suspend, Suspended, OnSemaphore, Waits
<1>t. PcOK'
  BY <1>0 DEF Types, PcOK, Breaks
<1>1. Types'
  BY <1>0, <1>t, <1>a, <1>c, <1>d, Constants
     DEF Types, Breaks
<1>2. QueuesOK'
  BY <1>0, <1>a, <1>c, <1>d, Constants
     DEF Types, PcOK, LoggerPCs, HandlerPCs, QueuesOK, Breaks
<1>3. LockOK'
  BY <1>0, <1>a, <1>c, <1>d, Constants
     DEF Types, PcOK, QueuesOK, LockOK, Inside, Breaks
<1>4. ListOK'
  BY <1>0, <1>a, <1>c, <1>d, Constants
     DEF Types, PcOK, LockOK, Inside, ListOK, Breaks
<1>5. QED  BY <1>1, <1>2, <1>3, <1>4 DEF QueueInv

\* It goes on where it was.
LEMMA ContinueKeeps ==
  ASSUME QueueInv, NEW p \in Handlers, Continue(p)
  PROVE  QueueInv'
<1>0. Types /\ QueuesOK /\ LockOK /\ ListOK
  BY DEF QueueInv
<1>a. sema' = sema /\ UNCHANGED <<queueVars, pc, logVars>>
  BY <1>0 DEF Continue, Resume, QueuesOK
<1>b. /\ Suspended' = Suspended \ {p}
      /\ \A q \in Suspended \ {p} : suspendedOn'[q] = suspendedOn[q]
  BY DEF Continue, Resume, Suspended
<1>t. PcOK'
  BY <1>0, <1>a DEF Types, PcOK
<1>1. Types'
  BY <1>0, <1>t, <1>a, <1>b, Constants
     DEF Types, Permits, Counted
<1>2. QueuesOK'
  BY <1>0, <1>a, <1>b, Constants
     DEF Types, PcOK, LoggerPCs, HandlerPCs, QueuesOK, Permits, Counted
<1>3. LockOK'
  BY <1>0, <1>a, <1>b, Constants
     DEF Types, PcOK, QueuesOK, LockOK, Inside, Permits, Counted
<1>4. ListOK'
  BY <1>0, <1>a, <1>b, Constants
     DEF Types, PcOK, LockOK, Inside, ListOK, Permits, Counted
<1>5. QED  BY <1>1, <1>2, <1>3, <1>4 DEF QueueInv

\* Taking a process off all queues.
LEMMA WithoutSema ==
  ASSUME Sound(sema), NEW h \in Procs,
         sema' = [s \in Semas |-> [sema[s] EXCEPT !.queue = Without(@, h)]]
  PROVE  /\ Sound(sema')
         /\ Permits(sema') = Permits(sema)
         /\ \A s \in Semas : Queued(sema', s) = Queued(sema, s) \ {h}
<1>1. ASSUME NEW s \in Semas
      PROVE  /\ sema[s].queue \in Seq(Procs) /\ NoDup(sema[s].queue)
             /\ sema[s] \in [count : 0..binaryCapacity, queue : Seq(Procs)]
  BY DEF Sound, SemaOK
<1>2. ASSUME NEW s \in Semas
      PROVE  /\ sema'[s].queue = Without(sema[s].queue, h)
             /\ sema'[s].count = sema[s].count
             /\ sema'[s] = [sema[s] EXCEPT !.queue = Without(sema[s].queue, h)]
  BY <1>1
<1>a. ASSUME NEW w \in Seq(Procs), NoDup(w)
      PROVE  /\ Without(w, h) \in Seq(Procs) /\ NoDup(Without(w, h))
             /\ Elems(Without(w, h)) = Elems(w) \ {h}
  BY <1>a, WithoutElems
<1>3. ASSUME NEW s \in Semas
      PROVE  /\ sema'[s].queue \in Seq(Procs) /\ NoDup(sema'[s].queue)
             /\ Elems(sema'[s].queue) = Elems(sema[s].queue) \ {h}
             /\ sema'[s] \in [count : 0..binaryCapacity, queue : Seq(Procs)]
  BY <1>1, <1>2, <1>a
<1>4. DOMAIN sema' = Semas /\ sema' = [s \in Semas |-> sema'[s]]
  OBVIOUS
<1>5. Sound(sema')
  BY <1>3, <1>4 DEF Sound, SemaOK
<1>6. QED  BY <1>2, <1>3, <1>5 DEF Permits, Counted, Queued

\* hup: the process that is aborted is outside the lock and on no queue after.
LEMMA AbortKeeps ==
  ASSUME QueueInv, NEW u \in Loggers, AbortIfLive(u)
  PROVE  QueueInv'
<1>0. Types /\ QueuesOK /\ LockOK /\ ListOK
  BY DEF QueueInv
<1> DEFINE h == proc[u]
<1>a. CASE ~IsAlive(h)
  <2>1. UNCHANGED queueState /\ pc' = [pc EXCEPT ![u] = "forget"] /\ pc[u] = "abort"
    BY <1>a DEF AbortIfLive
  <2>2. QED  BY <2>1, LogStepKeeps
<1>b. CASE IsAlive(h)
  <2>1. /\ pc[u] = "abort" /\ ~UsesLock(h) /\ h \in Handlers
        /\ pc' = [pc EXCEPT ![u] = "forget", ![h] = "dead"]
        /\ sema' = [s \in Semas |-> [sema[s] EXCEPT !.queue = Without(@, h)]]
        /\ suspendedOn' = [q \in Suspended \ {h} |-> suspendedOn[q]]
        /\ taken' = [taken EXCEPT ![h] = none]
        /\ UNCHANGED <<rep, count, seen>>
    BY <1>b DEF AbortIfLive, IsAlive
  <2> HIDE DEF h
  <2>2. u # h /\ u \in Procs /\ h \in Procs /\ DOMAIN pc = Procs
    BY <1>0, <2>1, Constants DEF Types, PcOK
  <2>3. /\ pc'[u] = "forget" /\ pc'[h] = "dead"
        /\ \A q \in Procs \ {u, h} : pc'[q] = pc[q]
    BY <2>1, <2>2
  <2>4. /\ Sound(sema')
        /\ Permits(sema') = Permits(sema)
        /\ \A s \in Semas : Queued(sema', s) = Queued(sema, s) \ {h}
    BY <1>0, <2>1, <2>2, WithoutSema DEF Types
  <2>5. /\ Suspended' = Suspended \ {h}
        /\ \A q \in Suspended \ {h} : suspendedOn'[q] = suspendedOn[q]
    BY <2>1 DEF Suspended
  <2>6. \A s \in Semas : Queued(sema, s) \subseteq Procs \ {u}
    <3>1. \A s \in Semas : Queued(sema, s) \subseteq Procs
      BY <1>0 DEF Types, Sound, SemaOK, Queued, Elems
    <3>2. QED  BY <1>0, <2>1, <3>1, Constants DEF QueuesOK
  <2>7. Types'
    <3>1. PcOK'
      BY <1>0, <2>1, <2>2, <2>3, PcNames, Constants DEF Types, PcOK
    <3>2. QED  BY <1>0, <2>1, <2>4, <3>1 DEF Types
  <2>8. QueuesOK'
    <3>1. \A s \in Semas : \A q \in Queued(sema', s) : q \in Queued(sema, s) /\ pc'[q] = pc[q]
      BY <2>3, <2>4, <2>6
    <3>2. \A q \in Suspended' : /\ q \in Suspended /\ pc'[q] = pc[q]
                                /\ suspendedOn'[q] = suspendedOn[q]
      BY <1>0, <2>1, <2>3, <2>5, Constants DEF QueuesOK
    <3>3. QED  BY <1>0, <2>4, <3>1, <3>2, Constants DEF QueuesOK
  <2>9. LockOK'
    <3>1. \A q \in Procs : Inside(q)' => Inside(q)
      BY <2>1, <2>2, <2>3, <2>4, Constants DEF Inside
    <3>2. QED  BY <1>0, <2>4, <3>1, Constants DEF LockOK
  <2>10. ListOK'
    BY <1>0, <2>1, <2>2, <2>3, Constants DEF Types, ListOK
  <2>11. QED  BY <2>7, <2>8, <2>9, <2>10 DEF QueueInv
<1>c. QED  BY <1>a, <1>b

-----------------------------------------------------------------------------
(* The queue implements the abstract queue.                                *)

LEMMA QueueInit0 == Init => QueueInv
<1> SUFFICES ASSUME Init PROVE QueueInv
  OBVIOUS
<1>1. /\ DOMAIN sema = Semas
      /\ \A s \in Semas : sema[s] = [count |-> IF s = lockSema THEN 1 ELSE 0, queue |-> <<>>]
      /\ sema = [s \in Semas |-> sema[s]]
  BY DEF Init, QueueInit
<1>2. Sound(sema)
  <2>1. <<>> \in Seq(Procs) /\ NoDup(<<>>) /\ {0, 1} \subseteq 0..binaryCapacity
    BY DEF binaryCapacity, NoDup
  <2>2. \A s \in Semas : /\ sema[s] \in [count : 0..binaryCapacity, queue : Seq(Procs)]
                         /\ NoDup(sema[s].queue)
    <3> TAKE s \in Semas
    <3>1. CASE s = lockSema
      <4>1. sema[s] = [count |-> 1, queue |-> <<>>]
        BY <1>1, <3>1
      <4>2. QED  BY <2>1, <4>1
    <3>2. CASE s # lockSema
      <4>1. sema[s] = [count |-> 0, queue |-> <<>>]
        BY <1>1, <3>2
      <4>2. QED  BY <2>1, <4>1
    <3>3. QED  BY <3>1, <3>2
  <2>3. QED  BY <1>1, <2>2 DEF Sound, SemaOK
<1>3. \A s \in Semas : Queued(sema, s) = {}
  BY <1>1 DEF Queued, Elems
<1>4. blockSema \notin Permits(sema) /\ Suspended = {}
  BY <1>1, Constants DEF Init, QueueInit, Permits, Counted, Suspended
<1>5. \A p \in Procs : pc[p] = IF p \in Loggers THEN "added" ELSE "dead"
  BY DEF Init
<1>6. Types
  <2>1. PcOK
    BY <1>5, PcNames, Constants DEF Init, PcOK
  <2>2. QED  BY <1>2, <2>1, Constants DEF Init, QueueInit, Types
<1>7. QueuesOK
  BY <1>3, <1>4, Constants DEF QueuesOK
<1>8. LockOK
  BY <1>3, <1>5, Constants DEF LockOK, Inside
<1>9. ListOK
  BY <1>5, Constants DEF Init, QueueInit, ListOK
<1>10. QED  BY <1>6, <1>7, <1>8, <1>9 DEF QueueInv

LEMMA QueueKeeps == QueueInv /\ [Next]_vars => QueueInv'
<1> SUFFICES ASSUME QueueInv, [Next]_vars PROVE QueueInv'
  OBVIOUS
<1>1. CASE \E p \in Procs : QueueStep(p) /\ UNCHANGED logVars
  <2>1. PICK p \in Procs : QueueStep(p)
    BY <1>1
  <2>2. CASE p \in Loggers /\ (EnterAdd(p) \/ LeaveAdd(p))
    BY <2>2, EnterKeeps, LeaveKeeps, Constants DEF EnterAdd, LeaveAdd
  <2>3. CASE p \in Loggers /\ (Adding(p) \/ Link(p) \/ SignalWaiter(p))
    BY <2>3, AddingKeeps, LinkKeeps, SignalWaiterKeeps
  <2>4. CASE p \in Handlers /\ (EnterRemove(p) \/ EnterLower(p))
    BY <2>4, EnterKeeps, Constants DEF EnterRemove, EnterLower
  <2>5. CASE p \in Handlers /\ (LeaveDone(p) \/ LeaveEmpty(p) \/ LeaveLow(p))
    BY <2>5, LeaveKeeps, Constants DEF LeaveDone, LeaveEmpty, LeaveLow
  <2>6. CASE p \in Handlers /\ (Removing(p) \/ Unlink(p) \/ Block(p) \/ Lower(p))
    BY <2>6, RemovingKeeps, UnlinkKeeps, BlockKeeps, LowerKeeps
  <2>7. QED  BY <2>1, <2>2, <2>3, <2>4, <2>5, <2>6 DEF QueueStep
<1>2. ASSUME NEW u \in Loggers,
             \/ SetRunning(u) \/ ForgetRunning(u) \/ EnsureRunning(u)
             \/ Dispatch(u) \/ Hup(u)
      PROVE  QueueInv'
  <2>1. PICK x \in Starting \cup {"added", "add"} :
               /\ pc[u] \in Starting \cup {"added", "add"}
               /\ pc' = [pc EXCEPT ![u] = x]
               /\ UNCHANGED queueState
    BY <1>2 DEF SetRunning, ForgetRunning, EnsureRunning, AfterCheck, Dispatch, Hup
  <2>2. QED  BY <2>1, LogStepKeeps
<1>3. CASE \E u \in Loggers : StartRunning(u) \/ AbortIfLive(u)
  BY <1>3, StartRunningKeeps, AbortKeeps
<1>4. CASE \E h \in Handlers : Handled(h) \/ Breaks(h) \/ Continue(h)
  BY <1>4, HandledKeeps, BreaksKeeps, ContinueKeeps
<1>5. CASE UNCHANGED vars
  BY <1>5 DEF vars, QueueInv, Types, PcOK, QueuesOK, LockOK, Inside, ListOK,
              Queued, Permits, Counted, Suspended
<1>6. QED  BY <1>1, <1>2, <1>3, <1>4, <1>5 DEF Next, Work

\* What goes through the queue comes out in order, each entry to one process
\* (list addLast: and removeFirst under the lock of sharedQueue).
THEOREM QueueCorrect == Spec => IsQueue
<1>1. Init => Queue!Init
  BY DEF Init, QueueInit, Queue!Init
<1>2. QueueInv /\ [Next]_vars => [Queue!Next]_<<rep, taken>>
  <2> SUFFICES ASSUME QueueInv, [Next]_vars, ~UNCHANGED <<rep, taken>>
               PROVE  Queue!Next
    OBVIOUS
  <2>0. Types /\ ListOK
    BY DEF QueueInv
  <2>1. ASSUME NEW p \in Loggers, Link(p) PROVE Queue!Next
    <3>1. rep' = Append(rep, p) /\ taken' = taken
      BY <2>0, <2>1, Constants DEF Link, ListOK
    <3>2. QED  BY <3>1 DEF Queue!Next, Queue!Add
  <2>2. ASSUME NEW p \in Handlers, Unlink(p) PROVE Queue!Next
    <3>1. /\ rep # <<>> /\ rep' = Tail(rep)
          /\ taken[p] = none /\ taken' = [taken EXCEPT ![p] = Head(rep)]
      BY <2>0, <2>2, Constants DEF Unlink, ListOK
    <3>2. QED  BY <3>1 DEF Queue!Next, Queue!RemoveFirst
  <2>3. ASSUME NEW h \in Handlers, taken' = [taken EXCEPT ![h] = none], rep' = rep
        PROVE  Queue!Next
    BY <2>3 DEF Queue!Next, Queue!Done
  <2>4. CASE \E p \in Procs : QueueStep(p)
    BY <2>1, <2>2, <2>4
       DEF QueueStep, WaitOn, SignalTo, EnterAdd, Adding, SignalWaiter, LeaveAdd,
           EnterRemove, Removing, LeaveDone, LeaveEmpty, Block, EnterLower, Lower, LeaveLow
  <2>5. CASE \E u \in Loggers : \/ StartRunning(u) \/ SetRunning(u) \/ ForgetRunning(u)
                                \/ EnsureRunning(u) \/ Dispatch(u) \/ Hup(u)
    BY <2>5 DEF StartRunning, SetRunning, ForgetRunning, EnsureRunning, Dispatch, Hup
  <2>6. CASE \E u \in Loggers : AbortIfLive(u)
    BY <2>3, <2>6 DEF AbortIfLive, IsAlive
  <2>7. CASE \E h \in Handlers : Handled(h) \/ Breaks(h) \/ Continue(h)
    BY <2>3, <2>7 DEF Handled, Breaks, Continue
  <2>8. CASE UNCHANGED vars
    BY <2>8 DEF vars
  <2>9. QED  BY <2>4, <2>5, <2>6, <2>7, <2>8 DEF Next, Work
<1>3. QED  BY <1>1, <1>2, QueueInit0, QueueKeeps, PTL DEF Spec, IsQueue, Queue!Spec

-----------------------------------------------------------------------------
(* Nobody sleeps beside an entry: the parts of WakeInv one by one.         *)

LEMMA CountingFinite ==
  IsFiniteSet(Counting) /\ Cardinality(Counting) \in Nat
<1>1. Counting \subseteq Handlers
  BY DEF Counting
<1>2. QED  BY <1>1, Constants, FS_Subset, FS_CardinalityType

LEMMA CountKept ==
  ASSUME Types, CountOK, Counting' \subseteq Counting, count' = count
  PROVE  CountOK'
<1>1. Cardinality(Counting') \in Nat /\ Cardinality(Counting') <= Cardinality(Counting)
  BY CountingFinite, FS_Subset, FS_CardinalityType
<1>2. QED  BY <1>1, CountingFinite DEF CountOK, Types

LEMMA CountRaised ==
  ASSUME Types, CountOK, NEW h, Counting' = Counting \cup {h}, count' = 1 + count
  PROVE  CountOK'
<1>1. /\ Cardinality(Counting') \in Nat
      /\ Cardinality(Counting') <= Cardinality(Counting) + 1
  BY CountingFinite, FS_AddElement, FS_CardinalityType
<1>2. QED  BY <1>1, CountingFinite DEF CountOK, Types

LEMMA CountLowered ==
  ASSUME Types, CountOK, NEW h \in Counting, Counting' = Counting \ {h},
         count' = count - 1
  PROVE  CountOK'
<1>1. /\ Cardinality(Counting') \in Nat
      /\ Cardinality(Counting') = Cardinality(Counting) - 1
  BY CountingFinite, FS_RemoveElement, FS_CardinalityType
<1>2. QED  BY <1>1, CountingFinite DEF CountOK, Types

\* An adder has a handler or one that is to come.
LEMMA AdderHasHandler ==
  ASSUME StartOK, AliveOK, NEW v \in Loggers,
         pc[v] \in {"add", "adding", "linking", "signalling"}
  PROVE  SomeAlive \/ WillStart
BY Zenon DEF StartOK, AliveOK, SomeAlive, WillStart, IsAlive, Replacing

\* If nobody goes to sleep, and no entry is added, what was said of the queue
\* still holds.
LEMMA LookedKept ==
  ASSUME Looked, rep' # <<>> => rep # <<>>,
         \A u \in Loggers : pc[u] = "signalling" => pc'[u] = "signalling",
         WillStart => WillStart' \/ \E h \in Handlers : Looks(h)',
         \A h \in Handlers : Looks(h) => \E g \in Handlers : Looks(g)',
         blockSema \in Permits(sema) /\ SomeAlive =>
           \/ blockSema \in Permits(sema') /\ SomeAlive'
           \/ \E h \in Handlers : Looks(h)'
           \/ WillStart'
  PROVE  Looked'
BY DEF Looked

-----------------------------------------------------------------------------
(* The adders and the removers of the queue.                               *)

\* The lock is not the semaphore that handlers sleep on.
LEMMA LockLeavesBlock ==
  ASSUME QueueInv, NEW p \in Procs, CanRun(p),
         sema' = Waited(sema, lockSema, p) \/ sema' = Signalled(sema, lockSema)
  PROVE  /\ blockSema \in Permits(sema') <=> blockSema \in Permits(sema)
         /\ Queued(sema', blockSema) = Queued(sema, blockSema)
<1>0. Sound(sema) /\ p \notin Queued(sema, lockSema)
  BY RunnerIsNotQueued, Constants DEF QueueInv, Types
<1>1. CASE sema' = Waited(sema, lockSema, p)
  BY <1>0, <1>1, QueueWaited, Constants
<1>2. CASE sema' = Signalled(sema, lockSema)
  BY <1>0, <1>2, QueueSignalled, Constants
<1>3. QED  BY <1>1, <1>2

\* What does not depend on the queue stays when a logger goes on in add:.
LEMMA AdderStep ==
  ASSUME WakeInv, NEW p \in Loggers, NEW x, UNCHANGED <<count, logVars>>,
         pc' = [pc EXCEPT ![p] = x],
         pc[p] \in {"add", "adding", "linking", "signalling", "leaving"},
         \/ x \in {"leaving", "added"}
         \/ x \in {"adding", "linking", "signalling"} /\ pc[p] # "leaving"
  PROVE  /\ LogTypes' /\ CountOK' /\ StartOK' /\ AbortOK' /\ AliveOK'
         /\ DOMAIN pc = Procs /\ pc'[p] = x /\ \A q \in Procs \ {p} : pc'[q] = pc[q]
         /\ \A h \in Handlers : pc'[h] = pc[h]
         /\ SomeAlive' <=> SomeAlive
         /\ WillStart' <=> WillStart
<1>0. /\ Types /\ LogTypes /\ CountOK /\ StartOK /\ AbortOK /\ AliveOK
  BY DEF WakeInv, QueueInv
<1>1. /\ DOMAIN pc = Procs /\ pc'[p] = x /\ \A q \in Procs \ {p} : pc'[q] = pc[q]
  BY <1>0, Constants DEF Types, PcOK
<1>2. \A h \in Handlers : pc'[h] = pc[h]
  BY <1>1, Constants
<1>3. \A h : IsAlive(h)' <=> IsAlive(h)
  BY <1>2 DEF IsAlive
<1>4. CountOK'
  <2>1. Counting' = Counting
    BY <1>2 DEF Counting
  <2>2. QED  BY <1>0, <2>1, CountKept
<1>5. LogTypes'
  BY <1>0 DEF LogTypes
<1>6. \A v \in Loggers : \A y \in Starting : pc'[v] = y <=> pc[v] = y
  BY <1>1, Constants
<1>7. StartOK'
  BY <1>0, <1>3, <1>6 DEF StartOK
<1>8. AbortOK'
  BY <1>0, <1>3, <1>6 DEF AbortOK
<1>9. SomeAlive' <=> SomeAlive
  BY <1>3 DEF SomeAlive
<1>10. AliveOK'
  BY <1>0, <1>1, <1>6, <1>9, Constants DEF AliveOK, Replacing
<1>11. WillStart' <=> WillStart
  BY <1>3, <1>6 DEF WillStart, Replacing
<1>12. QED  BY <1>1, <1>2, <1>4, <1>5, <1>7, <1>8, <1>9, <1>10, <1>11

\* The same when a handler goes on that does not die.
LEMMA HandlerStep ==
  ASSUME WakeInv, NEW p \in Handlers, NEW x, UNCHANGED logVars,
         pc' = [pc EXCEPT ![p] = x], pc[p] # "dead", x # "dead"
  PROVE  /\ LogTypes' /\ StartOK' /\ AbortOK' /\ AliveOK'
         /\ DOMAIN pc = Procs /\ pc'[p] = x /\ \A q \in Procs \ {p} : pc'[q] = pc[q]
         /\ \A u \in Loggers : pc'[u] = pc[u]
         /\ IsAlive(p) /\ \A h : IsAlive(h)' <=> IsAlive(h)
         /\ SomeAlive' <=> SomeAlive
         /\ WillStart' <=> WillStart
<1>0. /\ Types /\ LogTypes /\ StartOK /\ AbortOK /\ AliveOK
  BY DEF WakeInv, QueueInv
<1>1. /\ DOMAIN pc = Procs /\ pc'[p] = x /\ \A q \in Procs \ {p} : pc'[q] = pc[q]
  BY <1>0, Constants DEF Types, PcOK
<1>2. \A u \in Loggers : pc'[u] = pc[u]
  BY <1>1, Constants
<1>3. IsAlive(p) /\ \A h : IsAlive(h)' <=> IsAlive(h)
  BY <1>1, Constants DEF IsAlive
<1>4. LogTypes'
  BY <1>0 DEF LogTypes
<1>5. StartOK'
  BY <1>0, <1>2, <1>3 DEF StartOK
<1>6. AbortOK'
  BY <1>0, <1>2, <1>3 DEF AbortOK
<1>7. SomeAlive' <=> SomeAlive
  BY <1>3 DEF SomeAlive
<1>8. AliveOK'
  BY <1>0, <1>2, <1>7 DEF AliveOK, Replacing
<1>9. WillStart' <=> WillStart
  BY <1>2, <1>3 DEF WillStart, Replacing
<1>10. QED  BY <1>1, <1>2, <1>3, <1>4, <1>5, <1>6, <1>7, <1>8, <1>9

\* Who takes or gives up the lock, or reads the list, wakes nobody and does not
\* go to sleep.
LEMMA LockWakes ==
  ASSUME WakeInv, QueueInv', NEW p \in Loggers, UNCHANGED <<rep, logVars>>,
         EnterAdd(p) \/ Adding(p) \/ LeaveAdd(p)
  PROVE  WakeInv'
<1>1. PICK x : /\ pc' = [pc EXCEPT ![p] = x]
               /\ \/ pc[p] = "add" /\ x = "adding"
                  \/ pc[p] = "adding" /\ x = "linking"
                  \/ pc[p] = "leaving" /\ x = "added"
  BY DEF EnterAdd, WaitOn, Adding, LeaveAdd, SignalTo
<1>2. /\ blockSema \in Permits(sema') <=> blockSema \in Permits(sema)
      /\ Queued(sema', blockSema) = Queued(sema, blockSema)
  <2>1. CASE EnterAdd(p) \/ LeaveAdd(p)
    BY <2>1, LockLeavesBlock, Constants DEF EnterAdd, WaitOn, LeaveAdd, SignalTo, WakeInv, QueueInv
  <2>2. CASE Adding(p)
    BY <2>2 DEF Adding
  <2>3. QED  BY <2>1, <2>2
<1>3. /\ LogTypes' /\ CountOK' /\ StartOK' /\ AbortOK' /\ AliveOK'
      /\ \A h \in Handlers : pc'[h] = pc[h]
      /\ \A q \in Procs \ {p} : pc'[q] = pc[q]
      /\ SomeAlive' <=> SomeAlive
      /\ WillStart' <=> WillStart
  <2>1. UNCHANGED count
    BY DEF EnterAdd, WaitOn, Adding, LeaveAdd, SignalTo
  <2>2. QED  BY <1>1, <2>1, AdderStep
<1>4. Looked'
  <2>1. \A h \in Handlers : Looks(h) => Looks(h)'
    BY <1>2, <1>3 DEF Looks, IsAlive
  <2>2. \A u \in Loggers : pc[u] = "signalling" => pc'[u] = "signalling"
    BY <1>1, <1>3, Constants
  <2>3. QED  BY <1>2, <1>3, <2>1, <2>2, LookedKept DEF WakeInv
<1>5. QED  BY <1>3, <1>4 DEF WakeInv

\* Who adds an entry is about to signal.
LEMMA LinkWakes ==
  ASSUME WakeInv, QueueInv', NEW p \in Loggers, UNCHANGED logVars, Link(p)
  PROVE  WakeInv'
<1>1. /\ pc[p] = "linking" /\ pc' = [pc EXCEPT ![p] = "signalling"]
      /\ UNCHANGED <<count, logVars>>
  BY DEF Link
<1>2. LogTypes' /\ CountOK' /\ StartOK' /\ AbortOK' /\ AliveOK' /\ pc'[p] = "signalling"
  BY <1>1, AdderStep
<1>3. Looked'
  BY <1>2 DEF Looked
<1>4. QED  BY <1>2, <1>3 DEF WakeInv

\* Who signals wakes a handler, or leaves a permit, or there are none on their
\* way to sleep.
LEMMA SignalWaiterWakes ==
  ASSUME WakeInv, QueueInv', NEW p \in Loggers, UNCHANGED logVars, SignalWaiter(p)
  PROVE  WakeInv'
<1>0. /\ Types /\ QueuesOK /\ CountOK /\ StartOK /\ AliveOK
  BY DEF WakeInv, QueueInv
<1>1. /\ pc[p] = "signalling" /\ pc' = [pc EXCEPT ![p] = "leaving"]
      /\ UNCHANGED <<count, logVars, rep>>
  BY DEF SignalWaiter
<1>2. /\ LogTypes' /\ CountOK' /\ StartOK' /\ AbortOK' /\ AliveOK'
      /\ \A h \in Handlers : pc'[h] = pc[h]
      /\ SomeAlive' <=> SomeAlive
      /\ WillStart' <=> WillStart
  BY <1>1, AdderStep
<1>3. SomeAlive \/ WillStart
  BY <1>0, <1>1, AdderHasHandler
<1>4. CASE SomeoneWaits
  <2>1. sema' = Signalled(sema, blockSema)
    BY <1>4 DEF SignalWaiter
  <2>2. ASSUME Permits(sema') = Permits(sema) \cup {blockSema}
        PROVE  Looked'
    <3>1. blockSema \in Permits(sema')
      BY <2>2
    <3>2. WillStart' \/ SomeAlive'
      BY <1>2, <1>3
    <3>3. QED  BY <3>1, <3>2 DEF Looked
  <2>3. ASSUME NEW q \in Queued(sema, blockSema),
               Queued(sema', blockSema) = Queued(sema, blockSema) \ {q}
        PROVE  Looked'
    <3>1. q \in Handlers /\ pc[q] = "waiting"
      <4>1. q \in Procs
        BY <1>0, <2>3, Constants DEF Types, Sound, SemaOK, Queued, Elems
      <4>2. pc[q] = "waiting"
        BY <1>0, <2>3 DEF QueuesOK
      <4>3. "waiting" \notin LoggerPCs
        BY DEF LoggerPCs
      <4>4. QED  BY <1>0, <4>1, <4>2, <4>3, Constants DEF Types, PcOK
    <3>2. Looks(q)'
      BY <1>2, <2>3, <3>1 DEF Looks, IsAlive
    <3>3. QED  BY <3>1, <3>2 DEF Looked
  <2>4. Looked'
    <3>1. \/ /\ Queued(sema, blockSema) = {}
             /\ Permits(sema') = Permits(sema) \cup {blockSema}
          \/ \E q \in Queued(sema, blockSema) :
               Queued(sema', blockSema) = Queued(sema, blockSema) \ {q}
      BY <1>0, <2>1, QueueSignalled, Constants DEF Types
    <3>2. QED  BY <2>2, <2>3, <3>1
  <2>5. QED  BY <1>2, <2>4 DEF WakeInv
<1>5. CASE ~SomeoneWaits
  <2>1. Counting = {}
    <3>1. Cardinality(Counting) = 0
      BY <1>0, <1>5, CountingFinite DEF CountOK, SomeoneWaits, Types
    <3>2. QED  BY <3>1, CountingFinite, FS_EmptySet
  <2>2. \A h \in Handlers : IsAlive(h) => Looks(h)'
    BY <1>2, <2>1 DEF Counting, Looks, IsAlive
  <2>3. Looked'
    BY <1>2, <1>3, <2>2 DEF Looked, SomeAlive
  <2>4. QED  BY <1>2, <2>3 DEF WakeInv
<1>6. QED  BY <1>4, <1>5

\* A handler that is awake, before and after, wakes nobody and does not go to
\* sleep.
LEMMA AwakeWakes ==
  ASSUME WakeInv, QueueInv', NEW p \in Handlers, UNCHANGED logVars,
         \/ EnterRemove(p) \/ Unlink(p) \/ LeaveDone(p) \/ EnterLower(p)
         \/ Lower(p) \/ LeaveLow(p) \/ Handled(p)
  PROVE  WakeInv'
<1>0. Types /\ CountOK /\ Looked
  BY DEF WakeInv, QueueInv
<1>1. PICK x : /\ pc' = [pc EXCEPT ![p] = x]
               /\ pc[p] \notin {"dead", "leavingEmpty", "blocking"}
               /\ x \notin {"dead", "leavingEmpty", "blocking", "waiting"}
               /\ x = "lowering" <=> pc[p] = "waiting"
               /\ count' = IF pc[p] = "lowering" THEN count - 1 ELSE count
               /\ CanRun(p)
  BY DEF EnterRemove, WaitOn, Unlink, LeaveDone, SignalTo, EnterLower, Lower, LeaveLow, Handled
<1>2. /\ LogTypes' /\ StartOK' /\ AbortOK' /\ AliveOK'
      /\ pc'[p] = x /\ \A q \in Procs \ {p} : pc'[q] = pc[q]
      /\ IsAlive(p) /\ \A h : IsAlive(h)' <=> IsAlive(h)
  BY <1>1, HandlerStep
<1>3. CountOK'
  <2>1. CASE pc[p] = "lowering"
    <3>1. p \in Counting /\ Counting' = Counting \ {p}
      BY <1>1, <1>2, <2>1, Constants DEF Counting
    <3>2. QED  BY <1>0, <1>1, <2>1, <3>1, CountLowered
  <2>2. CASE pc[p] # "lowering"
    <3>1. Counting' \subseteq Counting
      BY <1>1, <1>2, <2>2, Constants DEF Counting
    <3>2. QED  BY <1>0, <1>1, <2>2, <3>1, CountKept
  <2>3. QED  BY <2>1, <2>2
<1>4. Looks(p)'
  BY <1>1, <1>2 DEF Looks
<1>5. Looked'
  BY <1>4 DEF Looked
<1>6. QED  BY <1>2, <1>3, <1>5 DEF WakeInv

\* A handler goes to sleep only if it has found the queue empty.
LEMMA RemovingWakes ==
  ASSUME WakeInv, QueueInv', NEW p \in Handlers, UNCHANGED logVars, Removing(p)
  PROVE  WakeInv'
<1>0. Types /\ CountOK
  BY DEF WakeInv, QueueInv
<1>1. PICK x : /\ pc' = [pc EXCEPT ![p] = x] /\ pc[p] = "removing" /\ rep' = rep
               /\ \/ rep # <<>> /\ x = "unlinking" /\ count' = count
                  \/ rep = <<>> /\ x = "leavingEmpty" /\ count' = 1 + count
  BY DEF Removing
<1>2. /\ LogTypes' /\ StartOK' /\ AbortOK' /\ AliveOK'
      /\ pc'[p] = x /\ \A q \in Procs \ {p} : pc'[q] = pc[q]
      /\ IsAlive(p) /\ \A h : IsAlive(h)' <=> IsAlive(h)
  BY <1>1, HandlerStep
<1>3. CountOK'
  <2>1. CASE x = "unlinking"
    <3>1. Counting' \subseteq Counting
      BY <1>1, <1>2, <2>1, Constants DEF Counting
    <3>2. QED  BY <1>0, <1>1, <2>1, <3>1, CountKept
  <2>2. CASE x = "leavingEmpty"
    <3>1. Counting' = Counting \cup {p}
      BY <1>1, <1>2, <2>2, Constants DEF Counting
    <3>2. QED  BY <1>0, <1>1, <2>2, <3>1, CountRaised
  <2>3. QED  BY <1>1, <2>1, <2>2
<1>4. rep' # <<>> => Looks(p)'
  BY <1>1, <1>2 DEF Looks
<1>5. Looked'
  BY <1>4 DEF Looked
<1>6. QED  BY <1>2, <1>3, <1>5 DEF WakeInv

\* On the way to sleep a handler changes nothing, unless it takes the permit; then
\* it is awake.
LEMMA SleepWakes ==
  ASSUME WakeInv, QueueInv', NEW p \in Handlers, UNCHANGED logVars, LeaveEmpty(p) \/ Block(p)
  PROVE  WakeInv'
<1>0. Types /\ QueuesOK /\ CountOK /\ Looked
  BY DEF WakeInv, QueueInv
<1>1. PICK x : /\ pc' = [pc EXCEPT ![p] = x] /\ UNCHANGED <<rep, count>>
               /\ CanRun(p)
               /\ \/ /\ pc[p] = "leavingEmpty" /\ x = "blocking"
                     /\ sema' = Signalled(sema, lockSema)
                  \/ /\ pc[p] = "blocking" /\ x = "waiting"
                     /\ sema' = Waited(sema, blockSema, p)
  BY DEF LeaveEmpty, SignalTo, Block, WaitOn
<1>2. /\ LogTypes' /\ StartOK' /\ AbortOK' /\ AliveOK'
      /\ pc'[p] = x /\ \A q \in Procs \ {p} : pc'[q] = pc[q]
      /\ \A u \in Loggers : pc'[u] = pc[u]
      /\ IsAlive(p) /\ \A h : IsAlive(h)' <=> IsAlive(h)
      /\ SomeAlive' <=> SomeAlive
      /\ WillStart' <=> WillStart
  BY <1>1, HandlerStep
<1>3. CountOK'
  <2>1. Counting' = Counting
    BY <1>1, <1>2, Constants DEF Counting
  <2>2. QED  BY <1>0, <1>1, <2>1, CountKept
<1>4. Looked'
  <2>1. p \notin Queued(sema, blockSema)
    BY <1>1, RunnerIsNotQueued, Constants
  <2>2. CASE x = "blocking"
    <3>1. /\ blockSema \in Permits(sema') <=> blockSema \in Permits(sema)
          /\ Queued(sema', blockSema) = Queued(sema, blockSema)
      BY <1>1, <2>2, LockLeavesBlock, Constants DEF WakeInv
    <3>2. \A h \in Handlers : Looks(h) => Looks(h)'
      BY <1>1, <1>2, <2>2, <3>1, Constants DEF Looks
    <3>3. QED  BY <1>0, <1>1, <1>2, <3>1, <3>2, LookedKept
  <2>3. CASE x = "waiting" /\ blockSema \in Permits(sema)
    <3>1. Queued(sema', blockSema) = Queued(sema, blockSema)
      BY <1>0, <1>1, <2>1, <2>3, QueueWaited, Constants DEF Types
    <3>2. Looks(p)'
      BY <1>2, <2>1, <2>3, <3>1 DEF Looks
    <3>3. QED  BY <3>2 DEF Looked
  <2>4. CASE x = "waiting" /\ blockSema \notin Permits(sema)
    <3>1. Queued(sema', blockSema) = Queued(sema, blockSema) \cup {p}
      BY <1>0, <1>1, <2>1, <2>4, QueueWaited, Constants DEF Types
    <3>2. \A h \in Handlers : Looks(h) => Looks(h)'
      BY <1>1, <1>2, <2>4, <3>1, Constants DEF Looks
    <3>3. QED  BY <1>0, <1>1, <1>2, <2>4, <3>2, LookedKept
  <2>5. QED  BY <1>1, <2>2, <2>3, <2>4
<1>5. QED  BY <1>2, <1>3, <1>4 DEF WakeInv

-----------------------------------------------------------------------------
(* The log: starting and replacing handlers.                               *)

\* What a logger does outside the queue, where no handler lives or dies,
\* leaves count and the queue's semaphores alone.
LEMMA LoggerStep ==
  ASSUME WakeInv, NEW u \in Loggers, NEW x, UNCHANGED queueState,
         pc' = [pc EXCEPT ![u] = x], pc[u] # "signalling", x # "signalling"
  PROVE  /\ CountOK'
         /\ pc'[u] = x /\ \A q \in Procs \ {u} : pc'[q] = pc[q]
         /\ \A h \in Handlers : pc'[h] = pc[h]
         /\ \A h : IsAlive(h)' <=> IsAlive(h)
         /\ SomeAlive' <=> SomeAlive
         /\ (WillStart => WillStart' \/ \E h \in Handlers : Looks(h)') => Looked'
<1>0. Types /\ CountOK /\ Looked
  BY DEF WakeInv, QueueInv
<1>1. pc'[u] = x /\ \A q \in Procs \ {u} : pc'[q] = pc[q]
  BY <1>0, Constants DEF Types, PcOK
<1>2. \A h \in Handlers : pc'[h] = pc[h]
  BY <1>1, Constants
<1>3. \A h : IsAlive(h)' <=> IsAlive(h)
  BY <1>2 DEF IsAlive
<1>4. CountOK'
  <2>1. Counting' = Counting
    BY <1>2 DEF Counting
  <2>2. QED  BY <1>0, <2>1, CountKept
<1>5. SomeAlive' <=> SomeAlive
  BY <1>3 DEF SomeAlive
<1>6. \A h \in Handlers : Looks(h) => Looks(h)'
  BY <1>2, <1>3 DEF Looks
<1>7. \A v \in Loggers : pc[v] = "signalling" => pc'[v] = "signalling"
  BY <1>1, Constants
<1>8. Permits(sema') = Permits(sema)
  OBVIOUS
<1>9. (WillStart => WillStart' \/ \E h \in Handlers : Looks(h)') => Looked'
  BY <1>0, <1>5, <1>6, <1>7, <1>8, LookedKept
<1>10. QED  BY <1>1, <1>2, <1>3, <1>4, <1>5, <1>9


\* Who logs goes on to add its entry only if running is alive.
LEMMA DispatchWakes ==
  ASSUME WakeInv, QueueInv', NEW u \in Loggers, Dispatch(u)
  PROVE  WakeInv'
<1>0. /\ Types /\ LogTypes /\ StartOK /\ AbortOK /\ AliveOK
  BY DEF WakeInv, QueueInv
<1>1. PICK x : /\ pc' = [pc EXCEPT ![u] = x] /\ pc[u] = "added"
               /\ \/ x = "add" /\ IsAlive(running)
                  \/ x = "start" /\ ~IsAlive(running)
               /\ UNCHANGED <<queueState, logVars>>
  BY DEF Dispatch
<1>2. /\ CountOK'
      /\ pc'[u] = x /\ \A q \in Procs \ {u} : pc'[q] = pc[q]
      /\ \A h : IsAlive(h)' <=> IsAlive(h)
      /\ SomeAlive' <=> SomeAlive
      /\ (WillStart => WillStart' \/ \E h \in Handlers : Looks(h)') => Looked'
  BY <1>1, LoggerStep
<1>3. LogTypes'
  BY <1>0, <1>1 DEF LogTypes
<1>4. StartOK'
  BY <1>0, <1>1, <1>2, Constants DEF StartOK
<1>5. AbortOK'
  BY <1>0, <1>1, <1>2, Constants DEF AbortOK
<1>6. AliveOK'
  <2>1. IsAlive(running) => SomeAlive
    BY DEF SomeAlive, IsAlive
  <2>2. QED  BY <1>0, <1>1, <1>2, <2>1, Constants DEF AliveOK, Replacing, StartOK
<1>7. Looked'
  BY <1>0, <1>1, <1>2, Constants DEF WillStart, Replacing
<1>8. QED  BY <1>2, <1>3, <1>4, <1>5, <1>6, <1>7 DEF WakeInv

\* The handler that becomes running was counted on before it did.
LEMMA SetRunningWakes ==
  ASSUME WakeInv, QueueInv', NEW u \in Loggers, SetRunning(u)
  PROVE  WakeInv'
<1>0. /\ Types /\ LogTypes /\ StartOK /\ AbortOK /\ AliveOK
  BY DEF WakeInv, QueueInv
<1>1. PICK x : /\ pc' = [pc EXCEPT ![u] = x]
               /\ \/ pc[u] = "assign" /\ x = "add"
                  \/ pc[u] = "reassign" /\ x = "added"
               /\ UNCHANGED queueState
               /\ running' = proc[u] /\ proc' = [proc EXCEPT ![u] = deadProcess]
  BY DEF SetRunning
<1>2. /\ CountOK'
      /\ pc'[u] = x /\ \A q \in Procs \ {u} : pc'[q] = pc[q]
      /\ \A h : IsAlive(h)' <=> IsAlive(h)
      /\ SomeAlive' <=> SomeAlive
      /\ (WillStart => WillStart' \/ \E h \in Handlers : Looks(h)') => Looked'
  BY <1>1, LoggerStep
<1>3. LogTypes'
  BY <1>0, <1>1 DEF LogTypes
<1>4. StartOK'
  BY <1>0, <1>1, <1>2, Constants DEF StartOK, LogTypes, IsAlive
<1>5. AbortOK'
  BY <1>0, <1>1, <1>2, Constants DEF AbortOK, LogTypes, IsAlive
<1>6. AliveOK'
  <2>1. IsAlive(proc[u]) => SomeAlive
    BY DEF SomeAlive, IsAlive
  <2>2. QED  BY <1>0, <1>1, <1>2, <2>1, Constants DEF AliveOK, Replacing, StartOK
<1>7. Looked'
  BY <1>0, <1>1, <1>2, Constants DEF WillStart, Replacing
<1>8. QED  BY <1>2, <1>3, <1>4, <1>5, <1>6, <1>7 DEF WakeInv

\* hup is not sent while a handler is being started.
LEMMA HupWakes ==
  ASSUME WakeInv, QueueInv', NEW u \in Loggers, ~Overlapping, Hup(u)
  PROVE  WakeInv'
<1>0. /\ Types /\ LogTypes /\ StartOK /\ AbortOK /\ AliveOK
  BY DEF WakeInv, QueueInv
<1>1. PICK x : /\ pc' = [pc EXCEPT ![u] = x] /\ pc[u] = "added" /\ x = "abort"
               /\ \A v \in Loggers : pc[v] \notin Starting
               /\ UNCHANGED <<queueState, running>>
               /\ proc' = [proc EXCEPT ![u] = running]
  BY DEF Hup
<1>2. /\ CountOK'
      /\ pc'[u] = x /\ \A q \in Procs \ {u} : pc'[q] = pc[q]
      /\ \A h : IsAlive(h)' <=> IsAlive(h)
      /\ SomeAlive' <=> SomeAlive
      /\ (WillStart => WillStart' \/ \E h \in Handlers : Looks(h)') => Looked'
  BY <1>1, LoggerStep
<1>3. LogTypes'
  BY <1>0, <1>1 DEF LogTypes
<1>4. StartOK'
  BY <1>0, <1>1, <1>2, Constants DEF StartOK, LogTypes
<1>5. AbortOK'
  BY <1>0, <1>1, <1>2, Constants DEF AbortOK, LogTypes, IsAlive
<1>6. AliveOK'
  BY <1>0, <1>1, <1>2, Constants DEF AliveOK, Replacing
<1>7. Looked'
  BY <1>0, <1>1, <1>2, Constants DEF WillStart, Replacing
<1>8. QED  BY <1>2, <1>3, <1>4, <1>5, <1>6, <1>7 DEF WakeInv

\* What running was need not be alive: hup starts a handler, unless another has
\* just done so.
LEMMA ForgetRunningWakes ==
  ASSUME WakeInv, QueueInv', NEW u \in Loggers, ForgetRunning(u)
  PROVE  WakeInv'
<1>0. /\ Types /\ LogTypes /\ StartOK /\ AbortOK /\ AliveOK
  BY DEF WakeInv, QueueInv
<1>1. PICK x : /\ pc' = [pc EXCEPT ![u] = x] /\ pc[u] = "forget" /\ x = "check"
               /\ UNCHANGED <<queueState, proc>>
               /\ running' = deadProcess
  BY DEF ForgetRunning
<1>2. /\ CountOK'
      /\ pc'[u] = x /\ \A q \in Procs \ {u} : pc'[q] = pc[q]
      /\ \A h : IsAlive(h)' <=> IsAlive(h)
      /\ SomeAlive' <=> SomeAlive
      /\ (WillStart => WillStart' \/ \E h \in Handlers : Looks(h)') => Looked'
  BY <1>1, LoggerStep
<1>3. LogTypes'
  BY <1>0, <1>1 DEF LogTypes
<1>4. StartOK'
  BY <1>0, <1>1, <1>2, Constants DEF StartOK, IsAlive
<1>5. AbortOK'
  BY <1>0, <1>1, <1>2, Constants DEF AbortOK, IsAlive
<1>6. AliveOK'
  BY <1>0, <1>1, <1>2, Constants DEF AliveOK, Replacing
<1>7. Looked'
  BY <1>0, <1>1, <1>2, Constants DEF WillStart, Replacing, IsAlive
<1>8. QED  BY <1>2, <1>3, <1>4, <1>5, <1>6, <1>7 DEF WakeInv

\* hup starts a handler if running is not alive.
LEMMA EnsureRunningWakes ==
  ASSUME WakeInv, QueueInv', NEW u \in Loggers, EnsureRunning(u)
  PROVE  WakeInv'
<1>0. /\ Types /\ LogTypes /\ StartOK /\ AbortOK /\ AliveOK
  BY DEF WakeInv, QueueInv
<1>1. PICK x : /\ pc' = [pc EXCEPT ![u] = x] /\ pc[u] = "check"
               /\ \/ x = "added" /\ IsAlive(running)
                  \/ x = "restart" /\ ~IsAlive(running)
               /\ UNCHANGED <<queueState, logVars>>
  BY DEF EnsureRunning, AfterCheck
<1>2. /\ CountOK'
      /\ pc'[u] = x /\ \A q \in Procs \ {u} : pc'[q] = pc[q]
      /\ \A h : IsAlive(h)' <=> IsAlive(h)
      /\ SomeAlive' <=> SomeAlive
      /\ (WillStart => WillStart' \/ \E h \in Handlers : Looks(h)') => Looked'
  BY <1>1, LoggerStep
<1>3. LogTypes'
  BY <1>0, <1>1 DEF LogTypes
<1>4. StartOK'
  BY <1>0, <1>1, <1>2, Constants DEF StartOK
<1>5. AbortOK'
  BY <1>0, <1>1, <1>2, Constants DEF AbortOK
<1>6. AliveOK'
  <2>1. IsAlive(running) => SomeAlive
    BY DEF SomeAlive, IsAlive
  <2>2. QED  BY <1>0, <1>1, <1>2, <2>1, Constants DEF AliveOK, Replacing, StartOK
<1>7. Looked'
  BY <1>0, <1>1, <1>2, Constants DEF WillStart, Replacing
<1>8. QED  BY <1>2, <1>3, <1>4, <1>5, <1>6, <1>7 DEF WakeInv

\* A new handler looks at the queue.
LEMMA StartRunningWakes ==
  ASSUME WakeInv, QueueInv', NEW u \in Loggers, StartRunning(u)
  PROVE  WakeInv'
<1>0. /\ Types /\ LogTypes /\ StartOK /\ AbortOK /\ AliveOK
  BY DEF WakeInv, QueueInv
<1>1. PICK h \in Fresh, x \in {"assign", "reassign"} :
        /\ pc' = [pc EXCEPT ![h] = "remove", ![u] = x]
        /\ pc[u] = IF x = "assign" THEN "start" ELSE "restart"
        /\ proc' = [proc EXCEPT ![u] = h]
        /\ UNCHANGED <<queueState, running>>
  <2> DEFINE first == CHOOSE h \in Fresh : TRUE
  <2>1. first \in Fresh
    BY DEF StartRunning
  <2> HIDE DEF first
  <2>2. QED  BY <2>1 DEF StartRunning, first
<1>2. /\ pc' = [pc EXCEPT ![h] = "remove", ![u] = x]
      /\ pc[u] = IF x = "assign" THEN "start" ELSE "restart"
      /\ proc' = [proc EXCEPT ![u] = h]
      /\ UNCHANGED <<queueState, running>>
  BY <1>1
<1>3. /\ h \in Handlers /\ pc[h] = "dead" /\ h # running
      /\ \A v \in Loggers : proc[v] # h
  BY <1>1 DEF Fresh
<1>4. /\ pc'[h] = "remove" /\ pc'[u] = x
      /\ \A q \in Procs \ {h, u} : pc'[q] = pc[q]
  BY <1>0, <1>2, <1>3, Constants DEF Types, PcOK
<1>5. IsAlive(h)' /\ \A g : g # h => (IsAlive(g)' <=> IsAlive(g))
  <2>1. \A g \in Handlers \ {h} : pc'[g] = pc[g]
    BY <1>4, Constants
  <2>2. QED  BY <1>3, <1>4, <2>1 DEF IsAlive
<1>6. \A v \in Loggers \ {u} : pc'[v] = pc[v]
  BY <1>3, <1>4, Constants
<1>7. LogTypes'
  BY <1>0, <1>2, <1>3 DEF LogTypes
<1>8. CountOK'
  <2>1. Counting' \subseteq Counting
    BY <1>3, <1>4, Constants DEF Counting
  <2>2. QED  BY <1>2, <2>1, CountKept DEF WakeInv, QueueInv
<1>9. StartOK'
  BY <1>0, <1>2, <1>3, <1>4, <1>5, <1>6 DEF StartOK, LogTypes
<1>10. AbortOK'
  <2> SUFFICES ASSUME NEW v \in Loggers, pc'[v] = "abort", IsAlive(proc[v])'
               PROVE  running' = proc'[v] /\ \A w \in Loggers \ {v} : pc'[w] \notin Starting
    BY DEF AbortOK
  <2>1. v # u /\ pc[v] = "abort" /\ proc'[v] = proc[v]
    BY <1>0, <1>2, <1>4, <1>6 DEF LogTypes
  <2>2. proc[v] # h /\ IsAlive(proc[v])
    BY <1>3, <1>5, <2>1
  <2>3. QED  BY <1>0, <1>2, <2>1, <2>2 DEF AbortOK
<1>11. AliveOK'
  BY <1>3, <1>5 DEF AliveOK, SomeAlive
<1>12. Looked'
  BY <1>3, <1>4, <1>5 DEF Looked, Looks
<1>13. QED  BY <1>7, <1>8, <1>9, <1>10, <1>11, <1>12 DEF WakeInv

\* hup: the process that is aborted is running, and its logger replaces it.
LEMMA AbortWakes ==
  ASSUME WakeInv, QueueInv', NEW u \in Loggers, AbortIfLive(u)
  PROVE  WakeInv'
<1>0. /\ Types /\ LogTypes /\ StartOK /\ AbortOK /\ AliveOK
  BY DEF WakeInv, QueueInv
<1> DEFINE h == proc[u]
<1>1. CASE ~IsAlive(h)
  <2>1. PICK x : /\ pc' = [pc EXCEPT ![u] = x] /\ pc[u] = "abort" /\ x = "forget"
                 /\ UNCHANGED <<queueState, running>>
                 /\ proc' = [proc EXCEPT ![u] = deadProcess]
    BY <1>1 DEF AbortIfLive
  <2>2. /\ CountOK'
        /\ pc'[u] = x /\ \A q \in Procs \ {u} : pc'[q] = pc[q]
        /\ \A g : IsAlive(g)' <=> IsAlive(g)
        /\ SomeAlive' <=> SomeAlive
        /\ (WillStart => WillStart' \/ \E g \in Handlers : Looks(g)') => Looked'
    BY <2>1, LoggerStep
  <2>3. LogTypes'
    BY <1>0, <2>1 DEF LogTypes
  <2>4. StartOK'
    BY <1>0, <2>1, <2>2, Constants DEF StartOK, IsAlive, LogTypes
  <2>5. AbortOK'
    BY <1>0, <2>1, <2>2, Constants DEF AbortOK, LogTypes
  <2>6. AliveOK'
    BY <1>0, <2>1, <2>2, Constants DEF AliveOK, Replacing
  <2>7. Looked'
    BY <2>1, <2>2, Constants DEF WillStart, Replacing
  <2>8. QED  BY <2>2, <2>3, <2>4, <2>5, <2>6, <2>7 DEF WakeInv
<1>2. CASE IsAlive(h)
  <2>1. /\ pc[u] = "abort" /\ h \in Handlers
        /\ pc' = [pc EXCEPT ![u] = "forget", ![h] = "dead"]
        /\ proc' = [proc EXCEPT ![u] = deadProcess]
        /\ UNCHANGED <<rep, count, running>>
    BY <1>2 DEF AbortIfLive, IsAlive
  <2>2. \A v \in Loggers \ {u} : pc[v] \notin Starting
    BY <1>0, <1>2, <2>1 DEF AbortOK
  <2> HIDE DEF h
  <2>3. /\ pc'[u] = "forget" /\ pc'[h] = "dead"
        /\ \A q \in Procs \ {u, h} : pc'[q] = pc[q]
    BY <1>0, <2>1, Constants DEF Types, PcOK
  <2>4. \A v \in Loggers \ {u} : pc'[v] = pc[v] /\ pc'[v] \notin Starting
    BY <2>1, <2>2, <2>3, Constants
  <2>5. LogTypes'
    BY <1>0, <2>1 DEF LogTypes
  <2>6. CountOK'
    <3>1. Counting' \subseteq Counting
      BY <2>1, <2>3, Constants DEF Counting
    <3>2. QED  BY <2>1, <3>1, CountKept DEF WakeInv, QueueInv
  <2>7. StartOK' /\ AbortOK'
    BY <2>3, <2>4 DEF StartOK, AbortOK
  <2>8. AliveOK'
    BY <2>3 DEF AliveOK, Replacing
  <2>9. WillStart'
    BY <2>3, <2>4 DEF WillStart, Replacing
  <2>10. QED  BY <2>5, <2>6, <2>7, <2>8, <2>9 DEF WakeInv, Looked
<1>3. QED  BY <1>1, <1>2

\* A handler that breaks, or goes on, has an entry, and looks at the queue after
\* it.
LEMMA BreakWakes ==
  ASSUME WakeInv, QueueInv', NEW p \in Handlers, Breaks(p) \/ Continue(p)
  PROVE  WakeInv'
<1>0. /\ Types /\ LogTypes /\ StartOK /\ AbortOK /\ AliveOK
  BY DEF WakeInv, QueueInv
<1>1. UNCHANGED <<queueVars, pc, logVars>> /\ pc[p] = "removed"
  BY DEF Breaks, Continue, Resume, WakeInv, QueueInv, QueuesOK
<1>2. LogTypes' /\ StartOK' /\ AbortOK' /\ AliveOK'
  BY <1>0, <1>1 DEF LogTypes, StartOK, AbortOK, AliveOK, IsAlive, SomeAlive, Replacing
<1>3. CountOK'
  <2>1. Counting' = Counting
    BY <1>1 DEF Counting
  <2>2. QED  BY <1>1, <2>1, CountKept DEF WakeInv, QueueInv
<1>4. Looks(p)'
  BY <1>1 DEF Looks, IsAlive
<1>5. QED  BY <1>2, <1>3, <1>4 DEF WakeInv, Looked

LEMMA WakeInit == Init => WakeInv
<1> SUFFICES ASSUME Init PROVE WakeInv
  OBVIOUS
<1>1. /\ \A u \in Loggers : pc[u] = "added"
      /\ \A h \in Handlers : pc[h] = "dead"
  BY Constants DEF Init
<1>2. CountOK
  <2>1. Counting = {}
    BY <1>1 DEF Counting
  <2>2. QED  BY <2>1, FS_EmptySet DEF Init, QueueInit, CountOK
<1>3. LogTypes /\ Looked
  BY DEF Init, QueueInit, LogTypes, Looked
<1>4. StartOK /\ AbortOK /\ AliveOK
  BY <1>1 DEF StartOK, AbortOK, AliveOK
<1>5. QED  BY <1>2, <1>3, <1>4, QueueInit0 DEF WakeInv

LEMMA WakeKeeps ==
  ASSUME ~Overlapping PROVE WakeInv /\ [Next]_vars => WakeInv'
<1> SUFFICES ASSUME WakeInv, [Next]_vars PROVE WakeInv'
  OBVIOUS
<1>0. QueueInv'
  BY QueueKeeps DEF WakeInv
<1>1. CASE \E p \in Procs : QueueStep(p) /\ UNCHANGED logVars
  <2>1. PICK p \in Procs : QueueStep(p) /\ UNCHANGED logVars
    BY <1>1
  <2>2. CASE p \in Loggers /\ (EnterAdd(p) \/ Adding(p) \/ LeaveAdd(p))
    <3>1. UNCHANGED rep
      BY <2>2 DEF EnterAdd, WaitOn, Adding, LeaveAdd, SignalTo
    <3>2. QED  BY <1>0, <2>1, <2>2, <3>1, LockWakes
  <2>3. CASE p \in Loggers /\ (Link(p) \/ SignalWaiter(p))
    BY <1>0, <2>1, <2>3, LinkWakes, SignalWaiterWakes
  <2>4. CASE /\ p \in Handlers
             /\ \/ EnterRemove(p) \/ Unlink(p) \/ LeaveDone(p) \/ EnterLower(p)
                \/ Lower(p) \/ LeaveLow(p)
    BY <1>0, <2>1, <2>4, AwakeWakes
  <2>5. CASE p \in Handlers /\ (Removing(p) \/ LeaveEmpty(p) \/ Block(p))
    BY <1>0, <2>1, <2>5, RemovingWakes, SleepWakes
  <2>6. QED  BY <2>1, <2>2, <2>3, <2>4, <2>5 DEF QueueStep
<1>2. CASE \E u \in Loggers : \/ StartRunning(u) \/ SetRunning(u) \/ AbortIfLive(u)
                              \/ ForgetRunning(u) \/ EnsureRunning(u)
  BY <1>0, <1>2, StartRunningWakes, SetRunningWakes, AbortWakes, ForgetRunningWakes,
     EnsureRunningWakes
<1>3. CASE \E u \in Loggers : Dispatch(u) \/ Hup(u)
  BY <1>0, <1>3, DispatchWakes, HupWakes
<1>4. CASE \E h \in Handlers : Handled(h) \/ Breaks(h) \/ Continue(h)
  <2>1. ASSUME NEW h \in Handlers, Handled(h) PROVE WakeInv'
    BY <1>0, <2>1, AwakeWakes DEF Handled
  <2>2. QED  BY <1>0, <1>4, <2>1, BreakWakes
<1>5. CASE UNCHANGED vars
  BY <1>0, <1>5
     DEF vars, WakeInv, LogTypes, CountOK, Counting, StartOK, AbortOK, AliveOK, Looked,
         Looks, IsAlive, SomeAlive, Replacing, WillStart, Queued, Permits, Counted
<1>6. QED  BY <1>1, <1>2, <1>3, <1>4, <1>5 DEF Next, Work

\* No entry is left in the log's queue with all handlers asleep, if hup is
\* not sent while a handler is being started.
THEOREM NobodySleepsBesideAnEntry ==
  ASSUME ~Overlapping PROVE Spec => []NoneAsleep
<1>1. WakeInv => NoneAsleep
  <2> SUFFICES ASSUME WakeInv, rep # <<>>,
                      ~ \E u \in Loggers :
                          pc[u] \in {"signalling", "forget", "check", "restart"}
               PROVE  \E h \in Handlers : IsAlive(h) /\ ~Asleep(h)
    BY DEF NoneAsleep
  <2>1. ASSUME NEW h \in Handlers, Asleep(h)
        PROVE  \/ pc[h] = "waiting" /\ h \in Queued(sema, blockSema)
               \/ pc[h] = "blocking" /\ blockSema \notin Permits(sema)
    <3>1. CASE pc[h] = "waiting" /\ Waits(h)
      BY <3>1, Constants DEF WakeInv, QueueInv, QueuesOK, Waits, Queued
    <3>2. CASE pc[h] = "blocking" /\ sema[blockSema].count = 0
      BY <3>2, Constants DEF Permits, Counted
    <3>3. QED  BY <2>1, <3>1, <3>2 DEF Asleep
  <2>2. (\E h \in Handlers : Looks(h)) \/ (blockSema \in Permits(sema) /\ SomeAlive)
    BY DEF WakeInv, Looked, WillStart, Replacing
  <2>3. CASE \E h \in Handlers : Looks(h)
    BY <2>1, <2>3 DEF Looks
  <2>4. CASE blockSema \in Permits(sema) /\ SomeAlive
    BY <2>1, <2>4 DEF WakeInv, QueueInv, QueuesOK, SomeAlive
  <2>5. QED  BY <2>2, <2>3, <2>4
<1>2. QED  BY <1>1, WakeInit, WakeKeeps, PTL DEF Spec
=============================================================================
