------------------------------ MODULE Scheduler ------------------------------
(***************************************************************************)
(* The scheduler of the Self world and the semaphores and barriers that    *)
(* its processes synchronise with (objects/core: scheduler, process,       *)
(* semaphore, recursiveSemaphore, barrier), on top of the two VM           *)
(* primitives that switch processes (_TWAINS and _Yield) and the one that  *)
(* destroys a process (_AbortProcess).                                     *)
(*                                                                         *)
(* One Self process runs at a time.  It runs until it yields an action to  *)
(* the scheduler or a signal preempts it; the scheduler then runs the      *)
(* action, or the signal's handler, to its end and picks another process.  *)
(* A step of this module is therefore either a piece of a user process     *)
(* that signals cannot split, or one action or handler of the scheduler    *)
(* together with the demotion of the process it took the CPU from.         *)
(*                                                                         *)
(* The order inside the readyQ and the timerWaiters (both binary heaps) is *)
(* left open here: any ready process may be scheduled and any timer may    *)
(* expire.  ReadyQueue and TimerWaiters model those orders.                *)
(***************************************************************************)
EXTENDS WaitQueue

CONSTANTS
  Procs,          \* the Self processes other than the scheduler's own
  Initial,        \* those that exist already when the scheduler starts
  Locks,          \* binary semaphores that are used through protect:
  Recursive,      \* the locks that are recursiveSemaphores
  Events,         \* semaphores with bare wait and signal (files, SIGWINCH ...)
  EventCapacity,  \* the capacity of the event semaphores
  Users,          \* which processes use which of those semaphores
  Timeouts,       \* the values of ms that processes pass
  Watched,        \* processes whose suspension or death others wait for
  nullSemaphore,  \* what onSemaphore holds for a process that is on none
  nil             \* no holder

timeoutInfinity == -1

\* The two barriers that each process owns.
SuspensionWaiters(p) == <<"suspensionWaiters", p>>
DeathWaiters(p)      == <<"deathWaiters", p>>
Barriers == {"suspensionWaiters", "deathWaiters"} \X Procs

Semas    == Locks \cup Events
AllSemas == Semas \cup Barriers

ASSUME SemaphoreAssumption ==
  /\ Initial \subseteq Procs
  /\ Watched \subseteq Procs
  /\ Recursive \subseteq Locks
  /\ Locks \cap Events = {}
  /\ Semas \cap Barriers = {}
  /\ nullSemaphore \notin AllSemas
  /\ nil \notin Procs
  /\ EventCapacity \in Nat \ {0}
  /\ Timeouts \subseteq Int
  /\ Users \in [Semas -> SUBSET Procs]

Queues   == {"readyQ", "waitingQ", "suspendedQ"}
Statuses == {"newborn", "running", "ready", "waiting", "suspended", "dead"}

VARIABLES
  status,         \* process.self: processStatus0
  onQueue,        \* process.self: the queue the process believes it is on
  queue,          \* scheduler.self: readyQ, waitingQ, suspendedQ
  timerWaiters,   \* scheduler.self: processes waiting for the real timer
  sleepTime,      \* process.self: requested timeout, 0 once it has expired
  onSemaphore,    \* process.self: the semaphore the process is waiting on
  count,          \* semaphore.self: permits available
  waiters,        \* semaphore.self: queue, the processes waiting, FIFO
  holderProcess,  \* semaphore.self: whom the semaphore was last granted to
  blocking,       \* barrier.self
  alive,          \* the VM still has a Process for the process object
  pc,             \* what the process is in the middle of
  target,         \* the semaphore of that operation
  granted         \* history: to whom a permit went that has not come back

schedVars == <<status, onQueue, queue, timerWaiters>>
semaVars  == <<count, waiters, onSemaphore, holderProcess, granted>>
userVars  == <<pc, target>>
vars == <<schedVars, sleepTime, semaVars, blocking, alive, userVars>>

(***************************************************************************)
(* pc: "idle"        outside any operation                                 *)
(*     "waitYield"   the fast path of a wait has failed, signals are       *)
(*                   unblocked again, _Yield: waitAction comes next        *)
(*     "waited"      the wait (or sleep) is over as soon as the process    *)
(*                   runs; it then looks at its sleepTime                  *)
(*     "critical"    inside protect:, the lock is to be released           *)
(*     "signalYield" the fast path of a signal has failed                  *)
(*     "bypass"      inside protect: of a recursiveSemaphore that this     *)
(*                   process was taken to hold already                     *)
(*     "cleanup"     inside releaseObjects (see Cleanup)                     *)
(***************************************************************************)
PCs == {"idle", "waitYield", "waited", "critical", "signalYield", "bypass", "cleanup"}

\* p goes on at c, in an operation on s.
Goto(p, c, s) ==
  /\ pc' = [pc EXCEPT ![p] = c]
  /\ target' = [target EXCEPT ![p] = s]

-----------------------------------------------------------------------------
(* Scheduler queues. *)

StatusIn == [readyQ |-> "ready", waitingQ |-> "waiting",
             suspendedQ |-> "suspended", noQueue |-> "dead"]

\* loop: a process that is still running when _TWAINS returns becomes ready.
Demoted(p) == IF status[p] = "running" THEN "ready" ELSE status[p]

\* Mutant: moveToQueue:NewStatus: without the change of 8/04 that takes the
\* process off the timerWaiters.
MoveToQueueKeepTimer(dest, timed) ==
  LET moved == DOMAIN dest IN
  /\ queue' = [q \in Queues |->
                 {p \in queue[q] : p \in moved => onQueue[p] # q}
                   \cup {p \in moved : dest[p] = q}]
  /\ onQueue' = [p \in Procs |-> IF p \in moved THEN dest[p] ELSE onQueue[p]]
  /\ status'  = [p \in Procs |-> IF p \in moved THEN StatusIn[dest[p]]
                                                ELSE Demoted(p)]
  /\ timerWaiters' = timerWaiters \cup timed

\* Mutant: moveToQueue:NewStatus: that does not set onQueue.
MoveToQueueKeepOnQueue(dest, timed) ==
  LET moved == DOMAIN dest IN
  /\ queue' = [q \in Queues |->
                 {p \in queue[q] : p \in moved => onQueue[p] # q}
                   \cup {p \in moved : dest[p] = q}]
  /\ UNCHANGED onQueue
  /\ status'  = [p \in Procs |-> IF p \in moved THEN StatusIn[dest[p]]
                                                ELSE Demoted(p)]
  /\ timerWaiters' = (timerWaiters \ moved) \cup timed

\* p moveToQueue: dest[p] NewStatus: ... for every p in DOMAIN dest; the
\* processes in timed are then added to the timerWaiters.
MoveToQueue(dest, timed) ==
  LET moved == DOMAIN dest IN
  /\ queue' = [q \in Queues |->
                 {p \in queue[q] : p \in moved => onQueue[p] # q}
                   \cup {p \in moved : dest[p] = q}]
  /\ onQueue' = [p \in Procs |-> IF p \in moved THEN dest[p] ELSE onQueue[p]]
  /\ status'  = [p \in Procs |-> IF p \in moved THEN StatusIn[dest[p]]
                                                ELSE Demoted(p)]
  /\ timerWaiters' = (timerWaiters \ moved) \cup timed

To(p, q) == [x \in {p} |-> q]

\* The action moves nobody.
DemoteOnly ==
  /\ status' = [p \in Procs |-> Demoted(p)]
  /\ UNCHANGED <<onQueue, queue, timerWaiters>>

Immediate(ms) == 0 >= ms /\ ms # timeoutInfinity

\* moveToWaitingQ: p TimeOut: ms, with the sleepTime set to ms before.
MoveToWaitingQ(p, ms) ==
  IF Immediate(ms)
  THEN /\ DemoteOnly
       /\ sleepTime' = [sleepTime EXCEPT ![p] = 0]
  ELSE /\ MoveToQueue(To(p, "waitingQ"), IF ms = timeoutInfinity THEN {} ELSE {p})
       /\ sleepTime' = [sleepTime EXCEPT ![p] = ms]

Running(p) == status[p] = "running"

\* schedule, transfer: any process of the readyQ may come first here.
Schedule(p) ==
  /\ \A r \in Procs : ~Running(r)
  /\ p \in queue["readyQ"]
  /\ alive[p]
  /\ status' = [status EXCEPT ![p] = "running"]
  /\ UNCHANGED <<onQueue, queue, timerWaiters, sleepTime, semaVars, blocking,
                 alive, userVars>>

\* sigcputimer (its handler is empty), or a process that yields.
Preempt(p) ==
  /\ Running(p)
  /\ DemoteOnly
  /\ UNCHANGED <<sleepTime, semaVars, blocking, alive, userVars>>

-----------------------------------------------------------------------------
(* Semaphores. *)

Capacity(s) == IF s \in Events THEN EventCapacity ELSE 1

\* fastWait, or decCountIfZeroDo: with a permit left.
Acquire(p, s) ==
  /\ count' = [count EXCEPT ![s] = @ - 1]
  /\ holderProcess' = [holderProcess EXCEPT ![s] = p]
  /\ granted' = [granted EXCEPT ![s] = @ \cup {p}]

\* fastSignal; inScheduler, it leaves the holderProcess alone.
FastSignal(p, s, inScheduler) ==
  /\ count' = [count EXCEPT ![s] = IF @ < Capacity(s) THEN @ + 1 ELSE @]
  /\ holderProcess' = IF inScheduler THEN holderProcess
                      ELSE [holderProcess EXCEPT ![s] = nil]
  /\ granted' = [granted EXCEPT ![s] = @ \ {p}]

\* Mutant: transferSemaphore that also counts the permit it hands over.
TransferSemaphoreAndCount(p, s) ==
  LET q == Head(waiters[s]) IN
  /\ waiters' = [waiters EXCEPT ![s] = Tail(@)]
  /\ onSemaphore' = [onSemaphore EXCEPT ![q] = nullSemaphore]
  /\ holderProcess' = [holderProcess EXCEPT ![s] = q]
  /\ granted' = [granted EXCEPT ![s] = (@ \ {p}) \cup {q}]
  /\ MoveToQueue(To(q, "readyQ"), {})
  /\ count' = [count EXCEPT ![s] = @ + 1]

\* transferSemaphore: the permit that p gives back goes to the first waiter.
TransferSemaphore(p, s) ==
  LET q == Head(waiters[s]) IN
  /\ waiters' = [waiters EXCEPT ![s] = Tail(@)]
  /\ onSemaphore' = [onSemaphore EXCEPT ![q] = nullSemaphore]
  /\ holderProcess' = [holderProcess EXCEPT ![s] = q]
  /\ granted' = [granted EXCEPT ![s] = (@ \ {p}) \cup {q}]
  /\ MoveToQueue(To(q, "readyQ"), {})
  /\ UNCHANGED count

\* semaphoreSignal, in the scheduler.
SemaphoreSignal(p, s) ==
  IF waiters[s] = <<>>
  THEN /\ FastSignal(p, s, TRUE)
       /\ DemoteOnly
       /\ UNCHANGED <<waiters, onSemaphore>>
  ELSE TransferSemaphore(p, s)

JoinQueue(p, s) ==
  /\ waiters' = [waiters EXCEPT ![s] = Append(@, p)]
  /\ onSemaphore' = [onSemaphore EXCEPT ![p] = s]
  /\ UNCHANGED <<count, holderProcess, granted>>

\* suspendOnSemaphore: join the queue even if the timeout is immediate.
SuspendOnSemaphore(p, s) ==
  /\ JoinQueue(p, s)
  /\ MoveToWaitingQ(p, sleepTime[p])

\* suspendOnSemaphore in a redone wait: resume: has made p ready, and an
\* immediate timeout leaves it so.
SuspendAgain(p, s) ==
  IF Immediate(sleepTime[p])
  THEN /\ JoinQueue(p, s)
       /\ MoveToQueue(To(p, "readyQ"), {})
       /\ sleepTime' = [sleepTime EXCEPT ![p] = 0]
  ELSE SuspendOnSemaphore(p, s)

\* Mutants: semaphoreWait that does not look at the count again, taking a
\* permit whatever it is, or joining the queue whatever it is.
PassesAlways(s) == TRUE
PassesNever(s) == FALSE

\* The semaphore lets p pass at once: a barrier that is down, a permit left.
Passes(s) == IF s \in Barriers THEN ~blocking[s] ELSE count[s] > 0

\* waitTimeOut: ms, up to the end of the fast path.
WaitTimeOut(p, s, ms) ==
  /\ Running(p) /\ pc[p] = "idle"
  /\ ms # 0
  /\ s \in Recursive => holderProcess[s] # p
  /\ sleepTime' = [sleepTime EXCEPT ![p] = ms]
  /\ \/ /\ count[s] > 0
        /\ Acquire(p, s)
        /\ Goto(p, "waited", s)
     \/ /\ count[s] = 0
        /\ Goto(p, "waitYield", s)
        /\ UNCHANGED <<count, holderProcess, granted>>
  /\ UNCHANGED <<schedVars, waiters, onSemaphore, blocking, alive>>

\* _Yield: waitAction, and semaphoreWait in the scheduler.
SemaphoreWait(p) ==
  LET s == target[p] IN
  /\ Running(p) /\ pc[p] = "waitYield"
  /\ Goto(p, "waited", s)
  /\ \/ /\ Passes(s) /\ s \in Semas
        /\ Acquire(p, s)
        /\ DemoteOnly
        /\ UNCHANGED <<waiters, onSemaphore, sleepTime>>
     \/ /\ Passes(s) /\ s \in Barriers
        /\ DemoteOnly
        /\ UNCHANGED <<semaVars, sleepTime>>
     \/ /\ ~Passes(s)
        /\ SuspendOnSemaphore(p, s)
  /\ UNCHANGED <<blocking, alive>>

\* Mutant: protect: runs its block whatever waitTimeOut: has returned.
WaitReturnUnchecked(p) ==
  LET s == target[p] IN
  /\ Running(p) /\ pc[p] = "waited"
  /\ IF s \in Locks
     THEN Goto(p, "critical", s) ELSE Goto(p, "idle", nullSemaphore)
  /\ granted' = IF s \in Events
                THEN [granted EXCEPT ![s] = @ \ {p}] ELSE granted
  /\ UNCHANGED <<schedVars, sleepTime, count, waiters, onSemaphore,
                 holderProcess, blocking, alive>>

\* The end of waitTimeOut: or sleep:, where the process learns whether it
\* timed out.  protect: then runs its block; an event's permit is consumed.
WaitReturn(p) ==
  LET s == target[p]
      timedOut == sleepTime[p] = 0
  IN
  /\ Running(p) /\ pc[p] = "waited"
  /\ IF s \in Locks /\ ~timedOut
     THEN Goto(p, "critical", s) ELSE Goto(p, "idle", nullSemaphore)
  /\ granted' = IF s \in Events /\ ~timedOut
                THEN [granted EXCEPT ![s] = @ \ {p}] ELSE granted
  /\ UNCHANGED <<schedVars, sleepTime, count, waiters, onSemaphore,
                 holderProcess, blocking, alive>>

\* unchecked_signal, up to the end of the fast path.  A lock is signalled at
\* the end of protect:, an event by anyone.
UncheckedSignal(p, s) ==
  /\ Running(p)
  /\ \/ pc[p] = "critical" /\ s \in Locks /\ s = target[p]
     \/ pc[p] = "idle" /\ s \in Events
  /\ \/ /\ waiters[s] = <<>>
        /\ FastSignal(p, s, FALSE)
        /\ Goto(p, "idle", nullSemaphore)
     \/ /\ waiters[s] # <<>>
        /\ Goto(p, "signalYield", s)
        /\ UNCHANGED <<count, holderProcess, granted>>
  /\ UNCHANGED <<schedVars, sleepTime, waiters, onSemaphore, blocking, alive>>

\* _Yield: signalAction.
YieldSignal(p) ==
  /\ Running(p) /\ pc[p] = "signalYield"
  /\ SemaphoreSignal(p, target[p])
  /\ Goto(p, "idle", nullSemaphore)
  /\ UNCHANGED <<sleepTime, blocking, alive>>

\* A file, SIGHUP or SIGWINCH signal: the scheduler itself signals an event.
SigIO(s) ==
  /\ s \in Events
  /\ SemaphoreSignal(nil, s)
  /\ UNCHANGED <<sleepTime, blocking, alive, userVars>>

\* protect: of a recursiveSemaphore that is held by this process, and its end.
Bypass(p, s) ==
  /\ Running(p)
  /\ \/ /\ pc[p] = "idle"
        /\ s \in Recursive /\ holderProcess[s] = p
        /\ Goto(p, "bypass", s)
     \/ /\ pc[p] = "bypass" /\ target[p] = s
        /\ Goto(p, "idle", nullSemaphore)
  /\ UNCHANGED <<schedVars, sleepTime, semaVars, blocking, alive>>

-----------------------------------------------------------------------------
(* Sleeping and the real timer. *)

\* sleep: ms of the process itself.
Sleep(p, ms) ==
  /\ Running(p) /\ pc[p] = "idle"
  /\ MoveToWaitingQ(p, ms)
  /\ Goto(p, "waited", nullSemaphore)
  /\ UNCHANGED <<semaVars, blocking, alive>>

\* Mutant: sigrealtimer without fullyRemoveFromSemaphore.
SigRealTimerStayQueued(p) ==
  /\ p \in timerWaiters
  /\ IF status[p] = "waiting"
     THEN /\ sleepTime' = [sleepTime EXCEPT ![p] = 0]
          /\ MoveToQueue(To(p, "readyQ"), {})
     ELSE /\ timerWaiters' = timerWaiters \ {p}
          /\ status' = [r \in Procs |-> Demoted(r)]
          /\ UNCHANGED <<sleepTime, onQueue, queue>>
  /\ UNCHANGED <<semaVars, blocking, alive, userVars>>

\* One round of the loop in sigrealtimer, for an expired timer.
SigRealTimer(p) ==
  /\ p \in timerWaiters
  /\ onSemaphore' = [onSemaphore EXCEPT ![p] = nullSemaphore]
  /\ waiters' = [s \in AllSemas |-> IF s = onSemaphore[p] THEN Without(waiters[s], p)
                                                          ELSE waiters[s]]
  /\ IF status[p] = "waiting"
     THEN /\ sleepTime' = [sleepTime EXCEPT ![p] = 0]
          /\ MoveToQueue(To(p, "readyQ"), {})
     ELSE /\ timerWaiters' = timerWaiters \ {p}
          /\ status' = [r \in Procs |-> Demoted(r)]
          /\ UNCHANGED <<sleepTime, onQueue, queue>>
  /\ UNCHANGED <<count, holderProcess, granted, blocking, alive, userVars>>

-----------------------------------------------------------------------------
(* Suspending, resuming and aborting processes. *)

\* A process at a point where it may act on another process (or on itself).
Client(p) == Running(p) /\ pc[p] \in {"idle", "critical"}

\* Mutant: suspend: and kill:For: that leave p on its semaphore's queue.
ReleaseAndMoveStayQueued(p, bs, dest) ==
  LET released == UNION {Elems(waiters[b]) : b \in bs} \ {p} IN
  /\ waiters' = [s \in AllSemas |-> IF s \in bs THEN <<>> ELSE waiters[s]]
  /\ blocking' = [b \in Barriers |-> b \notin bs /\ blocking[b]]
  /\ onSemaphore' = [r \in Procs |->
                       IF r \in released \/ (r = p /\ dest = "noQueue")
                       THEN nullSemaphore ELSE onSemaphore[r]]
  /\ MoveToQueue([r \in released \cup {p} |-> IF r = p THEN dest ELSE "readyQ"], {})

\* Release the barriers bs (blocking: false, signalAll) after p has left the
\* semaphore it was on; p then goes to dest, the released processes to readyQ.
ReleaseAndMove(p, bs, dest) ==
  LET left(s)  == IF s = onSemaphore[p] THEN Without(waiters[s], p) ELSE waiters[s]
      released == UNION {Elems(left(b)) : b \in bs}
  IN
  /\ waiters' = [s \in AllSemas |-> IF s \in bs THEN <<>> ELSE left(s)]
  /\ blocking' = [b \in Barriers |-> b \notin bs /\ blocking[b]]
  /\ onSemaphore' = [r \in Procs |->
                       IF r \in released \/ (r = p /\ dest = "noQueue")
                       THEN nullSemaphore ELSE onSemaphore[r]]
  /\ MoveToQueue([r \in released \cup {p} |-> IF r = p THEN dest ELSE "readyQ"], {})

\* suspend: q.  The semaphore stays in onSemaphore: resume: retries the wait.
Suspend(p, q) ==
  /\ Client(p)
  /\ IF status[q] # "suspended"
     THEN ReleaseAndMove(q, {SuspensionWaiters(q)}, "suspendedQ")
     ELSE DemoteOnly /\ UNCHANGED <<waiters, blocking, onSemaphore>>
  /\ UNCHANGED <<sleepTime, count, holderProcess, granted, alive, userVars>>

\* resume: q, with permitSuspensionWaiters and redoSemaphoreWait.
Resume(p, q) ==
  LET s == onSemaphore[q] IN
  /\ Client(p)
  /\ IF status[q] = "suspended"
     THEN /\ blocking' = [blocking EXCEPT ![SuspensionWaiters(q)] = TRUE]
          /\ \/ /\ s = nullSemaphore \/ (s \in Barriers /\ ~blocking'[s])
                /\ MoveToQueue(To(q, "readyQ"), {})
                /\ onSemaphore' = [onSemaphore EXCEPT ![q] = nullSemaphore]
                /\ UNCHANGED <<sleepTime, count, waiters, holderProcess, granted>>
             \/ /\ s \in Semas /\ count[s] > 0
                /\ Acquire(q, s)
                /\ MoveToQueue(To(q, "readyQ"), {})
                /\ onSemaphore' = [onSemaphore EXCEPT ![q] = nullSemaphore]
                /\ UNCHANGED <<sleepTime, waiters>>
             \/ /\ \/ s \in Semas /\ count[s] = 0
                   \/ s \in Barriers /\ blocking'[s]
                /\ SuspendAgain(q, s)
     ELSE DemoteOnly /\ UNCHANGED <<blocking, sleepTime, semaVars>>
  /\ UNCHANGED <<alive, userVars>>

\* Mutant: kill:For: without signalDeathWaiters.
KillSilently(q) == ReleaseAndMove(q, {SuspensionWaiters(q)}, "noQueue")

\* kill: q For: reason.
Kill(q) == ReleaseAndMove(q, {SuspensionWaiters(q), DeathWaiters(q)}, "noQueue")

\* The unwinding that _AbortProcess makes q do: the clean-up block of protect:
\* runs, but its _Yield does nothing since no _TWAINS is in progress.
UnwindProtect(q) ==
  LET s == target[q] IN
  IF alive[q] /\ pc[q] = "critical" /\ waiters[s] = <<>>
  THEN FastSignal(q, s, FALSE)
  ELSE UNCHANGED <<count, holderProcess, granted>>

\* abort: q
Abort(p, q) ==
  /\ Client(p)
  /\ Kill(q)
  /\ UnwindProtect(q)
  /\ alive' = [alive EXCEPT ![q] = FALSE]
  /\ UNCHANGED <<sleepTime, userVars>>

\* A process that has executed its last method: _TWAINS returns 'terminated'.
Terminate(p) ==
  /\ Running(p) /\ pc[p] = "idle"
  /\ Kill(p)
  /\ alive' = [alive EXCEPT ![p] = FALSE]
  /\ UNCHANGED <<sleepTime, count, holderProcess, granted, userVars>>

\* The scheduled process has died: _TWAINS fails and the scheduler kills it.
NoProcessError(p) ==
  /\ \A r \in Procs : ~Running(r)
  /\ p \in queue["readyQ"]
  /\ ~alive[p]
  /\ Kill(p)
  /\ UNCHANGED <<sleepTime, count, holderProcess, granted, alive, userVars>>

-----------------------------------------------------------------------------
Init ==
  /\ status  = [p \in Procs |-> IF p \in Initial THEN "ready" ELSE "newborn"]
  /\ onQueue = [p \in Procs |-> IF p \in Initial THEN "readyQ" ELSE "noQueue"]
  /\ queue   = [q \in Queues |-> IF q = "readyQ" THEN Initial ELSE {}]
  /\ timerWaiters = {}
  /\ sleepTime     = [p \in Procs |-> timeoutInfinity]
  /\ onSemaphore   = [p \in Procs |-> nullSemaphore]
  /\ count         = [s \in AllSemas |-> IF s \in Locks THEN 1 ELSE 0]
  /\ waiters       = [s \in AllSemas |-> <<>>]
  /\ holderProcess = [s \in Semas |-> nil]
  /\ blocking      = [b \in Barriers |-> TRUE]
  /\ alive   = [p \in Procs |-> TRUE]
  /\ pc      = [p \in Procs |-> "idle"]
  /\ target  = [p \in Procs |-> nullSemaphore]
  /\ granted = [s \in Semas |-> {}]

Next ==
  \/ \E p \in Procs :
       \/ Schedule(p) \/ Preempt(p) \/ NoProcessError(p)
       \/ \E s \in Semas, ms \in Timeouts : p \in Users[s] /\ WaitTimeOut(p, s, ms)
       \/ \E q \in Watched : \/ WaitTimeOut(p, SuspensionWaiters(q), timeoutInfinity)
                            \/ WaitTimeOut(p, DeathWaiters(q), timeoutInfinity)
       \/ SemaphoreWait(p) \/ WaitReturn(p)
       \/ \E s \in Semas : p \in Users[s] /\ (UncheckedSignal(p, s) \/ Bypass(p, s))
       \/ YieldSignal(p)
       \/ \E ms \in Timeouts : Sleep(p, ms)
       \/ SigRealTimer(p)
       \/ \E q \in Procs : Suspend(p, q) \/ Resume(p, q) \/ Abort(p, q)
       \/ Terminate(p)
  \/ \E s \in Events : SigIO(s)

Spec == Init /\ [][Next]_vars

-----------------------------------------------------------------------------
(* Properties. *)

TypeOK ==
  /\ status  \in [Procs -> Statuses]
  /\ onQueue \in [Procs -> Queues \cup {"noQueue"}]
  /\ queue   \in [Queues -> SUBSET Procs]
  /\ timerWaiters \subseteq Procs
  /\ sleepTime     \in [Procs -> Int]
  /\ onSemaphore   \in [Procs -> AllSemas \cup {nullSemaphore}]
  /\ count         \in [AllSemas -> Nat]
  /\ waiters       \in [AllSemas -> Seq(Procs)]
  /\ holderProcess \in [Semas -> Procs \cup {nil}]
  /\ blocking      \in [Barriers -> BOOLEAN]
  /\ alive   \in [Procs -> BOOLEAN]
  /\ pc      \in [Procs -> PCs]
  /\ target  \in [Procs -> AllSemas \cup {nullSemaphore}]
  /\ granted \in [Semas -> SUBSET Procs]

\* Every process is on the queue it believes it is on and on no other, that
\* queue is the one its status calls for, and at most one process runs: the
\* invariant moveToQueue:NewStatus: (process.self:858) has to keep although
\* the queue, the onQueue slot and the status are updated one by one.
QueuesAgree ==
  /\ \A q \in Queues : queue[q] = {p \in Procs : onQueue[p] = q}
  /\ \A p \in Procs :
       /\ onQueue[p] = "readyQ"     <=> status[p] \in {"ready", "running"}
       /\ onQueue[p] = "waitingQ"   <=> status[p] = "waiting"
       /\ onQueue[p] = "suspendedQ" <=> status[p] = "suspended"
  /\ \A p, r \in Procs : Running(p) /\ Running(r) => p = r

\* Only waiting processes have a timer: one whose semaphore was signalled, or
\* that was suspended or aborted, is not timed out later (process.self:1026).
TimersAreForWaiters == timerWaiters \subseteq queue["waitingQ"]

\* A process is on the queue of a semaphore exactly when it waits and names
\* that semaphore, and it is there once.  A suspended process keeps the name
\* but has left the queue (scheduler.self:1155, semaphore.self:485).
WaitersAgree ==
  /\ \A s \in AllSemas, p \in Procs :
       p \in Elems(waiters[s]) <=> status[p] = "waiting" /\ onSemaphore[p] = s
  /\ \A s \in AllSemas : \A i, j \in DOMAIN waiters[s] :
       waiters[s][i] = waiters[s][j] => i = j

\* Nobody waits for a semaphore that has a permit: no interleaving of a fast
\* path with a yielded action loses a wakeup (semaphore.self:667, 697).
NoLostWakeup == \A s \in Semas : count[s] > 0 => waiters[s] = <<>>

\* A lock has one permit, and it is either free or granted to one process.
PermitConservation ==
  \A s \in Locks :
    /\ count[s] \in {0, 1}
    /\ count[s] = 1 <=> granted[s] = {}
    /\ \A p, r \in granted[s] : p = r

\* p was granted s, or believes so: it is inside protect:, or its wait is
\* over and will not be reported as timed out.
Believes(p, s) ==
  /\ target[p] = s
  /\ \/ pc[p] \in {"critical", "signalYield"} /\ s \in Locks
     \/ /\ pc[p] = "waited"
        /\ onSemaphore[p] = nullSemaphore
        /\ sleepTime[p] # 0

\* A live process was granted a semaphore exactly if its wait reports so,
\* although the report is no more than a test of sleepTime, which the timer,
\* the signaller and resume: all race for (semaphore.self:691-701).
TimedOutIffNotGranted ==
  \A p \in Procs, s \in Semas : alive[p] => (p \in granted[s] <=> Believes(p, s))

\* At most one live process is inside protect: of a lock.
MutualExclusion ==
  \A s \in Locks, p, r \in Procs :
    LET Inside(x) == alive[x] /\ pc[x] \in {"critical", "bypass"} /\ target[x] = s
    IN  Inside(p) /\ Inside(r) => p = r

\* Nobody waits for the death of a process that is dead, nor for the
\* suspension of one that is suspended or dead: the barrier is opened by every
\* way of dying, and closed again by resume: (scheduler.self:787, 820).
NoMissedRelease ==
  \A p, q \in Procs : status[p] = "waiting" =>
    /\ onSemaphore[p] = DeathWaiters(q) => alive[q]
    /\ onSemaphore[p] = SuspensionWaiters(q) => status[q] \notin {"suspended", "dead"}
=============================================================================
