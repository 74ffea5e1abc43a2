-------------------------------- MODULE Monitor --------------------------------
(***************************************************************************)
(* The monitor of objects/core/monitor.self, used by processes that add to *)
(* and remove from a bounded buffer as its monitorTest does: each enters   *)
(* the monitor (several times over, if it nests), waits before each        *)
(* operation for the condition of that operation, and leaves.              *)
(*                                                                         *)
(* Whoever is in the monitor holds the one permit of its two semaphores;   *)
(* to leave, or to wait for a condition, is to pass it on.                 *)
(***************************************************************************)
EXTENDS Semaphores

CONSTANTS
  Producers,   \* the processes that add to the buffer, the others remove
  Limit,       \* the size at which the buffer is full
  Repeats,     \* operations of a process each time it is in the monitor
  Nesting,     \* how many times over each process enters
  Suspendable, \* processes that others suspend and resume
  nil          \* no process

monitorSemaphore   == "monitorSemaphore"
conditionSemaphore == "conditionSemaphore"

ASSUME MonitorAssumption ==
  /\ Semas = {monitorSemaphore, conditionSemaphore}
  /\ nullSemaphore \notin Semas
  /\ Procs \cap Semas = {}
  /\ nil \notin Procs
  /\ Suspendable \subseteq Procs
  /\ Limit \in Nat \ {0}
  /\ Repeats \in Nat
  /\ Nesting \in [Procs -> Nat \ {0}]

VARIABLES
  holdingProcess,  \* monitor.self
  holdCount,       \* monitor.self
  size,            \* of the buffer
  pc,              \* what the process is in the middle of
  toSignal,        \* the semaphore that semaphoreToSignal has returned to it
  hc,              \* waitCondition: the holdCount to come back to
  depth,           \* how many times the process has entered and not left
  left             \* operations it has still to do before it leaves

monitorVars == <<holdingProcess, holdCount>>
clientVars  == <<size, depth, left>>
vars == <<sema, suspendedOn, monitorVars, clientVars, pc, toSignal, hc>>

(***************************************************************************)
(* pc: "outside"                                                           *)
(*     "entering"   monitorSemaphore wait has been sent                    *)
(*     "inside"                                                            *)
(*     "exit",  "exitSignal"   exit has cleared holdingProcess; it has     *)
(*                             chosen the semaphore to signal              *)
(*     "wait",  "waitSignal"   the same in waitCondition                   *)
(*     "waking"     signalAndThenWaitOn: has been sent                     *)
(***************************************************************************)
PCs == {"outside", "entering", "inside", "exit", "exitSignal",
        "wait", "waitSignal", "waking"}

Goto(p, c) == pc' = [pc EXCEPT ![p] = c]

At(p, c) == CanRun(p) /\ pc[p] = c

-----------------------------------------------------------------------------
\* enter, by a process that is not the holdingProcess.
Enter(p) ==
  /\ At(p, "outside")
  /\ holdingProcess # p
  /\ sema' = Waited(sema, monitorSemaphore, p)
  /\ Goto(p, "entering")
  /\ left' = [left EXCEPT ![p] = Repeats]
  /\ UNCHANGED <<suspendedOn, monitorVars, size, depth, toSignal, hc>>

\* The rest of enter.
Entered(p) ==
  /\ At(p, "entering")
  /\ holdingProcess' = p
  /\ holdCount' = 1 + holdCount
  /\ depth' = [depth EXCEPT ![p] = 1]
  /\ Goto(p, "inside")
  /\ UNCHANGED <<sema, suspendedOn, size, left, toSignal, hc>>

\* enter, by the holdingProcess.
EnterAgain(p) ==
  /\ At(p, "inside")
  /\ left[p] = Repeats /\ depth[p] < Nesting[p]
  /\ holdingProcess = p
  /\ holdCount' = 1 + holdCount
  /\ depth' = [depth EXCEPT ![p] = @ + 1]
  /\ UNCHANGED <<sema, suspendedOn, holdingProcess, size, left, pc, toSignal, hc>>

\* exit, up to the call of semaphoreToSignal.  The two assignments are one step:
\* who reads between them is not the holder, and finds that it is not.
Exit(p) ==
  /\ At(p, "inside")
  /\ left[p] = 0
  /\ holdCount' = holdCount - 1
  /\ depth' = [depth EXCEPT ![p] = @ - 1]
  /\ IF holdCount' = 0
     THEN holdingProcess' = nil /\ Goto(p, "exit")
     ELSE UNCHANGED <<holdingProcess, pc>>
  /\ UNCHANGED <<sema, suspendedOn, size, left, toSignal, hc>>

\* Mutant: semaphoreToSignal that prefers the processes that enter.
PreferredEntering ==
  IF sema[monitorSemaphore].queue = <<>>
  THEN conditionSemaphore ELSE monitorSemaphore

\* semaphoreToSignal: those that wait for a condition come first.
Preferred ==
  IF sema[conditionSemaphore].queue = <<>>
  THEN monitorSemaphore ELSE conditionSemaphore

\* semaphoreToSignal looks at the queue before the signal is sent.
SemaphoreToSignal(p) ==
  /\ \/ At(p, "exit") /\ Goto(p, "exitSignal")
     \/ At(p, "wait") /\ Goto(p, "waitSignal")
  /\ toSignal' = [toSignal EXCEPT ![p] = Preferred]
  /\ UNCHANGED <<sema, suspendedOn, monitorVars, clientVars, hc>>

\* semaphoreToSignal signal, the end of exit.
ExitSignal(p) ==
  /\ At(p, "exitSignal")
  /\ sema' = Signalled(sema, toSignal[p])
  /\ Goto(p, "outside")
  /\ UNCHANGED <<suspendedOn, monitorVars, clientVars, toSignal, hc>>

\* The conditionBlk that p passes to waitFor:, isEmpty not or isFull not.
Condition(p) == IF p \in Producers THEN size < Limit ELSE size > 0

\* waitFor: finds the condition true, and p goes on to use the buffer.
Operate(p) ==
  /\ At(p, "inside")
  /\ depth[p] = Nesting[p] /\ left[p] > 0
  /\ Condition(p)
  /\ size' = IF p \in Producers THEN size + 1 ELSE size - 1
  /\ left' = [left EXCEPT ![p] = @ - 1]
  /\ UNCHANGED <<sema, suspendedOn, monitorVars, depth, pc, toSignal, hc>>

\* Mutant: waitCondition that does not reset holdCount.
WaitConditionKeepCount(p) ==
  /\ At(p, "inside")
  /\ depth[p] = Nesting[p] /\ left[p] > 0
  /\ ~Condition(p)
  /\ hc' = [hc EXCEPT ![p] = holdCount]
  /\ holdingProcess' = nil
  /\ Goto(p, "wait")
  /\ UNCHANGED <<sema, suspendedOn, holdCount, clientVars, toSignal>>

\* waitFor: finds it false; waitCondition, up to semaphoreToSignal.
WaitCondition(p) ==
  /\ At(p, "inside")
  /\ depth[p] = Nesting[p] /\ left[p] > 0
  /\ ~Condition(p)
  /\ hc' = [hc EXCEPT ![p] = holdCount]
  /\ holdCount' = 0
  /\ holdingProcess' = nil
  /\ Goto(p, "wait")
  /\ UNCHANGED <<sema, suspendedOn, clientVars, toSignal>>

\* semaphoreToSignal signalAndThenWaitOn: conditionSemaphore.
SignalAndThenWait(p) ==
  /\ At(p, "waitSignal")
  /\ sema' = SignalledAndWaited(sema, toSignal[p], conditionSemaphore, p)
  /\ Goto(p, "waking")
  /\ UNCHANGED <<suspendedOn, monitorVars, clientVars, toSignal, hc>>

\* The rest of waitCondition.
Woken(p) ==
  /\ At(p, "waking")
  /\ holdCount' = hc[p]
  /\ holdingProcess' = p
  /\ Goto(p, "inside")
  /\ UNCHANGED <<sema, suspendedOn, clientVars, toSignal, hc>>

-----------------------------------------------------------------------------
\* Mutant: conditionSemaphore copyBinary, without the wait.
InitBothAvailable ==
  /\ sema = [s \in Semas |-> [count |-> 1, queue |-> <<>>]]
  /\ suspendedOn = [p \in {} |-> nullSemaphore]
  /\ holdingProcess = nil
  /\ holdCount = 0
  /\ size = 0
  /\ pc       = [p \in Procs |-> "outside"]
  /\ toSignal = [p \in Procs |-> monitorSemaphore]
  /\ hc       = [p \in Procs |-> 0]
  /\ depth    = [p \in Procs |-> 0]
  /\ left     = [p \in Procs |-> Repeats]

\* init: conditionSemaphore: semaphore copyBinary wait.
Init ==
  /\ sema = [s \in Semas |->
               [count |-> IF s = monitorSemaphore THEN 1 ELSE 0, queue |-> <<>>]]
  /\ suspendedOn = [p \in {} |-> nullSemaphore]
  /\ holdingProcess = nil
  /\ holdCount = 0
  /\ size = 0
  /\ pc       = [p \in Procs |-> "outside"]
  /\ toSignal = [p \in Procs |-> monitorSemaphore]
  /\ hc       = [p \in Procs |-> 0]
  /\ depth    = [p \in Procs |-> 0]
  /\ left     = [p \in Procs |-> Repeats]

Step(p) ==
  \/ Enter(p) \/ Entered(p) \/ EnterAgain(p)
  \/ Exit(p) \/ SemaphoreToSignal(p) \/ ExitSignal(p)
  \/ Operate(p) \/ WaitCondition(p) \/ SignalAndThenWait(p) \/ Woken(p)

\* Another process suspends or resumes p.
SuspendOrResume(p) ==
  /\ Suspend(p) \/ Resume(p)
  /\ UNCHANGED <<monitorVars, clientVars, pc, toSignal, hc>>

Next ==
  \/ \E p \in Procs : Step(p)
  \/ \E p \in Suspendable : SuspendOrResume(p)

Spec == Init /\ [][Next]_vars

\* The scheduler does not idle while a process is ready.
BusySpec == Spec /\ WF_vars(\E p \in Procs : Step(p))

\* Each process runs in the end if it stays ready.
FairSpec == Spec /\ \A p \in Procs : WF_vars(Step(p))

-----------------------------------------------------------------------------
(* Properties. *)

TypeOK ==
  /\ SemaphoresTypeOK
  /\ holdingProcess \in Procs \cup {nil}
  /\ holdCount \in Nat
  /\ size \in Nat
  /\ pc       \in [Procs -> PCs]
  /\ toSignal \in [Procs -> Semas]
  /\ hc       \in [Procs -> Nat]
  /\ depth    \in [Procs -> Nat]
  /\ left     \in [Procs -> Nat]

\* p has taken the permit and not passed it on.
Owns(p) == pc[p] # "outside" /\ ~Waits(p)

\* There is one permit for both semaphores: one semaphore counts it or one
\* process owns it.  So no two processes are in the monitor, and the permit is
\* not lost when the queue that semaphoreToSignal has looked at changes before
\* the signal (monitor.self:411-420).
OnePermit ==
  \E t \in Procs \cup Semas :
    {p \in Procs : Owns(p)} \cup {s \in Semas : sema[s].count > 0} = {t}

\* holdingProcess and holdCount are those of the process in the monitor, as
\* often as it has entered: nobody takes himself for the holder who is not
\* (monitor.self:174), and waitCondition restores them (monitor.self:447).
HolderAgrees ==
  /\ \A p \in Procs : holdingProcess = p <=> pc[p] = "inside"
  /\ holdCount = IF holdingProcess = nil THEN 0 ELSE depth[holdingProcess]

\* A process that waits for its condition is let in again to look at it, if
\* nobody is ever suspended: semaphoreToSignal prefers it (monitor.self:411).
ConditionWaitersReturn ==
  [](Suspended = {}) => \A p \in Procs : pc[p] = "waking" ~> pc[p] = "inside"

\* Between the choice of monitorSemaphore and its signal nobody arrives at
\* conditionSemaphore: "No, this cannot happen. For the other process to arrive
\* at 'conditionSemaphore' it would have to transition through the monitor
\* (which we currently hold)" (monitor.self:418).
NobodyArrives ==
  \A p \in Procs :
    pc[p] \in {"exitSignal", "waitSignal"} /\ toSignal[p] = monitorSemaphore
      => sema[conditionSemaphore].queue = <<>>

\* A process that enters is let in, whoever waits for a condition: the
\* preference is there "to avoid starvation" (monitor.self:411).
NobodyStarves == \A p \in Procs : pc[p] = "entering" ~> pc[p] = "inside"
=============================================================================
