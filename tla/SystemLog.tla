------------------------------ MODULE SystemLog -------------------------------
(***************************************************************************)
(* The log of objects/core/systemLog.self.  Any process may log: dispatch: *)
(* makes sure that a process handles the entries, and puts the entry in a  *)
(* sharedQueue.  Nothing guards the slot running, so that two processes    *)
(* may both find that none runs and start one each.  A handler that breaks *)
(* leaves the process that handles suspended, by the error; log dispatcher *)
(* hup then puts another in its place.                                     *)
(*                                                                         *)
(* The loggers are the adders of the queue, the handling processes its     *)
(* removers; who is "added" is not in the log, who is "removed" has an     *)
(* entry to handle.                                                        *)
(***************************************************************************)
EXTENDS SharedQueue

CONSTANTS
  deadProcess,  \* running, when no process was started
  Overlapping,  \* whether hup may be sent while a handler is being started
  MaxQueue,     \* BOUND: with so many entries in the queue nobody logs
  MaxCount      \* BOUND: with so many removers in count nobody sends hup

VARIABLES
  running,      \* systemLog.self
  proc          \* the process that a logger has started or is to abort

Loggers == Adders
Handlers == Removers

ASSUME SystemLogAssumption == deadProcess \notin Procs

vars == <<sema, suspendedOn, queueVars, pc, running, proc>>
logVars == <<running, proc>>
queueState == <<sema, suspendedOn, queueVars>>

IsAlive(h) == h \in Handlers /\ pc[h] # "dead"

\* A process that does not exist yet: one that died unless it is still known.
Fresh == {h \in Handlers : /\ pc[h] = "dead" /\ h # running
                           /\ \A u \in Loggers : proc[u] # h}

\* Being in startRunning or hup.
Starting == {"start", "assign", "abort", "forget", "check", "restart", "reassign"}
-----------------------------------------------------------------------------
\* dispatch:, the call of ensureRunning.
Dispatch(u) ==
  /\ At(u, "added")
  /\ Len(rep) < MaxQueue
  /\ Goto(u, IF IsAlive(running) THEN "add" ELSE "start")
  /\ UNCHANGED <<queueState, logVars>>

\* startRunning, up to the end of resume.
StartRunning(u) ==
  /\ At(u, "start") \/ At(u, "restart")
  /\ Fresh # {}
  /\ LET h == CHOOSE h \in Fresh : TRUE IN
     /\ proc' = [proc EXCEPT ![u] = h]
     /\ pc' = [pc EXCEPT ![h] = "remove",
                         ![u] = IF @ = "start" THEN "assign" ELSE "reassign"]
  /\ UNCHANGED <<queueState, running>>

\* running: in startRunning, the end of dispatch:'s ensureRunning or of hup.
SetRunning(u) ==
  /\ At(u, "assign") \/ At(u, "reassign")
  /\ running' = proc[u]
  /\ proc' = [proc EXCEPT ![u] = deadProcess]
  /\ Goto(u, IF pc[u] = "assign" THEN "add" ELSE "added")
  /\ UNCHANGED queueState

-----------------------------------------------------------------------------
\* hup: abortHandlingProcess reads running.
Hup(u) ==
  /\ At(u, "added")
  /\ Overlapping \/ \A v \in Loggers : pc[v] \notin Starting
  /\ Fresh # {} /\ count < MaxCount  \* BOUND
  /\ proc' = [proc EXCEPT ![u] = running]
  /\ Goto(u, "abort")
  /\ UNCHANGED <<queueState, running>>

\* Being in or before protectNoNLR:, which has no clean-up: an abort would
\* lose the lock for ever, and is left out.
UsesLock(h) == pc[h] \in {"removing", "unlinking", "leavingDone", "leavingEmpty",
                          "lowering", "leavingLow"}

\* abortIfLive.
AbortIfLive(u) ==
  /\ At(u, "abort")
  /\ LET h == proc[u] IN
     IF IsAlive(h)
     THEN /\ ~UsesLock(h)
          /\ pc' = [pc EXCEPT ![u] = "forget", ![h] = "dead"]
          /\ sema' = [s \in Semas |-> [sema[s] EXCEPT !.queue = Without(@, h)]]
          /\ suspendedOn' = [q \in Suspended \ {h} |-> suspendedOn[q]]
          /\ taken' = [taken EXCEPT ![h] = none]
     ELSE Goto(u, "forget") /\ UNCHANGED <<sema, suspendedOn, taken>>
  /\ proc' = [proc EXCEPT ![u] = deadProcess]
  /\ UNCHANGED <<rep, count, seen, running>>

\* running: deadProcess.
ForgetRunning(u) ==
  /\ At(u, "forget")
  /\ running' = deadProcess
  /\ Goto(u, "check")
  /\ UNCHANGED <<queueState, proc>>

\* Mutant: hup that leaves it to the next entry to start a process.
NoRestart == "added"

AfterCheck == IF IsAlive(running) THEN "added" ELSE "restart"

\* ensureRunning of hup.
EnsureRunning(u) ==
  /\ At(u, "check")
  /\ Goto(u, AfterCheck)
  /\ UNCHANGED <<queueState, logVars>>

-----------------------------------------------------------------------------
\* The handlers have had the entry.
Handled(h) ==
  /\ At(h, "removed")
  /\ taken' = [taken EXCEPT ![h] = none]
  /\ Goto(h, "remove")
  /\ UNCHANGED <<sema, suspendedOn, rep, count, seen, logVars>>

\* A handler breaks: the error suspends the process.
Breaks(h) ==
  /\ At(h, "removed")
  /\ Suspend(h)
  /\ UNCHANGED <<queueVars, pc, logVars>>

\* Somebody lets the process go on.
Continue(h) ==
  /\ Resume(h)
  /\ UNCHANGED <<queueVars, pc, logVars>>

-----------------------------------------------------------------------------
Init ==
  /\ QueueInit
  /\ pc = [p \in Procs |-> IF p \in Loggers THEN "added" ELSE "dead"]
  /\ running = deadProcess
  /\ proc = [u \in Loggers |-> deadProcess]

\* What a process does that is ready to.
Work ==
  \/ \E p \in Procs : QueueStep(p) /\ UNCHANGED logVars
  \/ \E u \in Loggers : \/ StartRunning(u) \/ SetRunning(u) \/ AbortIfLive(u)
                        \/ ForgetRunning(u) \/ EnsureRunning(u)
  \/ \E h \in Handlers : Handled(h)

Next ==
  \/ Work
  \/ \E u \in Loggers : Dispatch(u) \/ Hup(u)
  \/ \E h \in Handlers : Breaks(h) \/ Continue(h)

Spec == Init /\ [][Next]_vars

\* The scheduler does not idle while a process is ready.
BusySpec == Spec /\ WF_vars(Work)
-----------------------------------------------------------------------------
\* On its way to sleep, or asleep, with no permit to wake it.
Asleep(h) ==
  \/ pc[h] = "waiting" /\ Waits(h)
  \/ pc[h] = "blocking" /\ sema[blockSema].count = 0

\* No entry is left in the queue with everybody asleep that could handle it:
\* when all are, somebody is about to wake or to start one.  (One permit may
\* stand for two removers, but then another remover looks again.)
NoneAsleep ==
  rep # <<>> =>
    \/ \E h \in Handlers : IsAlive(h) /\ ~Asleep(h)
    \/ \E u \in Loggers : pc[u] \in {"signalling", "forget", "check", "restart"}

\* When nobody logs or sends hup any more, and no handler stays broken, all
\* that was logged is handled.
Quiet == (\A u \in Loggers : pc[u] = "added") /\ Suspended = {}
LogDrains == <>[]Quiet => <>[](rep = <<>> /\ \A h \in Handlers : taken[h] = none)
=============================================================================
