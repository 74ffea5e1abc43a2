------------------------------- MODULE Cleanup --------------------------------
(***************************************************************************)
(* Scheduler together with scheduler releaseObjects, which the memory      *)
(* object calls to free what old errors hold: cleanupQ: suspendedQ aborts  *)
(* every suspended process.  It runs in an ordinary process.  Each abort   *)
(* is an action that the process yields, but the copy of the queue before  *)
(* the first and the removeAll after the last are not, so that the other   *)
(* processes suspend and resume each other in between.                     *)
(*                                                                         *)
(* readyQ releaseObjects, which clears the unused end of the readyQ's      *)
(* vector, has no counterpart in Scheduler and is left out.                *)
(***************************************************************************)
EXTENDS Scheduler

VARIABLES
  cleaner,  \* the process in cleanupQ:, or nil
  copied    \* what is left of its copy of the suspendedQ

cleanupVars == <<cleaner, copied>>

\* releaseObjects, up to q copy: p is busy with that from now on.
StartCleanup(p) ==
  /\ Running(p) /\ pc[p] = "idle"
  /\ cleaner = nil
  /\ cleaner' = p
  /\ copied' = queue["suspendedQ"]
  /\ pc' = [pc EXCEPT ![p] = "cleanup"]
  /\ UNCHANGED <<schedVars, sleepTime, semaVars, blocking, alive, target>>

\* Mutant: signalDeathWaiters that only signals the suspensionWaiters.
OpenedForSuspension(q) == {SuspensionWaiters(q)}

\* signalSuspensionWaiters, signalDeathWaiters: the barriers of q that open.
Opened(q) == {SuspensionWaiters(q), DeathWaiters(q)}

\* Mutant: fullyRemoveFromSemaphore that only clears onSemaphore.
QueueUnchanged(s, q) == waiters[s]

\* fullyRemoveFromSemaphore: the queue of s without q, if q is on s.
QueueWithout(s, q) == IF s = onSemaphore[q] THEN Without(waiters[s], q) ELSE waiters[s]

\* removeFromQueues: q, which leaves the status of q as it is.
RemoveFromQueues(q) ==
  LET released == UNION {Elems(QueueWithout(b, q)) : b \in Opened(q)}
      moved    == released \cup {q}
  IN
  /\ waiters' = [s \in AllSemas |-> IF s \in Opened(q) THEN <<>> ELSE QueueWithout(s, q)]
  /\ blocking' = [b \in Barriers |-> b \notin Opened(q) /\ blocking[b]]
  /\ onSemaphore' = [r \in Procs |-> IF r \in moved THEN nullSemaphore ELSE onSemaphore[r]]
  /\ queue' = [x \in Queues |->
                 (queue[x] \ moved) \cup (IF x = "readyQ" THEN released ELSE {})]
  /\ onQueue' = [r \in Procs |-> IF r = q THEN "noQueue"
                                 ELSE IF r \in released THEN "readyQ" ELSE onQueue[r]]
  /\ status' = [r \in Procs |-> IF r \in released THEN "ready" ELSE Demoted(r)]
  /\ timerWaiters' = timerWaiters \ moved

\* q basicAbort, whatever has become of q since the queue was copied.
BasicAbort(p, q) ==
  /\ Running(p) /\ cleaner = p
  /\ q \in copied
  /\ copied' = copied \ {q}
  /\ RemoveFromQueues(q)
  /\ UnwindProtect(q)
  /\ alive' = [alive EXCEPT ![q] = FALSE]
  /\ UNCHANGED <<sleepTime, userVars, cleaner>>

\* q removeAll, and the end of releaseObjects.
EndCleanup(p) ==
  /\ Running(p) /\ cleaner = p
  /\ copied = {}
  /\ queue' = [queue EXCEPT !["suspendedQ"] = {}]
  /\ cleaner' = nil
  /\ pc' = [pc EXCEPT ![p] = "idle"]
  /\ UNCHANGED <<status, onQueue, timerWaiters, sleepTime, semaVars, blocking,
                 alive, target, copied>>

-----------------------------------------------------------------------------
CleanupInit == Init /\ cleaner = nil /\ copied = {}

CleanupNext ==
  \/ Next /\ UNCHANGED cleanupVars
  \/ \E p \in Procs : \/ StartCleanup(p) \/ EndCleanup(p)
                      \/ \E q \in Procs : BasicAbort(p, q)

CleanupSpec == CleanupInit /\ [][CleanupNext]_<<vars, cleanupVars>>
=============================================================================
