------------------------------ MODULE Semaphores ------------------------------
(***************************************************************************)
(* Binary semaphores as the classes built on them see them: an operation   *)
(* is one step.  Scheduler has the fast path and the yielded action of     *)
(* each operation as steps of their own and shows that no wakeup is lost   *)
(* between them.                                                           *)
(*                                                                         *)
(* sema maps each semaphore to its permits and to the queue of those that  *)
(* wait for it.  The operations are functions of sema (WaitQueue), so that *)
(* those that the scheduler runs as one action can be composed.            *)
(***************************************************************************)
EXTENDS WaitQueue

CONSTANTS
  Procs,          \* the Self processes other than the scheduler's own
  Semas,          \* the semaphores
  nullSemaphore   \* what a process is on that waits for none

VARIABLES
  sema,           \* semaphore.self: count and queue of each semaphore
  suspendedOn     \* for each suspended process, the semaphore it waited for

Suspended == DOMAIN suspendedOn

\* p waits for a semaphore, or did so when it was suspended.
Waits(p) ==
  IF p \in Suspended
  THEN suspendedOn[p] # nullSemaphore
  ELSE \E s \in Semas : p \in Elems(sema[s].queue)

\* What p, which is not suspended, is on.
OnSemaphore(p) ==
  IF Waits(p) THEN CHOOSE s \in Semas : p \in Elems(sema[s].queue)
              ELSE nullSemaphore

CanRun(p) == p \notin Suspended /\ ~Waits(p)

\* suspend: takes p off its semaphore's queue, which it keeps in mind.
Suspend(p) ==
  /\ p \notin Suspended
  /\ suspendedOn' = [q \in Suspended \cup {p} |->
                       IF q = p THEN OnSemaphore(p) ELSE suspendedOn[q]]
  /\ sema' = [s \in Semas |-> [sema[s] EXCEPT !.queue = Without(@, p)]]

\* resume: does the wait again.
Resume(p) ==
  /\ p \in Suspended
  /\ suspendedOn' = [q \in Suspended \ {p} |-> suspendedOn[q]]
  /\ sema' = IF suspendedOn[p] = nullSemaphore THEN sema
             ELSE Waited(sema, suspendedOn[p], p)

SemaphoresTypeOK ==
  /\ sema \in [Semas -> [count : 0..binaryCapacity, queue : Seq(Procs)]]
  /\ Suspended \subseteq Procs
  /\ \A p \in Suspended : suspendedOn[p] \in Semas \cup {nullSemaphore}
=============================================================================
