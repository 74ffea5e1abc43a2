------------------------------ MODULE WaitQueue ------------------------------
(***************************************************************************)
(* The queue of the processes that wait for a semaphore: a list, as a      *)
(* sequence; and what a signal and a wait do to binary semaphores.         *)
(***************************************************************************)
EXTENDS Integers, Sequences

Elems(s) == {s[i] : i \in DOMAIN s}

\* list remove: p IfAbsent: nil (a process is on such a list at most once).
Without(s, p) ==
  IF p \in Elems(s)
  THEN LET k == CHOOSE i \in DOMAIN s : s[i] = p
       IN  [i \in 1..(Len(s) - 1) |-> IF i < k THEN s[i] ELSE s[i + 1]]
  ELSE s
-----------------------------------------------------------------------------
(* st maps each semaphore to its permits and to its queue.                 *)

binaryCapacity == 1

\* signal: the permit goes to the first waiter, or is counted.
Signalled(st, s) ==
  IF st[s].queue # <<>>
  THEN [st EXCEPT ![s].queue = Tail(@)]
  ELSE [st EXCEPT ![s].count = IF @ < binaryCapacity THEN @ + 1 ELSE @]

\* Mutant: wait that takes a permit whether there is one or not.
WaitedUnchecked(st, s, p) == [st EXCEPT ![s].count = @ - 1]

\* wait of p: it takes a permit or joins the queue.
Waited(st, s, p) ==
  IF st[s].count > 0
  THEN [st EXCEPT ![s].count = @ - 1]
  ELSE [st EXCEPT ![s].queue = Append(@, p)]

\* s signalAndThenWaitOn: w, one action of the scheduler.
SignalledAndWaited(st, s, w, p) == Waited(Signalled(st, s), w, p)
=============================================================================
