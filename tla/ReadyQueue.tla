------------------------------ MODULE ReadyQueue ------------------------------
(***************************************************************************)
(* The order in which the scheduler picks processes (objects/core:         *)
(* scheduler.self, priorityQueue.self): the readyQ is a heap that is       *)
(* sorted by priority, and the process that runs stays in it.  Scheduler   *)
(* leaves this order open.                                                 *)
(*                                                                         *)
(* Here a process is on the readyQ, or it is elsewhere for any of the      *)
(* reasons that Scheduler models.  Every action of the scheduler takes the *)
(* CPU from the process that runs.                                         *)
(***************************************************************************)
EXTENDS Heap

CONSTANTS
  Procs,       \* Self processes other than the scheduler's own
  Priorities,  \* the priorities they are given
  nil          \* nobody: the scheduler itself runs

ASSUME PriorityAssumption == Priorities \subseteq Int /\ nil \notin Procs

VARIABLES
  readyQ,    \* scheduler.self: readyQ, the contents of the heap
  onReadyQ,  \* the processes whose onQueue is the readyQ
  priority,  \* process.self: priority0
  running    \* the process that has the CPU

readyVars == <<readyQ, onReadyQ, priority, running>>

\* prioritySorter: the higher priority precedes.
ByPriority(pri) == [p \in Procs |-> -pri[p]]

\* readyQ add: p and readyQ remove: p, with the priorities pri.
Added(c, p, pri)   == Add(c, Size(c), p, ByPriority(pri))
Removed(c, p, pri) == Remove(c, Size(c), p, ByPriority(pri))

\* schedule: the first process goes back on the readyQ while it runs.
Schedule ==
  LET rest == RemoveAtIndex(readyQ, Size(readyQ), 0, ByPriority(priority)) IN
  /\ running = nil
  /\ Size(readyQ) > 0
  /\ running' = readyQ[0]
  /\ readyQ' = Added(rest, readyQ[0], priority)
  /\ UNCHANGED <<onReadyQ, priority>>

\* The CPU timer, or a process that yields.
Preempt ==
  /\ running # nil
  /\ running' = nil
  /\ UNCHANGED <<readyQ, onReadyQ, priority>>

\* The running process waits, or it suspends or aborts p: p leaves the readyQ.
Leave(p) ==
  /\ running # nil
  /\ p \in onReadyQ
  /\ onReadyQ' = onReadyQ \ {p}
  /\ readyQ' = Removed(readyQ, p, priority)
  /\ running' = nil
  /\ UNCHANGED priority

\* Another process or a signal makes p ready.
BecomeReady(p) ==
  /\ p \notin onReadyQ
  /\ onReadyQ' = onReadyQ \cup {p}
  /\ readyQ' = Added(readyQ, p, priority)
  /\ running' = nil
  /\ UNCHANGED priority

\* Mutant: changePriority:OfProcess: that sets the priority first.
SetPriorityFirst(p, new) ==
  LET changed == [priority EXCEPT ![p] = new] IN
  /\ running # nil
  /\ priority[p] # new
  /\ priority' = changed
  /\ readyQ' = IF p \in onReadyQ
               THEN Added(Removed(readyQ, p, changed), p, changed) ELSE readyQ
  /\ running' = nil
  /\ UNCHANGED onReadyQ

\* changePriority: new OfProcess: p.  If p should be on the readyQ but is not
\* found there it keeps its priority.
ChangePriority(p, new) ==
  LET changed == [priority EXCEPT ![p] = new] IN
  /\ running # nil
  /\ priority[p] # new
  /\ IF p \in onReadyQ /\ ~Found(readyQ, p, ByPriority(priority))
     THEN UNCHANGED <<readyQ, priority>>
     ELSE /\ priority' = changed
          /\ readyQ' = IF p \in onReadyQ
                       THEN Added(Removed(readyQ, p, priority), p, changed)
                       ELSE readyQ
  /\ running' = nil
  /\ UNCHANGED onReadyQ

-----------------------------------------------------------------------------
ReadyInit ==
  /\ readyQ = [i \in {} |-> nil]
  /\ onReadyQ = {}
  /\ priority \in [Procs -> Priorities]
  /\ running = nil

ReadyNext ==
  \/ Schedule
  \/ Preempt
  \/ \E p \in Procs : \/ Leave(p) \/ BecomeReady(p)
                      \/ \E new \in Priorities : ChangePriority(p, new)

\* The scheduler's loop runs on, and the CPU timer preempts who has the CPU.
ReadyFairness == WF_readyVars(Schedule) /\ WF_readyVars(Preempt)

ReadySpec == ReadyInit /\ [][ReadyNext]_readyVars /\ ReadyFairness

-----------------------------------------------------------------------------
(* Properties. *)

\* The readyQ holds exactly the processes that believe to be on it, each once,
\* although remove: does not look for what precedes the first element.
ReadyQAgrees ==
  /\ Elements(readyQ) = onReadyQ
  /\ Size(readyQ) = Cardinality(onReadyQ)

\* No process gets the CPU while one of a higher priority is ready.
HighestFirst ==
  [][running' # running /\ running' # nil =>
       \A q \in onReadyQ : priority[q] <= priority[running']]_readyVars

\* A ready process whose priority is higher than all others' gets to run.
Top(p) ==
  p \in onReadyQ /\ \A q \in onReadyQ \ {p} : priority[q] < priority[p]

TopRuns == \A p \in Procs : Top(p) ~> (running = p \/ ~Top(p))

\* Round-robin within each priority level (scheduler.self:840): a process that
\* no ready process has a higher priority than gets to run.
RoundRobin ==
  \A p \in Procs :
    LET Highest == p \in onReadyQ /\ \A q \in onReadyQ : priority[q] <= priority[p]
    IN  Highest ~> (running = p \/ ~Highest)
=============================================================================
