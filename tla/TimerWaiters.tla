----------------------------- MODULE TimerWaiters -----------------------------
(***************************************************************************)
(* Time-outs and sleeps (objects/core/scheduler.self): the timerWaiters, a *)
(* heap sorted by wake time, and the one real timer that the scheduler     *)
(* sets for its first process.  Scheduler lets any timer expire at any     *)
(* time; here a clock runs.                                                *)
(*                                                                         *)
(* A process is waiting with a time-out, or it is not, whatever else it    *)
(* does.  The scheduler handles one thing at a time, but the clock does    *)
(* not stop while it handles the real timer's signal.                      *)
(***************************************************************************)
EXTENDS Heap

CONSTANTS
  Sleepers, \* Self processes
  Delays,   \* the values of ms they wait for, in ms
  MaxTime,  \* bound on the clock
  off       \* no alarm is set

MinDelay == 5  \* 5 max: ms

ASSUME TimeAssumption ==
  Delays \subseteq Nat \ {0} /\ MaxTime \in Nat /\ off \notin Nat

VARIABLES
  now,        \* times real
  timers,     \* scheduler.self: timerWaiters, the contents of the heap
  wakeTime,   \* process.self: wakeTime
  waiting,    \* the processes that wait with a time-out
  realTimer,  \* when the real timer's next signal is due
  handling    \* sigrealtimer is in its loop

timerVars == <<now, timers, wakeTime, waiting, realTimer, handling>>

Larger(a, b) == IF a > b THEN a ELSE b

\* Mutant: the real timer is set for the first process of an empty heap only.
AddToTimerWaitersLate(p, ms) ==
  LET wake == now + Larger(MinDelay, ms) IN
  /\ ~handling
  /\ p \notin waiting
  /\ waiting' = waiting \cup {p}
  /\ wakeTime' = [wakeTime EXCEPT ![p] = wake]
  /\ timers' = Add(timers, Size(timers), p, wakeTime')
  /\ realTimer' = IF Size(timers) = 0 THEN wake ELSE realTimer
  /\ UNCHANGED <<now, handling>>

\* addToTimerWaiters: p For: ms.  The real timer's signal is never early; no
\* time passes between the reading of the clock and the setting of the timer.
AddToTimerWaiters(p, ms) ==
  LET wake == now + Larger(MinDelay, ms) IN
  /\ ~handling
  /\ p \notin waiting
  /\ waiting' = waiting \cup {p}
  /\ wakeTime' = [wakeTime EXCEPT ![p] = wake]
  /\ timers' = Add(timers, Size(timers), p, wakeTime')
  /\ realTimer' = IF timers'[0] = p THEN wake ELSE realTimer
  /\ UNCHANGED <<now, handling>>

\* p is signalled, suspended or aborted while it waits: removeFromQueue.
StopWaiting(p) ==
  /\ ~handling
  /\ p \in waiting
  /\ waiting' = waiting \ {p}
  /\ timers' = Remove(timers, Size(timers), p, wakeTime)
  /\ UNCHANGED <<now, wakeTime, realTimer, handling>>

Tick ==
  /\ now < MaxTime
  /\ now' = now + 1
  /\ UNCHANGED <<timers, wakeTime, waiting, realTimer, handling>>

\* SIGALRM arrives, and sigrealtimer starts its loop.
Alarm ==
  /\ ~handling
  /\ realTimer # off
  /\ realTimer <= now
  /\ handling' = TRUE
  /\ UNCHANGED <<now, timers, wakeTime, waiting, realTimer>>

\* The rounds of the loop in sigrealtimer: the last one, and one that wakes
\* the first process.
EndAlarm ==
  /\ handling
  /\ \/ Size(timers) = 0 /\ realTimer' = off
     \/ Size(timers) > 0 /\ now < wakeTime[timers[0]] /\ realTimer' = wakeTime[timers[0]]
  /\ handling' = FALSE
  /\ UNCHANGED <<now, timers, wakeTime, waiting>>

\* Mutant: sigrealtimer without its loop.
WakeOnlyOne ==
  /\ handling
  /\ Size(timers) > 0
  /\ now >= wakeTime[timers[0]]
  /\ timers' = RemoveAtIndex(timers, Size(timers), 0, wakeTime)
  /\ waiting' = waiting \ {timers[0]}
  /\ realTimer' = IF Size(timers) = 1 THEN off ELSE wakeTime[timers'[0]]
  /\ handling' = FALSE
  /\ UNCHANGED <<now, wakeTime>>

WakeFirst ==
  /\ handling
  /\ Size(timers) > 0
  /\ now >= wakeTime[timers[0]]
  /\ timers' = RemoveAtIndex(timers, Size(timers), 0, wakeTime)
  /\ waiting' = waiting \ {timers[0]}
  /\ UNCHANGED <<now, wakeTime, realTimer, handling>>

-----------------------------------------------------------------------------
TimersInit ==
  /\ now = 0
  /\ timers = [i \in {} |-> off]
  /\ wakeTime = [p \in Sleepers |-> 0]
  /\ waiting = {}
  /\ realTimer = off
  /\ handling = FALSE

TimersNext ==
  \/ \E p \in Sleepers : \/ StopWaiting(p)
                      \/ \E ms \in Delays : AddToTimerWaiters(p, ms)
  \/ Alarm \/ WakeFirst \/ EndAlarm \/ Tick

TimersSpec == TimersInit /\ [][TimersNext]_timerVars

-----------------------------------------------------------------------------
(* Properties. *)

\* The timerWaiters are the processes that wait with a time-out: a process
\* that has been signalled is not timed out later (process.self:1026-1028).
TimersAgree == Elements(timers) = waiting

\* Whenever a process waits with a time-out, the real timer is set, and not
\* for a later time than its wake time: no add, removal or alarm leaves the
\* time-out of a process without a signal to report it.
Armed ==
  ~handling => \A p \in waiting : realTimer # off /\ realTimer <= wakeTime[p]

\* sigrealtimer returns only when every process whose time has come is awake.
NoneOverdue ==
  [][handling /\ ~handling' => \A p \in waiting' : wakeTime[p] > now]_timerVars
=============================================================================
