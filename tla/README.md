# A specification of the processes and the code zone of Self

The Self world runs many lightweight processes on one Unix process. A scheduler
written in Self (`src/objects/core/scheduler.self`) switches between them with
two primitives of the virtual machine (VM); semaphores, barriers, monitors and queues are
written in Self on top of it. The VM itself compiles methods as they are
called and keeps them in a code zone, from which they go again. This directory
holds TLA+ models of that code, TLC instances that check them, and TLAPS proofs.

Contents: [the system](#the-system) · [modules](#the-modules) ·
[runs](#what-tlc-checks) · [proofs](#what-is-proved) ·
[disagreements found](#where-the-code-and-its-comments-disagree) ·
[statements not kept](#statements-the-code-does-not-keep) ·
[not modelled](#what-is-not-modelled) · [plan](#plan)

## The system

### Parts, their state and their operations

| Part of the world (`src/objects/core/`) | State | Operations | What makes it correct |
|---|---|---|---|
| scheduler (`scheduler.self`) | `readyQ`, `waitingQ`, `suspendedQ`, `timerWaiters`, `currentProcess` | `loop`, `schedule`, `suspend:`, `resume:`, `abort:`, `kill:For:`, `sleep:For:`, signal handlers, `releaseObjects` | a process is on the one queue its status calls for; nobody who may run is forgotten; priorities are respected |
| process (`process.self`) | status, `onQueue`, `onSemaphore`, `sleepTime`, `wakeTime`, priority, two barriers | `moveToQueue:NewStatus:`, `removeFromQueue`, `redoSemaphoreWait`, `waitForDeath` | its slots agree with the scheduler's queues |
| semaphore (`semaphore.self`) | `count`, `capacity`, `queue`, `holderProcess` | `wait`, `waitTimeOut:`, `signal`, `protect:`, `get`, `signalAndThenWaitOn:` | no lost wakeup; a permit has one owner; the result of a timed wait is the truth |
| recursiveSemaphore (`semaphore.self`) | the same | `protect:` lets the holder pass | as a lock: mutual exclusion |
| barrier (`barrier.self`) | `blocking` | `release`, `detain`, `wait` | nobody waits at an open barrier |
| priorityQueue (`priorityQueue.self`) | `contents`, `count`, sorter | `add:`, `removeFirst`, `remove:IfAbsent:` | heap order, hence the right first element |
| monitor (`monitor.self`) | `monitorSemaphore`, `conditionSemaphore`, `holdingProcess`, `holdCount` | `enter`, `exit`, `waitFor:`, `waitCondition` | one process inside, which is the `holdingProcess`; who waits is let in |
| sharedQueue (`sharedQueue.self`) | `rep`, `count`, `lockSema`, `blockSema` | `add:`, `removeFirst` | first in first out, each element to one process; nobody sleeps beside an element |
| log (`systemLog.self`) | a sharedQueue, `running` | `dispatch:`, `handleLoop`, `hup` | what is logged is handled |
| lock, channel, serializer | semaphores and counters | see the plan | exclusion, no lost wakeup, order |

| Part of the VM (`src/vm64/src/any`, `src/vm/src`) | State | Operations | What makes it correct |
|---|---|---|---|
| process switching (`objects/processOop.cpp`, `runtime/process.cpp`) | `currentProcess`, `twainsProcess`, `preemptCause`, `SPLimit`, the processes' states | `_TWAINS`, `_Yield`, `_AbortProcess`, interrupt check | it returns to the scheduler for a reason; a stepped process stops |
| signals, timers (`os/sig.cpp`, `os/itimer.cpp`) | pending signals, `_block_self_signals` | handlers, `_BlockSignals`, the wait for a signal | a signal reaches Self |
| heaps of the code zone (`zone/zoneHeap.cpp`) | a byte for each block, free lists | `allocate`, `deallocate`, `combine`, `compact`, `nextUsed`, `findStartOfBlock` | what is used does not overlap, no room is lost, any address finds its chunk |
| code zone (`zone/zone.cpp`, `zone/nmethod.cpp`, `interpreter/`) | compiled methods, code table, inline caches, activations, routes of the interpreter | lookup, compilation, recompilation, sweeps, flushes, compaction, invalidation | no reference to code that is gone; no wrong code is run |
| the rest | | memory, lookup, compilers, parser, collections, mirrors, user interfaces | not modelled, see below |

### How they interact

*Coroutines.* The scheduler's `loop` picks a process and calls `_TWAINS`, which
returns when that process has yielded an action (`_Yield:`), when a signal has
arrived, or when it has ended. The action, an object that understands
`doAction`, or the signal's handler is then run to its end by the scheduler, and
another process is picked. A process that was still running is demoted to ready.

*Fast path and action.* A semaphore operation first tries a few statements with
signals blocked (`criticalDoFast:InScheduler:ToScheduler:`, `process.self:219`).
If they do not suffice, signals are unblocked and the operation is yielded to
the scheduler as an action. Between the two any other process may run: this gap
is where most of the interleavings come from.

*Calls from one process to another.* `suspend:`, `resume:` and `abort:` act on
another process at any point of that process, in the middle of a wait, inside
`protect:`, or in the gap above. `resume:` of a process that was waiting redoes
its wait. Death and suspension release the process's barriers, at which others
wait.

*Signals.* SIGALRM times out waiters, SIGIO, SIGHUP and SIGWINCH signal
semaphores from within the scheduler, the CPU timer preempts. Below that, the
Unix handler runs between any two instructions of the VM. It counts the signal
and arms the stack limit of the running process, so that the check at its next send
fails and it transfers to the scheduler.

*Compiled code.* An nmethod's address is held by the code table, by the inline
caches of other nmethods, by return addresses on the stacks and by the routes of
the interpreter. Whatever flushes, replaces, invalidates or moves an nmethod has
to find all of them; code that is active is flushed only when its last
activation has returned.

*Logging.* Any process logs; the entries go through a sharedQueue to a process
that the first of them starts, and that `hup` replaces.

*Abort.* `_AbortProcess` unwinds the stack of the process, which runs the
clean-up blocks of `protect:`; they release semaphores by their fast path only.

### What is hard to test here

The hazards are listed in `PROJECT.json`, each at its line and with the
properties that cover it. The main groups: a fast path against what happens
before its action; the timer racing the signaller of the same waiter; a process
suspended, resumed or aborted while it waits; four records of one fact (status,
`onQueue`, queue, timers) that are updated one by one; a heap that has to stay
ordered when elements leave its middle; clean-up that runs outside the scheduler;
signal handlers in the middle of a switch of stacks; an address that outlives
what was there; a sweep that frees what it stands on.

## The modules

```
AbstractPriorityQueue         Heap                   WaitQueue <------ Lemmas
        ^ (implements)     ^   ^   ^                  ^     ^
        |                 /    |    \                 |     |
     PriorityQueue ------' ReadyQueue TimerWaiters    |  Scheduler
            ^                  ^          ^           |     ^
            |                  |          |           |     |
            '------ HeapProofs (and Lemmas)           |  Cleanup <-- SchedulerProofs
                                                      |
     AbstractQueue <--(implements)-- SharedQueue --> Semaphores <-- Monitor <-- MonitorProofs
                                          ^
                                          |
                                      SystemLog <-- SystemLogProofs

     AbstractHeap <--(implements)-- ZoneHeap --> ChunkMap     Twains   <-- TwainsProofs
                                       ^
                                  ZoneHeapProofs              CodeZone <-- CodeZoneProofs
```

An arrow points to the module that is extended. The modules `MC...` hold the
constants of the TLC instances. `WaitQueue` is the list of the processes that
wait for a semaphore, as a sequence, with `remove:`, and what a wait and a signal
of a binary semaphore do to it and to its count. `Lemmas` holds what several proof modules
need: about those lists, about least elements, and about loops; all of them but those
of `Twains` and `CodeZone` extend it.

### Scheduler

The scheduler, semaphores and barriers for any set of processes. A step is either
a piece of a user process that signals cannot split (a fast path, or a few
statements whose state no one else touches) or one action or handler of the
scheduler from its beginning to its end, including the demotion of the process
that gave up the CPU. Every variable is a slot of the code, except

- `alive`: the VM still has a stack for the process object;
- `pc`, `target`: what the process is in the middle of (the comment at `PCs`
  lists the points);
- `granted`: a history variable, the processes to whom a permit of the
  semaphore went that has not come back. No guard reads it.

| Action | Code |
|---|---|
| `Schedule`, `Preempt`, `Terminate`, `NoProcessError` | `loop`, `schedule`, `transfer:`, `sigcputimer`, `terminated`, `noProcessError` |
| `WaitTimeOut`, `SemaphoreWait`, `WaitReturn` | `waitTimeOut:` up to the end of the fast path, the yielded action, the test of `sleepTime` |
| `UncheckedSignal`, `YieldSignal` | `unchecked_signal`: fast path, yielded action |
| `SigIO`, `SigRealTimer`, `Sleep` | `sigio`, one round of `sigrealtimer`, `sleep:For:` |
| `Bypass` | `protect:` of a recursiveSemaphore by its holder, on the way in and out |
| `Suspend`, `Resume`, `Abort` | `suspend:`, `resume:` with `redoSemaphoreWait`, `abort:` with the unwinding |

The helpers (`MoveToQueue`, `MoveToWaitingQ`, `Acquire`, `FastSignal`,
`TransferSemaphore`, `SuspendOnSemaphore`, `ReleaseAndMove`, `UnwindProtect`)
carry the names of the methods. `MoveToQueue` moves a set of processes in one
step, since `suspend:` and `kill:For:` release all waiters of a barrier on the way.

The readyQ is a set here, and any timer may expire at any time: a
superset of what the two heaps allow, so the safety properties hold for the
orders the heaps produce, whatever those are.

`Users` says which processes use a semaphore, so that an instance can give them
different parts.

A process executes one operation at a time: waiting for a second semaphore
inside `protect:` is left out, and so is `sleep:` of a process other than the caller.

### Cleanup

`Scheduler` with `releaseObjects`: a process copies the suspendedQ, aborts the
processes of the copy by `basicAbort`, one action each, and empties the queue.
`basicAbort` is not `kill:For:`: it leaves the status as it is. The process that
cleans up has the `pc` "cleanup" meanwhile.

### Heap, PriorityQueue, AbstractPriorityQueue

`Heap` has the array algorithms as operators and recursive functions;
`PriorityQueue` executes them one iteration at a time, and is shown to implement
`AbstractPriorityQueue` (a set with a "take out a least element"), with
`items <- Elements(contents)`. The removal of an element and the loop that
restores the order are separate steps, so a step of a loop is a stutter.
`Spec` has `add:` and `removeFirst`, `SpecRemove` also `remove:IfAbsent:`.

### ReadyQueue

Who gets the CPU: the readyQ as a heap sorted by priority, the running process
in it, `changePriority:OfProcess:`. Why a process becomes ready or stops being
so is left open. Fairness: `WF(Schedule)`, since the scheduler's loop does
nothing else when no signal is pending, and `WF(Preempt)`, since the CPU timer ticks
every 100 ms of CPU time (`activateCPUTimer`). Nothing is assumed of processes.

### TimerWaiters

The timerWaiters as a heap sorted by wake time, the one real timer that is set
for its first element, and a clock, which also ticks while `sigrealtimer` is in
its loop. The signal of the real timer is never early and arbitrarily late. The
timer of the VM is periodic (`src/vm/src/any/os/itimer.cpp`); the handler resets
or stops it each time, so one due time is enough. The reading of the clock and the setting
of the timer (`scheduler.self:195`, `984`) are one step: no time passes between them.

### Semaphores, Monitor

`Semaphores` has the operations of binary semaphores as the classes built on
them see them, one step each: `Scheduler` is where the gap between the fast
path and the yielded action is modelled and shown to lose nothing.
The operators of `WaitQueue` are functions of the map `sema`, so that
`signalAndThenWaitOn:`, which the scheduler runs as one action, is the
composition of a signal and a wait. `Suspend` and `Resume` take a waiter off its
queue and put it back at the end, or give it the permit (`redoSemaphoreWait`).

`Monitor` has `enter`, `exit`, `waitFor:` and `waitCondition`, used by producers
and consumers of a bounded buffer as `monitorTest` does, nested if they like.
The choice of the semaphore (`SemaphoreToSignal`) and its signal (`ExitSignal`,
`SignalAndThenWait`) are separate steps, since the code argues that they need
no critical section. `size`, `depth` and `left` are the client's.

### SharedQueue, AbstractQueue, SystemLog

`SharedQueue` has `add:` and `removeFirst`, on `Semaphores`. `pc` names the place in
the method (the comment lists them). An operation of the list is two
steps, one that reads it into `seen` and one that writes what follows from it: without the
lock the second would overwrite what another did in between. That
`rep` and the elements taken from it behave as `AbstractQueue`, in which
both are one step, is what the lock is for. A remover that finds `rep` empty raises
`count`, gives up the lock, and then waits on `blockSema`: an adder between
two of these sees the count but no waiter, and its signal is the permit that `blockSema`, of
capacity 1, keeps for one of them.

`SystemLog` is the log's dispatcher on top, its loggers the adders and its
handling processes the removers. `running` is read in one step and set
in another (`StartRunning`, `SetRunning`), so that two loggers may start a process each. A handler that breaks is
suspended, with its entry, and may be continued. `hup` aborts the
process it found in `running`, wherever that is; the documentation
(`docs/handbook/logging.rst`) has the user do so when it is suspended by an error.
Not modelled is an abort while it holds or asks for the lock of the queue, since
`protectNoNLR:` has no clean-up: the lock would be lost. `Overlapping` says
whether `hup` may come while a process is being started, see
[below](#statements-the-code-does-not-keep).

### Twains

The VM's side of process switching: `_TWAINS`, `_Yield`, `_AbortProcess`, the
interrupt check and the signal handler, which runs between any two steps. Each primitive is split
where the handler's effect depends on where it strikes; `SetSPAndCall` is the switch of stacks
proper, and between the step that transfers and this one `processSemaphore` is
set. `pc[Scheduler]` is the place in `_TWAINS`, `pc[p]` says whether a process is in Self,
in the interrupt check or gone. `SPLimit` is a
record: whose stack it is in, and whether it is at the end of it. The
limit may be in the stack of another process; whether the
check of a send then fails depends on which stack lies higher (`StackAt`).
Signals are counted, not told apart; the interval timer's differ from others in that
they are dropped while `processSemaphore` is set, and in that one on which no timer of Self is due
only ends the wait of the scheduler (`TickEndsWait`).

### ChunkMap, ZoneHeap, AbstractHeap

`ChunkMap` is the map of bytes from which a heap of the code zone tells its chunks,
as it is laid out: headers of one or four bytes at both ends, distances between, stale
distances left from earlier chunks. `ZoneHeap` has the
operations, with the free lists in their order, lazy and eager combining. The
loops of the code over the map, over a list, or over both (`combineAll`, `compact`) are
recursive functions whose argument is what the loop changes; one that would leave its
domain stops, and the properties show that none would. The limits of the map are constants:
`MaxDistance` is 128 in the code, `maxOneByteLen` 62, and `ChunkMapAssumption` says what the code
needs of them, that a digit of a size fits in a byte among it (128 = 2 * 62 + 4: by one less it would not). `ZoneHeap`
implements `AbstractHeap`, where objects have places and a request is
refused only when no place is free. `freed` is the chunk that was just freed, from which
a sweeper asks for the next one.

### CodeZone

The nmethods, each at an address, and the four kinds of reference to them. An
operation of the VM on the zone is one step, since no Self code runs in it;
between them Self processes send, return, compile and change methods. The
zone is a record, and the operators are functions of it, so that an allocation
can be a sweep, a flush, a compaction and the allocation (`AfterReclaim`). Two
fields are history: `is` of a reference, which the moves of the nmethod update, and
`old` of an nmethod, which says that what it was compiled from has changed. When the
VM compacts depends on sizes the model does not have, so it may at any time,
and `NoRoom` is the request that finds the zone full of active code. The routes kept are those whose stamp is
the current `codeFlushGeneration`; a flush drops them all.

## What TLC checks

No safety property relies on fairness. Deadlock is checked except in the instances of
`Scheduler` and `Cleanup`, where all processes may have ended or sleep for ever.
In `monitor` somebody can always be suspended or resumed: that waiting processes do
not all wait for one another is `ConditionWaitersReturn` there.

| Run | Instance | Properties |
|---|---|---|
| `locks` | 3 processes, 1 lock, time-outs 5 and infinity | `TypeOK`, `QueuesAgree`, `TimersAreForWaiters`, `WaitersAgree`, `NoLostWakeup`, `PermitConservation`, `TimedOutIffNotGranted`, `MutualExclusion` |
| `cleanup` | 3 processes: two share a recursive lock, the third, whose barriers are watched, waits for a file | `WaitersAgree`, `NoMissedRelease` with `releaseObjects`, SIGIO and the bypass |
| `heap` | up to 5 elements, ranks in pairs | `TypeOK`, `HeapOrder`, `IsPriorityQueue`, with removal from the middle |
| `ready_queue` | 4 processes, 2 priorities | `ReadyQAgrees`, `HighestFirst`, and `TopRuns` under the fairness below |
| `timers` | 4 processes, delays 1, 6 and 8, clock up to 9 | `TimersAgree`, `Armed`, `NoneOverdue` |
| `monitor` | 3 processes: a producer that enters twice over, 2 consumers that are suspended and resumed; buffer of 3, 2 operations per entry | `OnePermit`, `HolderAgrees`, and `ConditionWaitersReturn` under `BusySpec` |
| `system_log` | 2 loggers, 2 handling processes, 2 entries in the queue, `count` up to 2 | `NoneAsleep`, `IsQueue`, and `LogDrains` under `BusySpec` |
| `twains` | the scheduler, a process with its stack below and one above it, 1 signal counted | `ResultIsReal`, `SteppedStops`, `OnlyReadyRuns`, and `SignalsReachSelf` under `FairSpec` |
| `zone_heap` | 15 blocks, 3 objects of 1 or 14 blocks, lists for sizes 1 and 2 | `MapAgrees`, `Combined`, `FindsStart`, `SweepGoesOn`, `IsHeap` |
| `code_zone` | room for 3 nmethods, 2 methods that call each other, 2 activations | `FramesLive`, `LinksLive`, `TableAgrees`, `RouteNotFlushed` |

The other two runs, `recursive` and `stale_route`, end in a counterexample, see below.

*Fairness.* `ReadyQueue` see above. `BusySpec` of `Monitor` and of `SystemLog` is weak fairness of
"some process takes a step": the scheduler's loop does not idle while a process
is ready (`schedule`). Which of the ready processes runs is left open, since
the scheduler is not fair to each (`RoundRobin`, below); in the monitor only the owner of the one permit
can get anywhere, and in the log everybody comes to a stop when nothing is left to
do, so this is enough. `FairSpec` of `Monitor`, fairness to each
process, is more than the code gives; it is used for `NobodyStarves` alone, to
show that an unfair scheduler is not what starves the process. Suspended
processes need not be resumed; `ConditionWaitersReturn` and `LogDrains` are therefore about
behaviours in which nobody stays suspended, and `LogDrains` about those in which
logging and `hup` come to an end.

`FairSpec` of `Twains`: weak fairness of the VM's own steps, which nothing can hold
up; strong fairness of the scheduler's `_TWAINS` (its loop comes back to it), of
the interrupt check outside sections that block signals (a process sends messages
there now and then), of the end of an aborted process, and of
ticks of the timers that strike while signals are not blocked: while a process runs those of
the CPU timer, which Self sets (`activateCPUTimer`) and each of which is a signal; while the
scheduler waits in `select` those of the VM's own timers do, which only end the wait. Nothing
is assumed of signals other than the timer's, nor that a process ends or yields.

*Why the bounds are enough to be of interest.* Three processes are the least
with which one waits, one holds and one suspends or aborts either; in `locks`
one of them is newborn at first, as the target of `suspend:` and `abort:`.
One lock suffices since processes do not nest locks. The value of a time-out
matters in three ways only: negative, infinite, other. A heap of five elements has a third
level, both kinds of last parent (one child, two children) and removal from
the middle; a heap of six is the smallest that removal can put out of order,
which is why `heap` has five. Four timers
with delays below and above the minimum of 5 ms, and a clock that reaches every wake time
of a first and of some second generation of time-outs, make new first elements, ties and
timers that run out during the handler happen. In `monitor` two consumers are the
least that can wake each other while the producer waits to enter, a buffer of 3
with two operations per entry lets processes take turns without waiting, makes both
conditions false in turn, and makes a process wait after it has changed the buffer.
In `system_log` two loggers can start two handling processes, which can both have
found the queue empty when two entries come. In `twains` one process cannot
touch the stack of another, so that the scheduler, the process it calls and
one that is not running are all there is at a time; the stacks lie on both sides of the scheduler's.
Signals are passed on all together, so that counting more than one changes nothing. In `zone_heap`
a chunk of 14 blocks needs headers of four bytes and distances with more than
one digit (the constants of the map are scaled down to 9), one of one block
has a header that is its trailer, and both small and big free
lists have chunks that combine. In `code_zone` three nmethods of two methods can be a
zombie, its replacement and a caller; a third method or room for a fourth adds no new
reference.

*Properties.* Each is stated in words above its definition, with the line of the
code it is about. `NoLostWakeup`, `TimedOutIffNotGranted` and
`MutualExclusion` are about several processes and the gap between fast path and
action; `WaitersAgree` and `NoMissedRelease` about suspension and death;
`Armed` and `NoneOverdue` about the real timer; `OnePermit` and `HolderAgrees` about a
monitor that is handed on between two semaphores; `NoneAsleep` and `LogDrains` about a
permit that stands for two; `ResultIsReal` and `SignalsReachSelf` about a handler in
the middle of a switch; `SweepGoesOn` and `FindsStart` about stale bytes; `FramesLive` and `LinksLive`
about all paths on which code goes. `PROJECT.json` names for each a
mutant, an operator of its module that changes the code in a plausible way, which
makes TLC find the property violated.

## What is proved

For every set of processes, locks, events, time-outs, of items and ranks, a zone of any size for any methods,
and a heap of any number of blocks; the assumptions are `SemaphoreAssumption` (`Scheduler`), `RankAssumption` (`PriorityQueue`),
`MonitorAssumption` (`Monitor`: the two semaphores, a positive limit and nesting),
`SharedQueueAssumption` (`SharedQueue`: its two semaphores; adders and removers are different
processes, the removers finitely many), `SystemLogAssumption` (`deadProcess` is none of them),
`TwainsAssumption` (`Twains`: the scheduler is none of the processes, stacks lie somewhere),
`CodeZoneAssumption` and `NoneAssumption` (`CodeZone`: room for at least one nmethod; each key has a send; `None` is no
address, reference, activation or nmethod), `PriorityAssumption` (`ReadyQueue`: priorities are
integers), `TimeAssumption` (`TimerWaiters`: delays are positive, `off` is no time; `MaxTime`, the bound of the clock, is any
number), `ChunkMapAssumption` and `ZoneHeapAssumption` (the limits of the map; sizes are at most that
of the heap, which three digits can hold).

Where the code loops, the model has a recursive function. Of such a function on any domain it has to be shown first that
it exists, since a `CHOOSE` of a function that does not would be anything: `LoopExists` in
`Lemmas` does so for every loop that goes from one member of the domain to another, whether it ends or not. `LoopRule`
says what a loop returns: given a measure that each round decreases and an invariant that
each round keeps, it is what it returns in some state where it stops and the invariant holds. `LoopRule` follows from the
least counterexample (`Least`, from the library's theorem that proper inclusion of finite sets is
well-founded), so that no induction theorem is needed, which would take an operator as a parameter.

`SchedulerProofs`, from `Spec`, the last three from `CleanupSpec`:

| Theorem | Property | Further assumption |
|---|---|---|
| `TypeCorrect` | `TypeOK` | |
| `QueuesCorrect` | `QueuesAgree` | |
| `TimersCorrect` | `TimersAreForWaiters` | |
| `WaitersCorrect` | `WaitersAgree` | no negative time-out but infinity |
| `NoLostWakeups` | `NoLostWakeup` | the same |
| `NoMissedReleases` | `NoMissedRelease` | the same |
| `TimeOutsReported` | `TimedOutIffNotGranted` | the same |
| `PermitsConserved` | `PermitConservation` | the same |
| `ProtectExcludes` | `MutualExclusion` | the same, and no recursive lock |
| `CleanupWaitersCorrect` | `WaitersAgree` | no negative time-out but infinity |
| `CleanupNoMissedReleases` | `NoMissedRelease` | the same |
| `CleanupKeepsSemaphores` | `NoLostWakeup`, `TimedOutIffNotGranted`, `PermitConservation`, and `MutualExclusion` if no lock is recursive | the same |

The properties are not inductive one by one. The argument goes up in layers, each
of which uses the ones below:

1. `TypeOK` and `TargetsOK`: the target of a process is of the kind that its
   `pc` calls for.
2. `SchedInv` adds `QueuesAgree` and `TimersAreForWaiters`. `SchedEffect` says
   in four cases what any action does to the queues.
3. `WaitInv` is `ControlOK`, `WaitersAgree`, `NoLostWakeup` and `BarriersOK`.
   `ControlOK` ties the semaphore that a process is on to its status, its `pc`
   and its `target`, and says that whoever waits has a `sleepTime` that is not
   0: a process that runs is on no semaphore. `BarriersOK` says that the
   barriers of the dead and the suspended are open and that nobody is queued
   at an open barrier.
4. `GrantInv` is `TimedOutIffNotGranted` and `PermitConservation`. With the
   lower layers it is inductive: each action moves a permit together with the
   belief of one process, or neither.
5. `MutualExclusion` follows from the grants when nobody can be in "bypass".

With `releaseObjects`, `QueuesAgree` fails after a single `BasicAbort`: the destroyed process is on no queue and
keeps its status, "suspended" or, if it was resumed meanwhile, "ready" or "waiting"; and the `removeAll` at the end drops
processes from the suspendedQ that believe to be on it. The layers 3 and 4 do not need it. `QueuesSound` is what they use:
a process in a queue believes to be there, one that believes to be on the readyQ or the waitingQ
has the status to go with it, and only members of the waitingQ have a timer.
`CleanupInv` is `TypeOK`, `TargetsOK`, `QueuesSound`, `WaitInv`, `GrantInv` and, that whoever is in
`cleanupQ:` does nothing else, `CleanerOK`. In `ControlOK` a process may be dead and still say "waiting", but then it is on no semaphore.
`ReleaseEffects` is what `suspend:`, `kill:For:` and `basicAbort` have in common: one process leaves
its semaphore and some barriers are opened.

Negative time-outs are excluded since they break `ControlOK`: the process is told of
a time-out and goes on while it is still on the semaphore's queue
(`scheduler.self:635`, `semaphore.self:641`). Recursive locks are excluded in the last step, as `recursive` shows.

`HeapProofs`:

| Theorem | Specification | Property | Further assumption |
|---|---|---|---|
| `TypeCorrect` | `Spec` of `PriorityQueue` | `TypeOK` | |
| `HeapOrdered` | `Spec` | `HeapOrder` | |
| `PriorityQueueCorrect` | `Spec` | `IsPriorityQueue`: the refinement of `AbstractPriorityQueue` | |
| `FewPriorityQueueCorrect` | `SpecRemove` | `IsPriorityQueue` | at most 5 items |
| `NoReadyProcessLost` | `ReadySpec` | who believes to be on the readyQ is in the heap | |
| `OrderedReadyQAgrees`, `OrderedHighestFirst` | `ReadySpec` | `ReadyQAgrees`, `HighestFirst` | the heap is always in order |
| `ReadyQCorrect`, `HighestFirstCorrect` | `ReadySpec` | the same | at most 5 processes |
| `NoSleeperLost` | `TimersSpec` | who waits with a time-out is in the heap | |
| `OrderedTimersAgree`, `OrderedArmed`, `OrderedNoneOverdue` | `TimersSpec` | `TimersAgree`, `Armed`, `NoneOverdue` | the heap is always in order |
| `TimersCorrect`, `ArmedCorrect`, `NoneOverdueCorrect` | `TimersSpec` | the same | at most 5 processes |

There are three kinds of results, since `remove:` of an element from the middle keeps a heap in order
up to five elements and not beyond (`MCHeapRemove.cfg`), and in a heap that is out of order `remove:` may not find
what it looks for (`priorityQueue.self:353` does not descend below what comes after the element). For any number: nothing is lost,
what can go wrong is that an element that was to be removed is still there. For any number, under the
hypothesis `[]ReadyOrdered` or `[]TimersOrdered`: what the properties say. Without it, for up to five:
`FiveFit` shows that the last element, which `removeAtIndex:` puts in the place of the removed one and only pushes
down, cannot belong further up then: it is below the parent of that place already, or below the first element.

The inductive invariant of `Spec` is `TypeOK`, `LoopInv` and `Injective`.
`LoopInv` says where the order may be broken while a loop runs: between `index`
and its parent on the way up, between `index` and its children on the way down,
the children of `index` being in order with its parent in both cases. `Injective` says
that no element occurs twice. That the root is preceded by
nothing, usually shown by induction over the tree, follows from a least
index that precedes the root, whose parent does so too. The readyQ and the timerWaiters
use the loops as functions; `LoopRule` takes the same invariants to what these return. `ReadyInv`
and `TimersInv` then say that the heap holds the processes that it should, each once, in order; those of
the timers add that the real timer is due no later than the first of them (`Armed`).

`MonitorProofs`, from `Spec`:

| Theorem | Property | Further assumption |
|---|---|---|
| `MonitorTypes` | types | |
| `PermitKept` | `OnePermit` | |
| `HolderCorrect` | `HolderAgrees` | |
| `NobodyArrivesUnsuspended` | `NobodyArrives` | `Suspendable = {}` |

The inductive invariant is `TypeOK`, `QueuesOK`, `OnePermit`, `DepthOK` and
`HolderAgrees`. `QueuesOK` says that each process is on at most one queue, once,
and on which one its `pc` allows; `DepthOK` that who is inside has
entered at least once and that `hc` is the depth of who waits for a condition.
The lemmas on queues in `Lemmas` are shared with `SchedulerProofs`, those on
what a wait and a signal do with `SystemLogProofs`. The
last theorem is the argument of the code's comment, with the assumption it
needs: `MCArrival.cfg` shows that it fails without.

`TwainsProofs`, from `Spec`:

| Theorem | Property |
|---|---|
| `TypeCorrect` | types |
| `ResultCorrect` | `ResultIsReal` |
| `SteppedStopsCorrect` | `SteppedStops` |
| `OnlyReadyRunsCorrect` | `OnlyReadyRuns` |

The inductive invariant is `TypeOK`, `Control`, `Causing` and `Stepping`. While `_TWAINS` has
transferred, only its target is in play, and the control is at one of four places:
on the way out, there, on the way in, back (`Control`). `Causing` bounds `preemptCause` at
each of them: a handler replaces no cause, and `_TWAINS` clears it first.
`Stepping` says that only the target is stepped, and that its limit is armed from the
transfer to the next interrupt check. There is one lemma per action.

`SystemLogProofs`, from `Spec`:

| Theorem | Property | Further assumption |
|---|---|---|
| `QueueCorrect` | `IsQueue`: the refinement of `AbstractQueue` | |
| `NobodySleepsBesideAnEntry` | `NoneAsleep` | `~Overlapping` |

`QueueInv` is inductive by itself: one process at most is inside the lock of the queue
(`LockOK`), so that what an operation of the list has read is still there when it
writes (`ListOK`). `WakeInv` adds to it that `count` is at least the number of handlers on
their way to sleep or asleep (`CountOK`: an adder that signals for nobody leaves a handler
awake), that whom a logger is about to make `running` is alive and known to nobody else
(`StartOK`), that the process which `hup` is about to abort is the one that is running
(`AbortOK`), and who will look at the queue next if it is not empty (`Looked`): an adder
about to signal, a handler that is awake, one for whom there is a permit, or one that `hup` starts
whatever else happens. `AbortOK` is what `MCHupRace.cfg` violates. There is one
lemma per action for each of the two.

`CodeZoneProofs`, from `Spec`:

| Theorem | Property |
|---|---|
| `FramesStayLive` | `FramesLive` |
| `LinksStayLive` | `LinksLive` |
| `TableCorrect` | `TableAgrees` |
| `RoutesFlushed` | `RouteNotFlushed` |

The operations are functions of a zone, so the invariant `ZoneOK(z, E)` is a predicate of one, and the
proof has a lemma for each operation, from `makeZombie` and `flush` up to `AfterReclaim`,
that says it takes one such zone to another; the actions of `Next` then only put them together. Its
parts are the types, `FramesOK`, `LinksOK`, `TableOK`, `RoutesOK`, which say a little more than the
properties, and `ChainOK`. That one is what makes a programming change safe: it
invalidates only nmethods that are in the chains of dependencies, and `ChainOK` says that one which is not is a
zombie or invalid already, `LinksOK` that no send is linked to it. `TableOK` is up to the nmethods
of `E`: the one that is recompiled is out of the code table while room for its successor is made, and
that may flush and compact. For compaction, sliding is shown to be a bijection from the addresses in
use onto the first ones, which keeps their order (`Slid` counts those below).

`ZoneHeapProofs`, from `Spec`:

| Theorem | Property |
|---|---|
| `SpecMapAgrees` | `MapAgrees` |
| `SpecCombined` | `Combined` |
| `SpecFindsStart` | `FindsStart` |
| `SpecSweepGoesOn` | `SweepGoesOn` |
| `SpecIsHeap` | `IsHeap`: the refinement of `AbstractHeap` |

`MapAgrees` speaks of `Chunks`, those that a walk over the map meets, and is not inductive: a map could be read in one way from the
left and in another from the right. The inductive invariant `IInv` says instead that there is
a set C of blocks, the starts of the chunks, which cuts the map (`Cut`: from each of its members
the next one follows, where headers, trailers and, in used chunks, distances say so), of which the free ones are
each in the list for their size, once (`HeapOK`), two that touch are not both long (`Paired`), none
touch while chunks are combined (`AllLone`), and the used ones are where the objects are
(`Holding`). Stale bytes are all those of which `Cut` says nothing. `Walked` says that the place of the chunk just freed is the start of a chunk still, or lies in the
one last combined, which is what a sweeper that stands on it relies on. From there the proof has four parts:

- *bytes*: what `markSize` writes is read as a chunk of that size from either end, also when it
  takes three digits (`MarkSizeMarks`, `MarkedTile`), and chunks stay chunks when bytes elsewhere change (`TileSame`,
  `TilesJoin`, `TilesPart`);
- *loops over the map*: `Onward`, `FirstFree`, `findStart` return the chunk that their names say
  (`OnwardFacts`, `FindStartFacts`), by `LoopRule` with the distance to the end of the map as the measure;
- *the heap*: `combine`, `combineAll` and `Split` keep `HeapOK`, and after `combineAll` no chunks that touch are
  left, however the lists change under the loop (`CombiningOK` is its invariant); a request
  of n blocks is refused only if no n blocks in a row are free (`NoRoom`);
- *compaction*: `Slid` is the invariant of its loop. What is marked so far are the used chunks with a
  smaller start, in order, packed at the bottom; that this leaves out none and that none overwrites another not moved yet
  follows from `Rank`, the number of used blocks below a chunk, which is where it goes.

*Only model-checked:* liveness (`TopRuns`, `ConditionWaitersReturn`, `SignalsReachSelf`,
`LogDrains`): it and fairness are out of the prover's reach. For priority queues with `remove:`, readyQ and timerWaiters of more than five elements
there are the conditional theorems, and counterexamples to the others.

## Where the code and its comments disagree

Each is a run that TLC ends with a counterexample.

- `recursive`: a recursiveSemaphore that is released through the scheduler after
  its last waiter has timed out still names its old holder
  (`semaphore.self:340`), who is let through `protect:` beside a new one.
- `stale_route`: compaction changes every reference to an nmethod but the routes of
  the interpreter, and does not count up the generation that would make them stale
  (`zone.cpp:624`): the next hit enters the place where the nmethod was.

## Statements the code does not keep

These are properties of the modules that TLC finds violated with the configurations
named; they are not among the runs.

- `MCHeapRemove.cfg` (`MCPriorityQueue`): `removeAtIndex:` only pushes the replacement down
  (`priorityQueue.self:380`); if it comes from another branch it may belong further up,
  and `removeFirst` may then return the wrong element. It takes six elements.
- `RoundRobin`, `MCRoundRobin.cfg` (`MCReadyQueue`): of three ready processes of the highest priority two take turns
  and the third starves (`scheduler.self:845`): a heap does not keep the order
  of arrival.
- `NobodyStarves`, `MCStarvation.cfg` (`MCMonitor`): `semaphoreToSignal` prefers those who wait for a condition "to
  avoid starvation" (`monitor.self:411`), and any process that gives up the
  monitor wakes one of them, whether its condition has become true or not.
  Two whose conditions are false wake each other for ever; who waits to
  enter, and would make the conditions true, starves.
- `NobodyArrives`, `MCArrival.cfg` (`MCMonitor`): "this cannot happen", says `semaphoreToSignal` of a process that
  arrives at `conditionSemaphore` between the choice and the signal
  (`monitor.self:418`); `resume:` puts one there. The permit then goes to
  `monitorSemaphore` although somebody waits for a condition; if nobody
  enters any more, it stays there.
- `NoneAsleep`, `MCHupRace.cfg` (`MCSystemLog`): if `hup` overlaps with a logger that starts a process,
  `running` may come to name a process that sleeps, beside a permit that
  nobody takes; loggers see it alive and start no other. With the run's restriction this does not happen.
- `SwitchesSoon` (`Twains`): `_BlockSignals` of false arms the stack limit if signals are pending, to "make
  sure the switch happens soon" (`sig.cpp:126`), but the interrupt check finds no cause, since the handler set
  none, and returns. The signals are passed on at the next tick or `_TWAINS`.
- `OldCodeStops` (`CodeZone`): a flush of the whole zone takes active nmethods out of the
  chains of dependencies when it makes zombies of them (`nmethod.cpp:517-519`), so that a
  `_Define` that follows does not mark their activations to be converted: they go on in code
  that the change has made wrong.

More that the models contain and no run singles out:

- a negative time-out other than infinity is reported at once, but the process
  stays on the semaphore's queue (`scheduler.self:635`), also when `resume:` redoes
  the wait (`SuspendAgain`), and is granted the permit later, which is lost;
- with six timers, the smallest number that puts the heap out of order,
  `remove:` takes a timer that precedes the first to be absent
  (`priorityQueue.self:353`), and a process that was signalled keeps its timer;
- a process that is suspended while another cleans up the suspendedQ is dropped
  from the queue but not aborted (`scheduler.self:285`);
- `suspend:` of a dead process puts it on the suspendedQ, and `resume:` from there on
  the readyQ, where `_TWAINS` finds it dead and it is killed again;
- a sleeping process that is suspended and resumed becomes ready at once, its
  sleep cut short;
- one permit of `blockSema` may stand for two removers of a sharedQueue
  (`sharedQueue.self:151`): a remover that takes one element and does not come back
  leaves the other asleep beside the second one;
- `count` of a sharedQueue is never lowered for a remover that was aborted while it waited, so that
  adders signal for nobody from then on.

Noticed in code that the models abstract from: `zone::allocateDeps` does not give back
the method ID it took when it fails (`zone.cpp:846`); `adjustPolicy` does not end if all nmethods are on
the stack (`zone.cpp:593-597`); the sweeper takes an active zombie off the list of
zombies (`zone.cpp:1238-1240`); the tests of sharedQueue are disabled
"because it fails" (`src/objects/tests/tests.self:2522-2525`).

## What is not modelled

- `get`, the time-out of `signalAndThenWaitOn:TimeOut:`, nested locks, `sleep:` of
  another process.
- Processes that are aborted while they use a monitor, or the lock of a sharedQueue; `enter` and `exit` that do
  not pair up. `addFirst:`, `removeLast` and the operations of a sharedQueue on the whole list.
- The debugger; error handling (`suspendAndTrace:`). Single-stepping is in `Twains` only.
- The heap orders inside `Scheduler` (they are in the modules of their own); the growth of the
  heap's vector and the clearing of its unused end; `readyQ releaseObjects`.
- `holderProcess` of barriers, which nothing reads. States of a monitor between the assignments to
  `holdCount` and to `holdingProcess` (`monitor.self:195`, `447`): to whoever reads them there, the holder is somebody else.
- Lock, channel and serializer, so far.
- In the VM: `_TWAINS` with a stop activation, the killing and conversion of
  activations, the profiler, keyboard signals and synchronous faults; debug, uncommon-branch
  and DI nmethods, polymorphic inline caches and count stubs, the choice of what a sweep takes, the heaps for
  dependencies and debugging information, recompilations that yield nothing, and those of a reusable nmethod
  (`recompile.cpp:1170`: unlinked but not flushed), which only the NIC makes and 64-bit builds do not have
  (`src/vm64/cmake/setup.cmake`); snapshots.
- Memory, lookup, compilers, interpreter proper, parser, library and user interfaces. Memory is the one
  of these with invariants a model could state; the compilers' correctness is
  that of the code they generate, out of the reach of a model checker.

Measured by lines, little of the repository is covered, and it will stay so: of its C and
C++ most is glue to window systems, generated wrappers of primitives, tables and two versions of the compilers, and
there are two copies of the VM (`src/vm`, `src/vm64`). The scheduler and the classes on
it are a few thousand lines of Self.

## Plan

Done: `Scheduler` with its proofs; `Heap`, `PriorityQueue`,
`AbstractPriorityQueue`, `ReadyQueue` and `TimerWaiters` with theirs; `Cleanup` with proofs;
`Semaphores` and `Monitor` with proofs; `Twains` with proofs; `ChunkMap`, `ZoneHeap`,
`AbstractHeap` with proofs; `CodeZone` with proofs; `SharedQueue`, `AbstractQueue`, `SystemLog` with proofs.

Next, in this order:

1. `Lock` (`forceUnlockForWaitOn:`) on `Semaphores`, with time-outs of
   `signalAndThenWaitOn:TimeOut:`; mutual exclusion, and that a lock that is
   given up is taken back as often.
2. An abstract counting semaphore with time-outs that `Scheduler` implements,
   and that `Semaphores` is an instance of: it closes the gap between the two.
3. `Channel`, `Serializer`: order and exclusion of the messages, on `SharedQueue`.
4. `releaseObjects` of the readyQ against actions of the scheduler; `Monitor` with aborts.
5. Memory: scavenges, the remembered set and allocation from a full eden.

Proofs: the refinement of 2; exclusion in `Lock`.
