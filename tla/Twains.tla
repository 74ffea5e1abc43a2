------------------------------- MODULE Twains -------------------------------
(***************************************************************************)
(* How the virtual machine switches between Self processes, and how Unix   *)
(* signals get them back to the Self scheduler.  The scheduler process     *)
(* calls _TWAINS with the process to run; the primitive returns when that  *)
(* process yields, ends, is preempted, or when there is a signal to pass   *)
(* on.  preemptCause says why, and the stack limit SPLimit is how a        *)
(* process is made to call interruptCheck: raised to the end of its stack  *)
(* it makes the check of the next send fail.                               *)
(*                                                                         *)
(* Signal handlers run between any two steps, so each primitive is split   *)
(* where a handler's effect depends on where it strikes.  The window in    *)
(* which processSemaphore is set is that between a step that transfers and *)
(* SetSPAndCall.                                                           *)
(***************************************************************************)
EXTENDS Integers

CONSTANTS
  Procs,        \* the Self processes the scheduler runs
  Scheduler,    \* the process that calls _TWAINS
  Nobody,       \* no process
  StackAt,      \* how high in memory the stack of each process lies
  MaxPending    \* BOUND: signals counted before the count stays as it is

ASSUME TwainsAssumption ==
  /\ Scheduler \notin Procs
  /\ Nobody \notin Procs \cup {Scheduler}
  /\ StackAt \in [Procs \cup {Scheduler} -> Int]
  /\ MaxPending \in Nat \ {0}

VARIABLES
  cause,        \* preemptCause
  twains,       \* twainsProcess is the scheduler, and not NULL
  current,      \* currentProcess
  prev,         \* prevProcess
  next,         \* the process SetSPAndCall is about to resume
  target,       \* the process _TWAINS or _AbortProcess was called with
  limit,        \* SPLimit: whose stack it is of, and whether it is its end
  pending,      \* signals counted in PendingSelfSignals
  blocked,      \* _block_self_signals
  scavenge,     \* NeedScavenge
  lowSpace,     \* needToSignalLowOnSpace
  state,        \* Process::state of each process
  stepping,     \* Process::stepping of each process
  empty,        \* hasEmptyStack of each process
  pc            \* where in Self or in the virtual machine each process is

vars == <<cause, twains, current, prev, next, target, limit, pending, blocked,
          scavenge, lowSpace, state, stepping, empty, pc>>
signals == <<pending, blocked>>
memory == <<scavenge, lowSpace>>
machine == <<cause, twains, target>>
switching == <<current, prev, next>>
lives == <<state, stepping, empty>>

Processes == Procs \cup {Scheduler}
\* cTerminated and cAborted are "ended", the causes that stop a process
\* (cStackOverflowed, cNonLIFOBlock) are "stopped".
Causes == {"noCause", "ended", "stopped", "yielded", "singleStepped", "signal",
           "lowOnSpace", "couldntAllocateStack"}

processSemaphore == next # Nobody

Armed(p) == [of |-> p, armed |-> TRUE]     \* p setupPreemption
Clear(p) == [of |-> p, armed |-> FALSE]    \* p clearPreemption

At(p, label) == current = p /\ ~processSemaphore /\ pc[p] = label
GoTo(p, label) == pc' = [pc EXCEPT ![p] = label]

\* The check of a send compares the stack pointer with the limit, whosever
\* stack the limit is of.
Trips(p) == IF limit.of = p THEN limit.armed ELSE StackAt[limit.of] > StackAt[p]

InSelf(p) == p = Scheduler \/ pc[p] \in {"self", "preempt", "decide"}
-----------------------------------------------------------------------------
(* Transferring: from the setting of processSemaphore to SetSPAndCall.     *)

\* The limit of a process that is started is cleared; of one that is resumed
\* it is left alone while a scavenge is due.  A process that is stepped is
\* armed last.
TransferPatchesFirst(from, to, steps, starts) ==
  /\ prev' = from
  /\ next' = to
  /\ limit' = IF starts \/ ~scavenge THEN Clear(to)
              ELSE IF steps THEN Armed(to) ELSE limit
  /\ UNCHANGED current

Transfer(from, to, steps, starts) ==
  /\ prev' = from
  /\ next' = to
  /\ limit' = IF steps THEN Armed(to)
              ELSE IF starts \/ ~scavenge THEN Clear(to)
              ELSE limit
  /\ UNCHANGED current

SetSPAndCall ==
  /\ processSemaphore
  /\ current' = next
  /\ next' = Nobody
  /\ UNCHANGED <<machine, prev, limit, signals, memory, lives, pc>>
-----------------------------------------------------------------------------
(* The scheduler process, in Self and in its primitives.                   *)

TWAINSUnchecked(p) ==
  /\ At(Scheduler, "self")
  /\ p \in Procs => state[p] \in {"initialized", "ready", "stopped"}
  /\ target' = p
  /\ cause' = "noCause"
  /\ twains' = TRUE
  /\ GoTo(Scheduler, "test")
  /\ UNCHANGED <<switching, limit, signals, memory, lives>>

TWAINS(p) ==
  /\ At(Scheduler, "self")
  /\ p \in Procs => state[p] \in {"initialized", "ready"}
  /\ target' = p
  /\ cause' = "noCause"
  /\ twains' = TRUE
  /\ GoTo(Scheduler, "test")
  /\ UNCHANGED <<switching, limit, signals, memory, lives>>

TestPending ==
  /\ At(Scheduler, "test")
  /\ IF pending > 0 /\ ~blocked
     THEN cause' = "signal" /\ GoTo(Scheduler, "result")
     ELSE UNCHANGED cause /\ GoTo(Scheduler, IF target = Scheduler THEN "wait"
                                                                   ELSE "transfer")
  /\ UNCHANGED <<twains, target, switching, limit, signals, memory, lives>>

TransferToTarget(steps) ==
  /\ At(Scheduler, "transfer")
  /\ Transfer(Scheduler, target, steps, state[target] = "initialized")
  /\ cause' = IF steps THEN "singleStepped" ELSE cause
  /\ state' = IF state[target] = "initialized"
              THEN [state EXCEPT ![target] = "ready"] ELSE state
  /\ stepping' = [stepping EXCEPT ![target] = steps]
  /\ GoTo(Scheduler, "away")
  /\ UNCHANGED <<twains, target, signals, memory, empty>>

CouldntAllocateStack ==
  /\ At(Scheduler, "transfer")
  /\ state[target] = "initialized"
  /\ cause' = "couldntAllocateStack"
  /\ state' = [state EXCEPT ![target] = "aborting"]
  /\ GoTo(Scheduler, "result")
  /\ UNCHANGED <<twains, target, switching, limit, signals, memory, stepping, empty>>

TransferReturns ==
  /\ At(Scheduler, "away")
  /\ stepping' = [stepping EXCEPT ![target] = FALSE]
  /\ GoTo(Scheduler, "result")
  /\ UNCHANGED <<machine, switching, limit, signals, memory, state, empty>>

\* The wait for a signal: the handler of a signal that comes before select()
\* is called has run when select() starts to wait.
Select ==
  /\ At(Scheduler, "wait")
  /\ GoTo(Scheduler, "select")
  /\ UNCHANGED <<machine, switching, limit, signals, memory, lives>>

SelectReturnsToWait ==
  /\ At(Scheduler, "woken")
  /\ GoTo(Scheduler, "wait")
  /\ UNCHANGED <<machine, switching, limit, signals, memory, lives>>

SelectReturns ==
  /\ At(Scheduler, "woken")
  /\ GoTo(Scheduler, IF cause = "noCause" THEN "wait" ELSE "result")
  /\ UNCHANGED <<machine, switching, limit, signals, memory, lives>>

GetResult ==
  /\ At(Scheduler, "result")
  /\ twains' = FALSE
  /\ cause' = "noCause"
  /\ pending' = IF cause = "signal" THEN 0 ELSE pending
  /\ state' = IF cause = "ended"
              THEN [state EXCEPT ![prev] = "defunct"] ELSE state
  /\ prev' = IF cause = "ended" THEN Nobody ELSE prev
  /\ target' = Nobody
  /\ GoTo(Scheduler, "self")
  /\ UNCHANGED <<current, next, limit, blocked, memory, stepping, empty>>

\* _AbortProcess: a process that has run unwinds its own stack, and runs its
\* clean-up blocks doing so, before the scheduler continues.
AbortProcess(p) ==
  /\ At(Scheduler, "self")
  /\ state[p] \in {"initialized", "ready", "stopped"}
  /\ IF state[p] = "initialized"
     THEN /\ state' = [state EXCEPT ![p] = "defunct"]
          /\ UNCHANGED <<target, switching, limit, pc>>
     ELSE /\ state' = [state EXCEPT ![p] = "ready"]
          /\ target' = p
          /\ Transfer(Scheduler, p, FALSE, FALSE)
          /\ GoTo(Scheduler, "aborting")
  /\ UNCHANGED <<cause, twains, signals, memory, stepping, empty>>

AbortReturns ==
  /\ At(Scheduler, "aborting")
  /\ state' = [state EXCEPT ![target] = "defunct"]
  /\ prev' = IF prev = target THEN Nobody ELSE prev
  /\ target' = Nobody
  /\ GoTo(Scheduler, "self")
  /\ UNCHANGED <<cause, twains, current, next, limit, signals, memory, stepping, empty>>

\* A process object is given a new process.
NewProcess(p) ==
  /\ At(Scheduler, "self")
  /\ state[p] \in {"defunct", "aborting"}
  /\ state' = [state EXCEPT ![p] = "initialized"]
  /\ stepping' = [stepping EXCEPT ![p] = FALSE]
  /\ empty' = [empty EXCEPT ![p] = TRUE]
  /\ GoTo(p, "new")
  /\ UNCHANGED <<machine, switching, limit, signals, memory>>
-----------------------------------------------------------------------------
(* A process that runs Self code.                                          *)

Runs(p) == At(p, "self")

\* prepare_to_call_self, for the first message of a process.
PrepareToCallSelf(p) ==
  /\ At(p, "new")
  /\ limit' = Armed(p)
  /\ GoTo(p, "self")
  /\ UNCHANGED <<machine, switching, signals, memory, lives>>

\* Eden is full: the object goes elsewhere and a scavenge is asked for.
AllocateMore(p) ==
  /\ Runs(p)
  /\ ~scavenge
  /\ scavenge' = TRUE
  /\ limit' = Armed(p)
  /\ UNCHANGED <<machine, switching, signals, lowSpace, lives, pc>>

\* _Scavenge, and the primitives that scavenge to allocate what they must.
Scavenge(p) ==
  /\ Runs(p)
  /\ scavenge' = FALSE
  /\ UNCHANGED <<machine, switching, limit, signals, lowSpace, lives, pc>>

CheckForLowSpace(p) ==
  /\ Runs(p)
  /\ ~lowSpace
  /\ lowSpace' = TRUE
  /\ limit' = Armed(p)
  /\ UNCHANGED <<machine, switching, signals, scavenge, lives, pc>>

Send(p) ==
  /\ Runs(p)
  /\ ~Trips(p)
  /\ empty' = [empty EXCEPT ![p] = FALSE]
  /\ UNCHANGED <<machine, switching, limit, signals, memory, state, stepping, pc>>

InterruptCheck(p) ==
  /\ Runs(p)
  /\ Trips(p)
  /\ GoTo(p, "preempt")
  /\ UNCHANGED <<machine, switching, limit, signals, memory, lives>>

\* handlePreemption, up to the look at preemptCause.
HandlePreemption(p) ==
  /\ At(p, "preempt")
  /\ scavenge' = FALSE
  /\ lowSpace' = (lowSpace /\ twains)
  /\ limit' = Clear(p)
  /\ GoTo(p, "decide")
  /\ UNCHANGED <<machine, switching, signals, lives>>

NeverIgnoresSignal == FALSE

IgnoresSignal == blocked /\ cause = "signal"
SkipsDoIt(p) == cause = "singleStepped" /\ empty[p]

\* The rest of handlePreemption: whether p goes on, goes on to be stepped
\* past its invisible doIt, or makes way for the scheduler.
ReturnToSelf(p) ==
  /\ ~twains \/ cause = "noCause" \/ IgnoresSignal
  /\ UNCHANGED <<switching, limit, cause, lowSpace, stepping>>

StepAgain(p) ==
  /\ twains /\ ~IgnoresSignal /\ SkipsDoIt(p)
  /\ stepping' = [stepping EXCEPT ![p] = TRUE]
  /\ limit' = Armed(p)
  /\ UNCHANGED <<switching, cause, lowSpace>>

TransferToTwains(p) ==
  /\ twains /\ cause # "noCause" /\ ~IgnoresSignal /\ ~SkipsDoIt(p)
  /\ cause' = IF lowSpace THEN "lowOnSpace" ELSE cause
  /\ lowSpace' = FALSE
  /\ Transfer(p, Scheduler, FALSE, FALSE)
  /\ UNCHANGED stepping

Decide(p) ==
  /\ At(p, "decide")
  /\ ReturnToSelf(p) \/ StepAgain(p) \/ TransferToTwains(p)
  /\ empty' = [empty EXCEPT ![p] = FALSE]
  /\ GoTo(p, "self")
  /\ UNCHANGED <<twains, target, signals, scavenge, state>>

\* _Yield, which does nothing in the scheduler or in a process that is
\* stepped.
Yield(p) ==
  /\ Runs(p)
  /\ twains /\ ~stepping[p]
  /\ cause' = "yielded"
  /\ Transfer(p, Scheduler, FALSE, FALSE)
  /\ UNCHANGED <<twains, target, signals, memory, lives, pc>>

\* The stack overflow that interruptCheck finds, and nonLifoError.
Stop(p) ==
  /\ Runs(p) /\ twains
  /\ state' = [state EXCEPT ![p] = "stopped"]
  /\ cause' = "stopped"
  /\ Transfer(p, Scheduler, FALSE, FALSE)
  /\ UNCHANGED <<twains, target, signals, memory, stepping, empty, pc>>

\* The end of Process::start: p goes back to the process that aborts it, or
\* to the scheduler with the reason why it ended.
Finish(p) ==
  /\ Runs(p)
  /\ state' = [state EXCEPT ![p] = "aborting"]
  /\ blocked' = FALSE
  /\ cause' = IF twains THEN "ended" ELSE cause
  /\ Transfer(p, Scheduler, FALSE, FALSE)
  /\ GoTo(p, "gone")
  /\ UNCHANGED <<twains, target, pending, memory, stepping, empty>>

\* _BlockSignals
BlockSignals(p) ==
  /\ Runs(p) /\ ~blocked
  /\ blocked' = TRUE
  /\ UNCHANGED <<machine, switching, limit, pending, memory, lives, pc>>

UnblockSignals(p) ==
  /\ Runs(p) /\ blocked
  /\ blocked' = FALSE
  /\ limit' = IF pending > 0 THEN Armed(p) ELSE limit
  /\ UNCHANGED <<machine, switching, pending, memory, lives, pc>>
-----------------------------------------------------------------------------
(* Signals: the handler runs between two steps of whatever is running.     *)

\* preemptor: nothing is disturbed during a transfer, in the idle scheduler,
\* or in a process that has not entered Self.
Preemptor ==
  limit' = IF processSemaphore \/ (twains /\ current = Scheduler) \/ ~InSelf(current)
           THEN limit ELSE Armed(current)

HandleSelfSignal ==
  /\ pending' = IF pending < MaxPending THEN pending + 1 ELSE pending
  /\ cause' = IF ~blocked /\ cause = "noCause" THEN "signal" ELSE cause
  /\ IF twains /\ ~blocked THEN Preemptor ELSE UNCHANGED limit
  /\ pc' = IF At(Scheduler, "select") THEN [pc EXCEPT ![Scheduler] = "woken"] ELSE pc
  /\ UNCHANGED <<twains, target, switching, blocked, memory, lives>>

\* SIGIO and the like strike anywhere.
SignalArrives == HandleSelfSignal

\* A tick on which no timer that Self has set is due: it ends the wait.
TickEndsWait ==
  /\ At(Scheduler, "select")
  /\ GoTo(Scheduler, "woken")
  /\ UNCHANGED <<machine, switching, limit, signals, memory, lives>>

\* A tick of the interval timers is dropped while processSemaphore is set.
IntervalTimerTick == ~processSemaphore /\ (HandleSelfSignal \/ TickEndsWait)
-----------------------------------------------------------------------------
Init ==
  /\ cause = "noCause" /\ twains = FALSE
  /\ current = Scheduler /\ prev = Nobody /\ next = Nobody /\ target = Nobody
  /\ limit = Clear(Scheduler)
  /\ pending = 0 /\ blocked = FALSE
  /\ scavenge = FALSE /\ lowSpace = FALSE
  /\ state = [p \in Procs |-> "initialized"]
  /\ stepping = [p \in Procs |-> FALSE]
  /\ empty = [p \in Processes |-> p # Scheduler]
  /\ pc = [p \in Processes |-> IF p = Scheduler THEN "self" ELSE "new"]

SchedulerStep ==
  \/ TestPending \/ CouldntAllocateStack \/ TransferReturns
  \/ Select \/ SelectReturns \/ GetResult \/ AbortReturns
  \/ \E p \in Processes : TWAINS(p)
  \/ \E steps \in BOOLEAN : TransferToTarget(steps)
  \/ \E p \in Procs : AbortProcess(p) \/ NewProcess(p)

ProcessStep(p) ==
  \/ PrepareToCallSelf(p) \/ Yield(p) \/ Stop(p) \/ Finish(p)
  \/ BlockSignals(p) \/ UnblockSignals(p)

SelfStep(p) ==
  \/ AllocateMore(p) \/ Scavenge(p) \/ CheckForLowSpace(p)
  \/ Send(p) \/ InterruptCheck(p) \/ HandlePreemption(p) \/ Decide(p)

Next ==
  \/ SetSPAndCall
  \/ SchedulerStep
  \/ \E p \in Procs : ProcessStep(p)
  \/ \E p \in Processes : SelfStep(p)
  \/ SignalArrives \/ IntervalTimerTick

\* The virtual machine goes on with what it is doing; a process cannot run
\* for ever without sending a message, and sends one between two sections in
\* which signals are blocked; the scheduler's loop comes back to _TWAINS; the
\* clean-up of an aborted process ends; and the ticks do not always strike
\* while signals are blocked.  While a process runs it is the CPU timer, which
\* Self sets, that ticks; during select() the VM's own ticks are enough.
VMStep ==
  \/ SetSPAndCall \/ TestPending \/ \E steps \in BOOLEAN : TransferToTarget(steps)
  \/ TransferReturns \/ Select \/ SelectReturns \/ GetResult \/ AbortReturns
  \/ \E p \in Processes : HandlePreemption(p) \/ Decide(p)
  \/ \E p \in Procs : PrepareToCallSelf(p)

Fairness ==
  /\ WF_vars(VMStep)
  /\ SF_vars(\E p \in Processes : TWAINS(p))
  /\ SF_vars(~blocked /\ \E p \in Processes : InterruptCheck(p))
  /\ SF_vars(~twains /\ \E p \in Procs : Finish(p))
  /\ SF_vars(~blocked /\ IntervalTimerTick)

Spec == Init /\ [][Next]_vars
FairSpec == Spec /\ Fairness
-----------------------------------------------------------------------------
(* Properties.                                                             *)

TypeOK ==
  /\ cause \in Causes /\ twains \in BOOLEAN
  /\ current \in Processes
  /\ prev \in Processes \cup {Nobody} /\ next \in Processes \cup {Nobody}
  /\ target \in Processes \cup {Nobody}
  /\ limit \in [of : Processes, armed : BOOLEAN]
  /\ pending \in 0..MaxPending /\ blocked \in BOOLEAN
  /\ scavenge \in BOOLEAN /\ lowSpace \in BOOLEAN
  /\ state \in [Procs -> {"initialized", "ready", "stopped", "aborting", "defunct"}]
  /\ stepping \in [Procs -> BOOLEAN]
  /\ empty \in [Processes -> BOOLEAN]
  /\ pc \in [Processes -> {"self", "test", "transfer", "away", "wait", "select",
                            "woken", "result", "aborting", "new", "preempt",
                            "decide", "gone"}]

\* When _TWAINS returns there is a reason for it, so that get_result is never
\* fatal: signals are passed on only when some are pending and they are not
\* blocked, and the process it deletes is the one it was called with, which
\* has left its stack for good.
ResultIsReal ==
  pc[Scheduler] = "result" =>
    /\ cause # "noCause"
    /\ cause = "signal" => pending > 0 /\ ~blocked
    /\ cause = "ended" =>
         prev = target /\ state[target] = "aborting" /\ pc[target] = "gone"

\* A process that is single-stepped is stopped by its next send, whatever
\* signals struck while it was being resumed: the limit is that of its own
\* stack, and at its end.
SteppedStops == \A p \in Procs : stepping[p] /\ Runs(p) => limit = Armed(p)

\* A process whose stack overflowed, or that made an illegal return, is not
\* restarted where it stopped: it only runs again, made ready, to unwind its
\* stack when it is aborted.
OnlyReadyRuns ==
  ~processSemaphore /\ current # Scheduler => state[current] = "ready"

\* Unless signals are blocked for good, or when the scheduler calls _TWAINS
\* (it warns of that), a signal is passed to Self, even when it strikes
\* before the wait for one or during a transfer, where it wakes and preempts
\* nobody.
SignalsReachSelf ==
  []<>(~blocked) /\ <>[](pc[Scheduler] = "test" => ~blocked)
    => (pending > 0 ~> pending = 0)

\* A process that is preempted while signals are pending and not blocked
\* makes way for the scheduler: what unblocking the signals arms its stack
\* limit for (_BlockSignals: "make sure the switch happens soon").
SwitchesSoon ==
  [][\A p \in Procs :
       At(p, "decide") /\ pc'[p] = "self" /\ twains /\ pending > 0 /\ ~blocked
         => next' = Scheduler \/ SkipsDoIt(p)]_vars
=============================================================================
