---------------------------- MODULE TwainsProofs ----------------------------
(***************************************************************************)
(* Proofs about Twains, for any number of processes and any placement of   *)
(* their stacks: wherever signals strike, _TWAINS returns for a real       *)
(* reason, a process that is stepped stops at its next send, and a process *)
(* that was stopped does not run.                                          *)
(*                                                                         *)
(* The argument: while _TWAINS has transferred there is one other process  *)
(* in play, its target, and the control goes out to it and comes back      *)
(* once (Control).  What preemptCause may be at each of the four places of *)
(* that way is bounded (Causing), since a handler replaces no cause and    *)
(* the cause is cleared before the way begins.                             *)
(***************************************************************************)
EXTENDS Twains, TLAPS

Inside == {"test", "transfer", "away", "wait", "select", "woken", "result"}
Before == {"test", "transfer", "wait", "select", "woken"}
Away == pc[Scheduler] \in {"away", "aborting"}

Outbound == current = Scheduler /\ next = target
There == current = target /\ next = Nobody
Inbound == current = target /\ next = Scheduler /\ prev = target
Back == current = Scheduler /\ next = Nobody /\ prev = target

Control ==
  /\ twains <=> pc[Scheduler] \in Inside
  /\ ~Away => current = Scheduler /\ next = Nobody
  /\ Away => target \in Procs /\ (Outbound \/ There \/ Inbound \/ Back)
  /\ Away /\ (Outbound \/ There) => state[target] = "ready"
  /\ pc[Scheduler] = "test" => target \in Processes
  /\ pc[Scheduler] = "transfer" => target \in Procs
  /\ pc[Scheduler] \in {"test", "transfer"} /\ target \in Procs =>
       state[target] \in {"initialized", "ready"}

Real ==
  /\ cause # "noCause"
  /\ cause = "signal" => ~blocked
  /\ cause = "ended" => /\ target \in Procs /\ prev = target
                        /\ state[target] = "aborting" /\ pc[target] = "gone"

Causing ==
  /\ cause = "signal" => pending > 0
  /\ pc[Scheduler] \notin {"away", "result"} => cause \in {"noCause", "signal"}
  /\ pc[Scheduler] \in Before /\ cause = "signal" => ~blocked
  /\ pc[Scheduler] = "away" /\ (Outbound \/ There) =>
       cause \in {"noCause", "signal", "singleStepped"}
  /\ pc[Scheduler] = "away" /\ (Inbound \/ Back) => Real
  /\ pc[Scheduler] = "result" => Real

Stepping ==
  \A p \in Procs : stepping[p] =>
    /\ pc[Scheduler] = "away" /\ target = p
    /\ Outbound \/ There =>
         cause = "singleStepped" /\ (pc[p] = "self" => limit = Armed(p))

IInv == TypeOK /\ Control /\ Causing /\ Stepping

LEMMA Names ==
  /\ Scheduler \notin Procs /\ Nobody \notin Procs /\ Nobody # Scheduler
  /\ MaxPending \in Nat \ {0}
BY TwainsAssumption

LEMMA Limits ==
  \A p \in Processes : {Armed(p), Clear(p)} \subseteq [of : Processes, armed : BOOLEAN]
BY DEF Armed, Clear

\* Abbreviations, of the model and of the invariant, expanded everywhere.
USE DEF At, processSemaphore, GoTo, machine, switching, signals, memory, lives,
        Processes, Away, Outbound, There, Inbound, Back, Inside, Before

-----------------------------------------------------------------------------
(* The switch, and the scheduler's primitives.                             *)

\* The switch completes a transfer: Outbound becomes There, Inbound Back.
LEMMA SetSPAndCallKeeps ==
  ASSUME IInv, SetSPAndCall PROVE IInv'
<1>0. TypeOK /\ Control /\ Causing /\ Stepping
  BY DEF IInv
<1>1. TypeOK'
  BY <1>0, Names DEF SetSPAndCall, Armed, Clear, TypeOK, Causes
<1>2. Control'
  BY <1>0, Names DEF SetSPAndCall, Armed, Clear, TypeOK, Control
<1>3. Causing'
  BY <1>0, Names
     DEF SetSPAndCall, Armed, Clear, TypeOK, Control, Causing, Real
<1>4. Stepping'
  BY <1>0, Names
     DEF SetSPAndCall, Armed, Clear, TypeOK, Control, Causing, Stepping
<1>5. QED  BY <1>1, <1>2, <1>3, <1>4 DEF IInv

\* A fresh _TWAINS forgets the cause of the last one; a signal that struck
\* since then is only pending.
LEMMA TWAINSKeeps ==
  ASSUME IInv, NEW p \in Processes, TWAINS(p) PROVE IInv'
<1>0. TypeOK /\ Control /\ Causing /\ Stepping
  BY DEF IInv
<1>1. TypeOK'
  BY <1>0, Names DEF TWAINS, Armed, Clear, TypeOK, Causes
<1>2. Control'
  BY <1>0, Names DEF TWAINS, Armed, Clear, TypeOK, Control
<1>3. Causing'
  BY <1>0, Names DEF TWAINS, Armed, Clear, TypeOK, Control, Causing, Real
<1>4. Stepping'
  BY <1>0, Names DEF TWAINS, Armed, Clear, TypeOK, Control, Causing, Stepping
<1>5. QED  BY <1>1, <1>2, <1>3, <1>4 DEF IInv

\* Passing a signal on at once: it is pending and not blocked.
LEMMA TestPendingKeeps ==
  ASSUME IInv, TestPending PROVE IInv'
<1>0. TypeOK /\ Control /\ Causing /\ Stepping
  BY DEF IInv
<1>1. TypeOK'
  BY <1>0, Names DEF TestPending, Armed, Clear, TypeOK, Causes
<1>2. Control'
  BY <1>0, Names DEF TestPending, Armed, Clear, TypeOK, Control
<1>3. Causing'
  BY <1>0, Names DEF TestPending, Armed, Clear, TypeOK, Control, Causing, Real
<1>4. Stepping'
  BY <1>0, Names
     DEF TestPending, Armed, Clear, TypeOK, Control, Causing, Stepping
<1>5. QED  BY <1>1, <1>2, <1>3, <1>4 DEF IInv

\* The last thing done about a process that is stepped is to arm its limit.
LEMMA TransferToTargetKeeps ==
  ASSUME IInv, NEW steps \in BOOLEAN, TransferToTarget(steps) PROVE IInv'
<1>0. TypeOK /\ Control /\ Causing /\ Stepping
  BY DEF IInv
<1>1. TypeOK'
  <2>1. target \in Procs /\ Scheduler \in Processes
    BY <1>0 DEF TransferToTarget, At, Control, Processes
  <2>2. QED  BY <1>0, <2>1, Names
     DEF TransferToTarget, Transfer, Armed, Clear, TypeOK, Causes
<1>2. Control'
  BY <1>0, Names DEF TransferToTarget, Transfer, Armed, Clear, TypeOK, Control
<1>3. Causing'
  BY <1>0, Names
     DEF TransferToTarget, Transfer, Armed, Clear, TypeOK, Control, Causing,
         Real
<1>4. Stepping'
  BY <1>0, Names
     DEF TransferToTarget, Transfer, Armed, Clear, TypeOK, Control, Causing,
         Stepping
<1>5. QED  BY <1>1, <1>2, <1>3, <1>4 DEF IInv

LEMMA CouldntAllocateStackKeeps ==
  ASSUME IInv, CouldntAllocateStack PROVE IInv'
<1>0. TypeOK /\ Control /\ Causing /\ Stepping
  BY DEF IInv
<1>1. TypeOK'
  BY <1>0, Names DEF CouldntAllocateStack, Armed, Clear, TypeOK, Causes
<1>2. Control'
  BY <1>0, Names DEF CouldntAllocateStack, Armed, Clear, TypeOK, Control
<1>3. Causing'
  BY <1>0, Names
     DEF CouldntAllocateStack, Armed, Clear, TypeOK, Control, Causing, Real
<1>4. Stepping'
  BY <1>0, Names
     DEF CouldntAllocateStack, Armed, Clear, TypeOK, Control, Causing,
         Stepping
<1>5. QED  BY <1>1, <1>2, <1>3, <1>4 DEF IInv

\* The cause that brought the scheduler back is the one it returns.
LEMMA TransferReturnsKeeps ==
  ASSUME IInv, TransferReturns PROVE IInv'
<1>0. TypeOK /\ Control /\ Causing /\ Stepping
  BY DEF IInv
<1>1. TypeOK'
  <2>1. target \in Procs /\ Scheduler \in Processes
    BY <1>0 DEF TransferReturns, At, Control, Away, Processes
  <2>2. QED  BY <1>0, <2>1, Names
     DEF TransferReturns, Armed, Clear, TypeOK, Causes
<1>2. Control'
  BY <1>0, Names DEF TransferReturns, Armed, Clear, TypeOK, Control
<1>3. Causing'
  BY <1>0, Names
     DEF TransferReturns, Armed, Clear, TypeOK, Control, Causing, Real
<1>4. Stepping'
  BY <1>0, Names
     DEF TransferReturns, Armed, Clear, TypeOK, Control, Causing, Stepping
<1>5. QED  BY <1>1, <1>2, <1>3, <1>4 DEF IInv

LEMMA SelectKeeps ==
  ASSUME IInv, Select PROVE IInv'
<1>0. TypeOK /\ Control /\ Causing /\ Stepping
  BY DEF IInv
<1>1. TypeOK'
  BY <1>0, Names DEF Select, Armed, Clear, TypeOK, Causes
<1>2. Control'
  BY <1>0, Names DEF Select, Armed, Clear, TypeOK, Control
<1>3. Causing'
  BY <1>0, Names DEF Select, Armed, Clear, TypeOK, Control, Causing, Real
<1>4. Stepping'
  BY <1>0, Names DEF Select, Armed, Clear, TypeOK, Control, Causing, Stepping
<1>5. QED  BY <1>1, <1>2, <1>3, <1>4 DEF IInv

\* Woken without a cause the scheduler waits again; the cause it wakes with
\* is a signal that was not blocked.
LEMMA SelectReturnsKeeps ==
  ASSUME IInv, SelectReturns PROVE IInv'
<1>0. TypeOK /\ Control /\ Causing /\ Stepping
  BY DEF IInv
<1>1. TypeOK'
  BY <1>0, Names DEF SelectReturns, Armed, Clear, TypeOK, Causes
<1>2. Control'
  BY <1>0, Names DEF SelectReturns, Armed, Clear, TypeOK, Control
<1>3. Causing'
  BY <1>0, Names
     DEF SelectReturns, Armed, Clear, TypeOK, Control, Causing, Real
<1>4. Stepping'
  BY <1>0, Names
     DEF SelectReturns, Armed, Clear, TypeOK, Control, Causing, Stepping
<1>5. QED  BY <1>1, <1>2, <1>3, <1>4 DEF IInv

\* The process deleted for having ended is a process.
LEMMA GetResultKeeps ==
  ASSUME IInv, GetResult PROVE IInv'
<1>0. TypeOK /\ Control /\ Causing /\ Stepping
  BY DEF IInv
<1>1. TypeOK'
  <2>0. cause = "ended" => prev \in Procs
    BY <1>0 DEF GetResult, At, Causing, Real
  <2>1. /\ cause' \in Causes /\ twains' \in BOOLEAN /\ current' \in Processes
        /\ prev' \in Processes \cup {Nobody} /\ next' \in Processes \cup {Nobody}
        /\ target' \in Processes \cup {Nobody}
        /\ blocked' \in BOOLEAN /\ scavenge' \in BOOLEAN /\ lowSpace' \in BOOLEAN
    BY <1>0, <2>0, Names DEF GetResult, Armed, Clear, TypeOK, Causes
  <2>2. limit' \in [of : Processes, armed : BOOLEAN]
    BY <1>0, <2>0, Names, Limits DEF GetResult, TypeOK
  <2>3. /\ stepping' \in [Procs -> BOOLEAN] /\ empty' \in [Processes -> BOOLEAN]
        /\ state' \in [Procs -> {"initialized", "ready", "stopped", "aborting", "defunct"}]
    BY <1>0, <2>0, Names DEF GetResult, Armed, Clear, TypeOK
  <2>4. pc' \in [Processes -> {"self", "test", "transfer", "away", "wait", "select",
                               "woken", "result", "aborting", "new", "preempt",
                               "decide", "gone"}]
    BY <1>0, <2>0, Names DEF GetResult, Armed, Clear, TypeOK
  <2>5. pending' \in 0..MaxPending
    BY <1>0, <2>0, Names DEF GetResult, Armed, Clear, TypeOK
  <2>6. QED  BY <2>1, <2>2, <2>3, <2>4, <2>5 DEF TypeOK
<1>2. Control'
  BY <1>0, Names DEF GetResult, Armed, Clear, TypeOK, Control
<1>3. Causing'
  BY <1>0, Names DEF GetResult, Armed, Clear, TypeOK, Control, Causing, Real
<1>4. Stepping'
  BY <1>0, Names
     DEF GetResult, Armed, Clear, TypeOK, Control, Causing, Stepping
<1>5. QED  BY <1>1, <1>2, <1>3, <1>4 DEF IInv

\* No cause can arise on the way to a process that is aborted and back,
\* because twainsProcess is NULL: only signals are counted.
LEMMA AbortProcessKeeps ==
  ASSUME IInv, NEW p \in Procs, AbortProcess(p) PROVE IInv'
<1>0. TypeOK /\ Control /\ Causing /\ Stepping
  BY DEF IInv
<1>1. TypeOK'
  <2>1. /\ cause' \in Causes /\ twains' \in BOOLEAN /\ current' \in Processes
        /\ prev' \in Processes \cup {Nobody} /\ next' \in Processes \cup {Nobody}
        /\ target' \in Processes \cup {Nobody}
        /\ blocked' \in BOOLEAN /\ scavenge' \in BOOLEAN /\ lowSpace' \in BOOLEAN
    BY <1>0, Names DEF AbortProcess, Transfer, Armed, Clear, TypeOK, Causes
  <2>2. limit' \in [of : Processes, armed : BOOLEAN]
    BY <1>0, Names, Limits DEF AbortProcess, Transfer, TypeOK
  <2>3. /\ stepping' \in [Procs -> BOOLEAN] /\ empty' \in [Processes -> BOOLEAN]
        /\ state' \in [Procs -> {"initialized", "ready", "stopped", "aborting", "defunct"}]
    BY <1>0, Names DEF AbortProcess, Transfer, Armed, Clear, TypeOK
  <2>4. pc' \in [Processes -> {"self", "test", "transfer", "away", "wait", "select",
                               "woken", "result", "aborting", "new", "preempt",
                               "decide", "gone"}]
    BY <1>0, Names DEF AbortProcess, Transfer, Armed, Clear, TypeOK
  <2>5. pending' \in 0..MaxPending
    BY <1>0, Names DEF AbortProcess, Transfer, Armed, Clear, TypeOK
  <2>6. QED  BY <2>1, <2>2, <2>3, <2>4, <2>5 DEF TypeOK
<1>2. Control'
  BY <1>0, Names DEF AbortProcess, Transfer, Armed, Clear, TypeOK, Control
<1>3. Causing'
  BY <1>0, Names
     DEF AbortProcess, Transfer, Armed, Clear, TypeOK, Control, Causing,
         Real
<1>4. Stepping'
  BY <1>0, Names
     DEF AbortProcess, Transfer, Armed, Clear, TypeOK, Control, Causing,
         Stepping
<1>5. QED  BY <1>1, <1>2, <1>3, <1>4 DEF IInv

LEMMA AbortReturnsKeeps ==
  ASSUME IInv, AbortReturns PROVE IInv'
<1>0. TypeOK /\ Control /\ Causing /\ Stepping
  BY DEF IInv
<1>1. TypeOK'
  BY <1>0, Names DEF AbortReturns, Armed, Clear, TypeOK, Causes
<1>2. Control'
  BY <1>0, Names DEF AbortReturns, Armed, Clear, TypeOK, Control
<1>3. Causing'
  BY <1>0, Names
     DEF AbortReturns, Armed, Clear, TypeOK, Control, Causing, Real
<1>4. Stepping'
  BY <1>0, Names
     DEF AbortReturns, Armed, Clear, TypeOK, Control, Causing, Stepping
<1>5. QED  BY <1>1, <1>2, <1>3, <1>4 DEF IInv

LEMMA NewProcessKeeps ==
  ASSUME IInv, NEW p \in Procs, NewProcess(p) PROVE IInv'
<1>0. TypeOK /\ Control /\ Causing /\ Stepping
  BY DEF IInv
<1>1. TypeOK'
  BY <1>0, Names DEF NewProcess, Armed, Clear, TypeOK, Causes
<1>2. Control'
  BY <1>0, Names DEF NewProcess, Armed, Clear, TypeOK, Control
<1>3. Causing'
  BY <1>0, Names DEF NewProcess, Armed, Clear, TypeOK, Control, Causing, Real
<1>4. Stepping'
  BY <1>0, Names
     DEF NewProcess, Armed, Clear, TypeOK, Control, Causing, Stepping
<1>5. QED  BY <1>1, <1>2, <1>3, <1>4 DEF IInv

-----------------------------------------------------------------------------
(* The primitives of the process that runs.                                *)

\* The first message of a process is sent with its limit armed: if the
\* process is stepped it stops there.
LEMMA PrepareToCallSelfKeeps ==
  ASSUME IInv, NEW p \in Procs, PrepareToCallSelf(p) PROVE IInv'
<1>0. TypeOK /\ Control /\ Causing /\ Stepping
  BY DEF IInv
<1>1. TypeOK'
  BY <1>0, Names DEF PrepareToCallSelf, Armed, Clear, TypeOK, Causes
<1>2. Control'
  BY <1>0, Names DEF PrepareToCallSelf, Armed, Clear, TypeOK, Control
<1>3. Causing'
  BY <1>0, Names
     DEF PrepareToCallSelf, Armed, Clear, TypeOK, Control, Causing, Real
<1>4. Stepping'
  BY <1>0, Names
     DEF PrepareToCallSelf, Armed, Clear, TypeOK, Control, Causing, Stepping
<1>5. QED  BY <1>1, <1>2, <1>3, <1>4 DEF IInv

\* Only a process that the scheduler transferred to runs, so that the way
\* back is to the scheduler.
LEMMA YieldKeeps ==
  ASSUME IInv, NEW p \in Procs, Yield(p) PROVE IInv'
<1>0. TypeOK /\ Control /\ Causing /\ Stepping
  BY DEF IInv
<1>1. TypeOK'
  BY <1>0, Names DEF Yield, Runs, Transfer, Armed, Clear, TypeOK, Causes
<1>2. Control'
  BY <1>0, Names DEF Yield, Runs, Transfer, Armed, Clear, TypeOK, Control
<1>3. Causing'
  BY <1>0, Names
     DEF Yield, Runs, Transfer, Armed, Clear, TypeOK, Control, Causing, Real
<1>4. Stepping'
  BY <1>0, Names
     DEF Yield, Runs, Transfer, Armed, Clear, TypeOK, Control, Causing,
         Stepping
<1>5. QED  BY <1>1, <1>2, <1>3, <1>4 DEF IInv

LEMMA StopKeeps ==
  ASSUME IInv, NEW p \in Procs, Stop(p) PROVE IInv'
<1>0. TypeOK /\ Control /\ Causing /\ Stepping
  BY DEF IInv
<1>1. TypeOK'
  BY <1>0, Names DEF Stop, Runs, Transfer, Armed, Clear, TypeOK, Causes
<1>2. Control'
  BY <1>0, Names DEF Stop, Runs, Transfer, Armed, Clear, TypeOK, Control
<1>3. Causing'
  BY <1>0, Names
     DEF Stop, Runs, Transfer, Armed, Clear, TypeOK, Control, Causing, Real
<1>4. Stepping'
  BY <1>0, Names
     DEF Stop, Runs, Transfer, Armed, Clear, TypeOK, Control, Causing,
         Stepping
<1>5. QED  BY <1>1, <1>2, <1>3, <1>4 DEF IInv

\* Who ends is the target, and ends with signals unblocked.
LEMMA FinishKeeps ==
  ASSUME IInv, NEW p \in Procs, Finish(p) PROVE IInv'
<1>0. TypeOK /\ Control /\ Causing /\ Stepping
  BY DEF IInv
<1>1. TypeOK'
  BY <1>0, Names DEF Finish, Runs, Transfer, Armed, Clear, TypeOK, Causes
<1>2. Control'
  BY <1>0, Names DEF Finish, Runs, Transfer, Armed, Clear, TypeOK, Control
<1>3. Causing'
  BY <1>0, Names
     DEF Finish, Runs, Transfer, Armed, Clear, TypeOK, Control, Causing,
         Real
<1>4. Stepping'
  BY <1>0, Names
     DEF Finish, Runs, Transfer, Armed, Clear, TypeOK, Control, Causing,
         Stepping
<1>5. QED  BY <1>1, <1>2, <1>3, <1>4 DEF IInv

LEMMA BlockSignalsKeeps ==
  ASSUME IInv, NEW p \in Procs, BlockSignals(p) PROVE IInv'
<1>0. TypeOK /\ Control /\ Causing /\ Stepping
  BY DEF IInv
<1>1. TypeOK'
  BY <1>0, Names DEF BlockSignals, Runs, Armed, Clear, TypeOK, Causes
<1>2. Control'
  BY <1>0, Names DEF BlockSignals, Runs, Armed, Clear, TypeOK, Control
<1>3. Causing'
  BY <1>0, Names
     DEF BlockSignals, Runs, Armed, Clear, TypeOK, Control, Causing, Real
<1>4. Stepping'
  BY <1>0, Names
     DEF BlockSignals, Runs, Armed, Clear, TypeOK, Control, Causing,
         Stepping
<1>5. QED  BY <1>1, <1>2, <1>3, <1>4 DEF IInv

LEMMA UnblockSignalsKeeps ==
  ASSUME IInv, NEW p \in Procs, UnblockSignals(p) PROVE IInv'
<1>0. TypeOK /\ Control /\ Causing /\ Stepping
  BY DEF IInv
<1>1. TypeOK'
  BY <1>0, Names DEF UnblockSignals, Runs, Armed, Clear, TypeOK, Causes
<1>2. Control'
  BY <1>0, Names DEF UnblockSignals, Runs, Armed, Clear, TypeOK, Control
<1>3. Causing'
  BY <1>0, Names
     DEF UnblockSignals, Runs, Armed, Clear, TypeOK, Control, Causing, Real
<1>4. Stepping'
  BY <1>0, Names
     DEF UnblockSignals, Runs, Armed, Clear, TypeOK, Control, Causing,
         Stepping
<1>5. QED  BY <1>1, <1>2, <1>3, <1>4 DEF IInv

-----------------------------------------------------------------------------
(* Self code: sends, allocation and the interrupt check.                   *)

\* Arming the limit of the process that runs never undoes its stepping.
LEMMA AllocateMoreKeeps ==
  ASSUME IInv, NEW p \in Processes, AllocateMore(p) PROVE IInv'
<1>0. TypeOK /\ Control /\ Causing /\ Stepping
  BY DEF IInv
<1>1. TypeOK'
  BY <1>0, Names DEF AllocateMore, Runs, Armed, Clear, TypeOK, Causes
<1>2. Control'
  BY <1>0, Names DEF AllocateMore, Runs, Armed, Clear, TypeOK, Control
<1>3. Causing'
  BY <1>0, Names
     DEF AllocateMore, Runs, Armed, Clear, TypeOK, Control, Causing, Real
<1>4. Stepping'
  BY <1>0, Names
     DEF AllocateMore, Runs, Armed, Clear, TypeOK, Control, Causing,
         Stepping
<1>5. QED  BY <1>1, <1>2, <1>3, <1>4 DEF IInv

LEMMA ScavengeKeeps ==
  ASSUME IInv, NEW p \in Processes, Scavenge(p) PROVE IInv'
<1>0. TypeOK /\ Control /\ Causing /\ Stepping
  BY DEF IInv
<1>1. TypeOK'
  <2>1. /\ cause' \in Causes /\ twains' \in BOOLEAN /\ current' \in Processes
        /\ prev' \in Processes \cup {Nobody} /\ next' \in Processes \cup {Nobody}
        /\ target' \in Processes \cup {Nobody}
        /\ blocked' \in BOOLEAN /\ scavenge' \in BOOLEAN /\ lowSpace' \in BOOLEAN
    BY <1>0, Names DEF Scavenge, Runs, Armed, Clear, TypeOK, Causes
  <2>2. limit' \in [of : Processes, armed : BOOLEAN]
    BY <1>0, Names, Limits DEF Scavenge, Runs, TypeOK
  <2>3. /\ stepping' \in [Procs -> BOOLEAN] /\ empty' \in [Processes -> BOOLEAN]
        /\ state' \in [Procs -> {"initialized", "ready", "stopped", "aborting", "defunct"}]
    BY <1>0, Names DEF Scavenge, Runs, Armed, Clear, TypeOK
  <2>4. pc' \in [Processes -> {"self", "test", "transfer", "away", "wait", "select",
                               "woken", "result", "aborting", "new", "preempt",
                               "decide", "gone"}]
    BY <1>0, Names DEF Scavenge, Runs, Armed, Clear, TypeOK
  <2>5. pending' \in 0..MaxPending
    BY <1>0, Names DEF Scavenge, Runs, Armed, Clear, TypeOK
  <2>6. QED  BY <2>1, <2>2, <2>3, <2>4, <2>5 DEF TypeOK
<1>2. Control'
  BY <1>0, Names DEF Scavenge, Runs, Armed, Clear, TypeOK, Control
<1>3. Causing'
  BY <1>0, Names
     DEF Scavenge, Runs, Armed, Clear, TypeOK, Control, Causing, Real
<1>4. Stepping'
  BY <1>0, Names
     DEF Scavenge, Runs, Armed, Clear, TypeOK, Control, Causing, Stepping
<1>5. QED  BY <1>1, <1>2, <1>3, <1>4 DEF IInv

LEMMA CheckForLowSpaceKeeps ==
  ASSUME IInv, NEW p \in Processes, CheckForLowSpace(p) PROVE IInv'
<1>0. TypeOK /\ Control /\ Causing /\ Stepping
  BY DEF IInv
<1>1. TypeOK'
  BY <1>0, Names DEF CheckForLowSpace, Runs, Armed, Clear, TypeOK, Causes
<1>2. Control'
  BY <1>0, Names DEF CheckForLowSpace, Runs, Armed, Clear, TypeOK, Control
<1>3. Causing'
  BY <1>0, Names
     DEF CheckForLowSpace, Runs, Armed, Clear, TypeOK, Control, Causing,
         Real
<1>4. Stepping'
  BY <1>0, Names
     DEF CheckForLowSpace, Runs, Armed, Clear, TypeOK, Control, Causing,
         Stepping
<1>5. QED  BY <1>1, <1>2, <1>3, <1>4 DEF IInv

\* A process that is stepped does not send: its limit trips.
LEMMA SendKeeps ==
  ASSUME IInv, NEW p \in Processes, Send(p) PROVE IInv'
<1>0. TypeOK /\ Control /\ Causing /\ Stepping
  BY DEF IInv
<1>1. TypeOK'
  BY <1>0, Names DEF Send, Runs, Trips, Armed, Clear, TypeOK, Causes
<1>2. Control'
  BY <1>0, Names DEF Send, Runs, Trips, Armed, Clear, TypeOK, Control
<1>3. Causing'
  BY <1>0, Names
     DEF Send, Runs, Trips, Armed, Clear, TypeOK, Control, Causing, Real
<1>4. Stepping'
  BY <1>0, Names
     DEF Send, Runs, Trips, Armed, Clear, TypeOK, Control, Causing, Stepping
<1>5. QED  BY <1>1, <1>2, <1>3, <1>4 DEF IInv

LEMMA InterruptCheckKeeps ==
  ASSUME IInv, NEW p \in Processes, InterruptCheck(p) PROVE IInv'
<1>0. TypeOK /\ Control /\ Causing /\ Stepping
  BY DEF IInv
<1>1. TypeOK'
  BY <1>0, Names DEF InterruptCheck, Runs, Armed, Clear, TypeOK, Causes
<1>2. Control'
  BY <1>0, Names DEF InterruptCheck, Runs, Armed, Clear, TypeOK, Control
<1>3. Causing'
  BY <1>0, Names
     DEF InterruptCheck, Runs, Armed, Clear, TypeOK, Control, Causing, Real
<1>4. Stepping'
  BY <1>0, Names
     DEF InterruptCheck, Runs, Armed, Clear, TypeOK, Control, Causing,
         Stepping
<1>5. QED  BY <1>1, <1>2, <1>3, <1>4 DEF IInv

\* This clears the limit of a process that is stepped, but it has left the
\* place where it would send: Decide stops it or arms the limit again.
LEMMA HandlePreemptionKeeps ==
  ASSUME IInv, NEW p \in Processes, HandlePreemption(p) PROVE IInv'
<1>0. TypeOK /\ Control /\ Causing /\ Stepping
  BY DEF IInv
<1>1. TypeOK'
  BY <1>0, Names DEF HandlePreemption, Armed, Clear, TypeOK, Causes
<1>2. Control'
  BY <1>0, Names DEF HandlePreemption, Armed, Clear, TypeOK, Control
<1>3. Causing'
  BY <1>0, Names
     DEF HandlePreemption, Armed, Clear, TypeOK, Control, Causing, Real
<1>4. Stepping'
  BY <1>0, Names
     DEF HandlePreemption, Armed, Clear, TypeOK, Control, Causing, Stepping
<1>5. QED  BY <1>1, <1>2, <1>3, <1>4 DEF IInv

\* A stepped process that goes on is skipping its doIt, and is armed; any
\* other returns to Self only for want of a cause.
LEMMA DecideKeeps ==
  ASSUME IInv, NEW p \in Processes, Decide(p) PROVE IInv'
<1>0. TypeOK /\ Control /\ Causing /\ Stepping
  BY DEF IInv
<1>1. TypeOK'
  <2>1. /\ cause' \in Causes /\ twains' \in BOOLEAN /\ current' \in Processes
        /\ prev' \in Processes \cup {Nobody} /\ next' \in Processes \cup {Nobody}
        /\ target' \in Processes \cup {Nobody}
        /\ blocked' \in BOOLEAN /\ scavenge' \in BOOLEAN /\ lowSpace' \in BOOLEAN
    BY <1>0, Names
       DEF Decide, ReturnToSelf, StepAgain, TransferToTwains, Transfer,
           IgnoresSignal, SkipsDoIt, Armed, Clear, TypeOK, Causes
  <2>2. limit' \in [of : Processes, armed : BOOLEAN]
    BY <1>0, Names, Limits
       DEF Decide, ReturnToSelf, StepAgain, TransferToTwains, Transfer,
           IgnoresSignal, SkipsDoIt, TypeOK
  <2>3. /\ stepping' \in [Procs -> BOOLEAN] /\ empty' \in [Processes -> BOOLEAN]
        /\ state' \in [Procs -> {"initialized", "ready", "stopped", "aborting", "defunct"}]
    BY <1>0, Names
       DEF Decide, ReturnToSelf, StepAgain, TransferToTwains, Transfer,
           IgnoresSignal, SkipsDoIt, Armed, Clear, TypeOK
  <2>4. pc' \in [Processes -> {"self", "test", "transfer", "away", "wait", "select",
                               "woken", "result", "aborting", "new", "preempt",
                               "decide", "gone"}]
    BY <1>0, Names
       DEF Decide, ReturnToSelf, StepAgain, TransferToTwains, Transfer,
           IgnoresSignal, SkipsDoIt, Armed, Clear, TypeOK
  <2>5. pending' \in 0..MaxPending
    BY <1>0, Names
       DEF Decide, ReturnToSelf, StepAgain, TransferToTwains, Transfer,
           IgnoresSignal, SkipsDoIt, Armed, Clear, TypeOK
  <2>6. QED  BY <2>1, <2>2, <2>3, <2>4, <2>5 DEF TypeOK
<1>2. Control'
  BY <1>0, Names
     DEF Decide, ReturnToSelf, StepAgain, TransferToTwains, Transfer,
         IgnoresSignal, SkipsDoIt, Armed, Clear, TypeOK, Control
<1>3. Causing'
  BY <1>0, Names
     DEF Decide, ReturnToSelf, StepAgain, TransferToTwains, Transfer,
         IgnoresSignal, SkipsDoIt, Armed, Clear, TypeOK, Control, Causing,
         Real
<1>4. Stepping'
  BY <1>0, Names
     DEF Decide, ReturnToSelf, StepAgain, TransferToTwains, Transfer,
         IgnoresSignal, SkipsDoIt, Armed, Clear, TypeOK, Control, Causing,
         Stepping
<1>5. QED  BY <1>1, <1>2, <1>3, <1>4 DEF IInv

-----------------------------------------------------------------------------
(* The signal handler, between any two steps.                              *)

\* It may turn "no cause" into a signal but never replaces another cause; it
\* arms no limit but that of the process that runs, and none of a process
\* about to run.
LEMMA HandleSelfSignalKeeps ==
  ASSUME IInv, HandleSelfSignal PROVE IInv'
<1>0. TypeOK /\ Control /\ Causing /\ Stepping
  BY DEF IInv
<1>1. TypeOK'
  <2>1. /\ cause' \in Causes /\ twains' \in BOOLEAN /\ current' \in Processes
        /\ prev' \in Processes \cup {Nobody} /\ next' \in Processes \cup {Nobody}
        /\ target' \in Processes \cup {Nobody}
        /\ blocked' \in BOOLEAN /\ scavenge' \in BOOLEAN /\ lowSpace' \in BOOLEAN
    BY <1>0, Names
       DEF HandleSelfSignal, Preemptor, InSelf, Armed, Clear, TypeOK, Causes
  <2>2. limit' \in [of : Processes, armed : BOOLEAN]
    BY <1>0, Names, Limits DEF HandleSelfSignal, Preemptor, InSelf, TypeOK
  <2>3. /\ stepping' \in [Procs -> BOOLEAN] /\ empty' \in [Processes -> BOOLEAN]
        /\ state' \in [Procs -> {"initialized", "ready", "stopped", "aborting", "defunct"}]
    BY <1>0, Names
       DEF HandleSelfSignal, Preemptor, InSelf, Armed, Clear, TypeOK
  <2>4. pc' \in [Processes -> {"self", "test", "transfer", "away", "wait", "select",
                               "woken", "result", "aborting", "new", "preempt",
                               "decide", "gone"}]
    BY <1>0, Names
       DEF HandleSelfSignal, Preemptor, InSelf, Armed, Clear, TypeOK
  <2>5. pending' \in 0..MaxPending
    BY <1>0, Names
       DEF HandleSelfSignal, Preemptor, InSelf, Armed, Clear, TypeOK
  <2>6. QED  BY <2>1, <2>2, <2>3, <2>4, <2>5 DEF TypeOK
<1>2. Control'
  BY <1>0, Names
     DEF HandleSelfSignal, Preemptor, InSelf, Armed, Clear, TypeOK, Control
<1>3. Causing'
  BY <1>0, Names
     DEF HandleSelfSignal, Preemptor, InSelf, Armed, Clear, TypeOK, Control,
         Causing, Real
<1>4. Stepping'
  BY <1>0, Names
     DEF HandleSelfSignal, Preemptor, InSelf, Armed, Clear, TypeOK, Control,
         Causing, Stepping
<1>5. QED  BY <1>1, <1>2, <1>3, <1>4 DEF IInv

\* Woken by the tick the scheduler has still no cause, or the signal it had.
LEMMA TickEndsWaitKeeps ==
  ASSUME IInv, TickEndsWait PROVE IInv'
<1>0. TypeOK /\ Control /\ Causing /\ Stepping
  BY DEF IInv
<1>1. TypeOK'
  BY <1>0, Names DEF TickEndsWait, Armed, Clear, TypeOK, Causes
<1>2. Control'
  BY <1>0, Names DEF TickEndsWait, Armed, Clear, TypeOK, Control
<1>3. Causing'
  BY <1>0, Names DEF TickEndsWait, Armed, Clear, TypeOK, Control, Causing, Real
<1>4. Stepping'
  BY <1>0, Names DEF TickEndsWait, Armed, Clear, TypeOK, Control, Causing, Stepping
<1>5. QED  BY <1>1, <1>2, <1>3, <1>4 DEF IInv

-----------------------------------------------------------------------------
(* The theorems.                                                           *)

LEMMA InitHolds == Init => IInv
<1> SUFFICES ASSUME Init PROVE IInv
  OBVIOUS
<1>1. TypeOK
  <2>1. limit \in [of : Processes, armed : BOOLEAN]
    BY Limits DEF Init
  <2>2. pending \in 0..MaxPending
    BY Names DEF Init
  <2>3. /\ empty \in [Processes -> BOOLEAN]
        /\ pc \in [Processes -> {"self", "test", "transfer", "away", "wait", "select",
                               "woken", "result", "aborting", "new", "preempt",
                               "decide", "gone"}]
    BY DEF Init
  <2>4. QED  BY <2>1, <2>2, <2>3 DEF Init, TypeOK, Causes
<1>2. Control /\ Causing /\ Stepping
  BY Names DEF Init, Control, Causing, Stepping
<1>3. QED  BY <1>1, <1>2 DEF IInv

LEMMA StepHolds == IInv /\ [Next]_vars => IInv'
<1> SUFFICES ASSUME IInv, [Next]_vars PROVE IInv'
  OBVIOUS
<1>1. CASE SetSPAndCall
  BY <1>1, SetSPAndCallKeeps
<1>2. CASE SchedulerStep
  BY <1>2, TWAINSKeeps, TestPendingKeeps, TransferToTargetKeeps,
     CouldntAllocateStackKeeps, TransferReturnsKeeps, SelectKeeps,
     SelectReturnsKeeps, GetResultKeeps, AbortProcessKeeps,
     AbortReturnsKeeps, NewProcessKeeps DEF SchedulerStep
<1>3. CASE \E p \in Procs : ProcessStep(p)
  BY <1>3, PrepareToCallSelfKeeps, YieldKeeps, StopKeeps, FinishKeeps,
     BlockSignalsKeeps, UnblockSignalsKeeps DEF ProcessStep
<1>4. CASE \E p \in Processes : SelfStep(p)
  BY <1>4, AllocateMoreKeeps, ScavengeKeeps, CheckForLowSpaceKeeps, SendKeeps,
     InterruptCheckKeeps, HandlePreemptionKeeps, DecideKeeps DEF SelfStep
<1>5. CASE SignalArrives \/ IntervalTimerTick
  BY <1>5, HandleSelfSignalKeeps, TickEndsWaitKeeps DEF SignalArrives, IntervalTimerTick
<1>6. CASE UNCHANGED vars
  <2>1. TypeOK'
    BY <1>6 DEF IInv, TypeOK, vars
  <2>2. Control' /\ Causing' /\ Stepping'
    BY <1>6 DEF IInv, Control, Causing, Real, Stepping, Armed, vars
  <2>3. QED  BY <2>1, <2>2 DEF IInv
<1>7. QED  BY <1>1, <1>2, <1>3, <1>4, <1>5, <1>6 DEF Next

LEMMA InvariantHolds == Spec => []IInv
BY InitHolds, StepHolds, PTL DEF Spec

\* Every variable keeps its type.
THEOREM TypeCorrect == Spec => []TypeOK
<1>1. IInv => TypeOK
  BY DEF IInv
<1>2. QED  BY <1>1, InvariantHolds, PTL

\* get_result is never fatal: whenever _TWAINS is about to return there is a
\* cause; a signal is pending and not blocked; and the process it deletes is
\* its target, which has ended.
THEOREM ResultCorrect == Spec => []ResultIsReal
<1>1. IInv => ResultIsReal
  BY DEF IInv, Causing, Real, ResultIsReal
<1>2. QED  BY <1>1, InvariantHolds, PTL

\* A process that is single-stepped stops at its next send, wherever signals
\* strike and whatever the stack limit was before.
THEOREM SteppedStopsCorrect == Spec => []SteppedStops
<1>1. IInv => SteppedStops
  <2> SUFFICES ASSUME IInv, NEW p \in Procs, stepping[p], Runs(p)
               PROVE  limit = Armed(p)
    BY DEF SteppedStops
  <2>1. pc[Scheduler] = "away" /\ target = p /\ There
    BY Names DEF IInv, Stepping, Runs
  <2>2. QED  BY <2>1 DEF IInv, Stepping, Runs
<1>2. QED  BY <1>1, InvariantHolds, PTL

\* The process that runs, other than the scheduler, is ready: one that was
\* stopped by an error never goes on where it stopped.
THEOREM OnlyReadyRunsCorrect == Spec => []OnlyReadyRuns
<1>1. IInv => OnlyReadyRuns
  BY Names DEF IInv, Control, OnlyReadyRuns
<1>2. QED  BY <1>1, InvariantHolds, PTL
=============================================================================
