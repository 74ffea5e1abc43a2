--------------------------- MODULE SchedulerProofs ---------------------------
(***************************************************************************)
(* Proofs about Scheduler and Cleanup: their invariants hold for any       *)
(* number of processes, locks and events.                                  *)
(***************************************************************************)
EXTENDS Cleanup, Lemmas

Places == Queues \cup {"noQueue"}

\* What moveToQueue:NewStatus: is called with.
DestOK(dest) ==
  /\ DOMAIN dest \subseteq Procs
  /\ \A p \in DOMAIN dest : dest[p] \in Places

\* The status of a place is a status.
LEMMA StatusInType ==
  ASSUME NEW q \in Places
  PROVE  /\ StatusIn[q] \in Statuses \ {"newborn", "running"}
         /\ q = "readyQ"     <=> StatusIn[q] = "ready"
         /\ q = "waitingQ"   <=> StatusIn[q] = "waiting"
         /\ q = "suspendedQ" <=> StatusIn[q] = "suspended"
         /\ q = "noQueue"    <=> StatusIn[q] = "dead"
BY DEF Places, Queues, StatusIn, Statuses

\* Demotion touches running processes only.
LEMMA DemotedType ==
  ASSUME TypeOK, NEW p \in Procs
  PROVE  /\ Demoted(p) \in Statuses \ {"running"}
         /\ Demoted(p) = "ready" <=> status[p] \in {"ready", "running"}
         /\ status[p] # "running" => Demoted(p) = status[p]
BY DEF Demoted, TypeOK, Statuses

\* p moves alone.
LEMMA ToOK ==
  ASSUME NEW p \in Procs, NEW q \in Places
  PROVE  DestOK(To(p, q)) /\ DOMAIN To(p, q) = {p} /\ To(p, q)[p] = q
BY DEF DestOK, To

LEMMA MoveToQueueType ==
  ASSUME TypeOK, NEW dest, DestOK(dest), NEW timed \in SUBSET Procs,
         MoveToQueue(dest, timed)
  PROVE  /\ status'  \in [Procs -> Statuses]
         /\ onQueue' \in [Procs -> Places]
         /\ queue'   \in [Queues -> SUBSET Procs]
         /\ timerWaiters' \subseteq Procs
<1>1. status' \in [Procs -> Statuses]
  BY StatusInType, DemotedType DEF MoveToQueue, DestOK
<1>2. onQueue' \in [Procs -> Places]
  BY DEF MoveToQueue, DestOK, TypeOK, Places
<1>3. queue' \in [Queues -> SUBSET Procs]
  BY DEF MoveToQueue, DestOK, TypeOK
<1>4. timerWaiters' \subseteq Procs
  BY DEF MoveToQueue, TypeOK
<1>5. QED  BY <1>1, <1>2, <1>3, <1>4

LEMMA DemoteOnlyType ==
  ASSUME TypeOK, DemoteOnly
  PROVE  /\ status'  \in [Procs -> Statuses]
         /\ onQueue' \in [Procs -> Places]
         /\ queue'   \in [Queues -> SUBSET Procs]
         /\ timerWaiters' \subseteq Procs
BY DemotedType DEF DemoteOnly, TypeOK, Places

-----------------------------------------------------------------------------
(* Type correctness. *)

SchedType ==
  /\ status  \in [Procs -> Statuses]
  /\ onQueue \in [Procs -> Places]
  /\ queue   \in [Queues -> SUBSET Procs]
  /\ timerWaiters \subseteq Procs

SemaType ==
  /\ onSemaphore   \in [Procs -> AllSemas \cup {nullSemaphore}]
  /\ count         \in [AllSemas -> Nat]
  /\ waiters       \in [AllSemas -> Seq(Procs)]
  /\ holderProcess \in [Semas -> Procs \cup {nil}]
  /\ granted \in [Semas -> SUBSET Procs]

RestType ==
  /\ sleepTime \in [Procs -> Int]
  /\ blocking  \in [Barriers -> BOOLEAN]
  /\ alive     \in [Procs -> BOOLEAN]
  /\ pc        \in [Procs -> PCs]
  /\ target    \in [Procs -> AllSemas \cup {nullSemaphore}]

LEMMA TypeParts == TypeOK <=> SchedType /\ SemaType /\ RestType
BY DEF TypeOK, SchedType, SemaType, RestType, Places

LEMMA SemasType ==
  /\ \A s \in Semas : s \in AllSemas
  /\ \A s \in Locks : s \in Semas
  /\ \A s \in Events : s \in Semas
  /\ \A s \in Barriers : s \in AllSemas /\ s \notin Semas
  /\ \A s \in AllSemas : s \in Semas \/ s \in Barriers
  /\ \A s \in Recursive : s \in Locks
  /\ \A s \in Events : s \notin Locks
  /\ nullSemaphore \notin AllSemas
  /\ nil \notin Procs
BY SemaphoreAssumption DEF AllSemas, Semas

LEMMA BarriersType ==
  ASSUME NEW p \in Procs
  PROVE  SuspensionWaiters(p) \in Barriers /\ DeathWaiters(p) \in Barriers
BY DEF SuspensionWaiters, DeathWaiters, Barriers

LEMMA CapacityType ==
  ASSUME NEW s \in Semas
  PROVE  Capacity(s) \in Nat \ {0} /\ (s \in Locks => Capacity(s) = 1)
BY SemaphoreAssumption, SemasType DEF Capacity, Semas

LEMMA MoveToQueueSched ==
  ASSUME TypeOK, NEW dest, DestOK(dest), NEW timed \in SUBSET Procs,
         MoveToQueue(dest, timed)
  PROVE  SchedType'
BY MoveToQueueType DEF SchedType

LEMMA ToReadyQSched ==
  ASSUME TypeOK, NEW q \in Procs, MoveToQueue(To(q, "readyQ"), {})
  PROVE  SchedType'
<1>1. DestOK(To(q, "readyQ"))
  BY ToOK DEF Places, Queues
<1>2. QED  BY <1>1, MoveToQueueSched

LEMMA MoveToWaitingQType ==
  ASSUME TypeOK, NEW p \in Procs, NEW ms \in Int, MoveToWaitingQ(p, ms)
  PROVE  SchedType' /\ sleepTime' \in [Procs -> Int]
<1>1. CASE 0 >= ms /\ ms # timeoutInfinity
  BY <1>1, DemoteOnlyType DEF MoveToWaitingQ, Immediate, SchedType, TypeOK
<1>2. CASE ~(0 >= ms /\ ms # timeoutInfinity)
  <2>1. DestOK(To(p, "waitingQ"))
    BY ToOK DEF Places, Queues
  <2>2. PICK timed \in SUBSET Procs : MoveToQueue(To(p, "waitingQ"), timed)
    BY <1>2 DEF MoveToWaitingQ, Immediate
  <2>3. sleepTime' \in [Procs -> Int]
    BY <1>2 DEF MoveToWaitingQ, Immediate, TypeOK
  <2>4. QED  BY <2>1, <2>2, <2>3, MoveToQueueSched
<1>3. QED  BY <1>1, <1>2

LEMMA FastSignalType ==
  ASSUME TypeOK, NEW p, NEW s \in Semas, NEW b, FastSignal(p, s, b)
  PROVE  /\ count' \in [AllSemas -> Nat]
         /\ holderProcess' \in [Semas -> Procs \cup {nil}]
         /\ granted' \in [Semas -> SUBSET Procs]
<1>1. count' \in [AllSemas -> Nat]
  BY SemasType DEF FastSignal, TypeOK
<1>2. holderProcess' \in [Semas -> Procs \cup {nil}]
  BY DEF FastSignal, TypeOK
<1>3. granted' \in [Semas -> SUBSET Procs]
  BY DEF FastSignal, TypeOK
<1>4. QED  BY <1>1, <1>2, <1>3

LEMMA SemaphoreSignalType ==
  ASSUME TypeOK, NEW p, NEW s \in Semas, SemaphoreSignal(p, s)
  PROVE  SchedType' /\ SemaType'
<1>1. CASE waiters[s] = <<>>
  <2>1. SchedType'
    BY <1>1, DemoteOnlyType DEF SemaphoreSignal, SchedType
  <2>2. SemaType'
    BY <1>1, FastSignalType DEF SemaphoreSignal, SemaType, TypeOK
  <2>3. QED  BY <2>1, <2>2
<1>2. CASE waiters[s] # <<>>
  <2>1. TransferSemaphore(p, s)
    BY <1>2 DEF SemaphoreSignal
  <2>2. Head(waiters[s]) \in Procs /\ Tail(waiters[s]) \in Seq(Procs)
    BY <1>2, TailElems, SemasType DEF TypeOK
  <2>3. SchedType'
    BY <2>1, <2>2, ToReadyQSched DEF TransferSemaphore
  <2>4. SemaType'
    BY <2>1, <2>2, SemasType DEF TransferSemaphore, SemaType, TypeOK
  <2>5. QED  BY <2>3, <2>4
<1>3. QED  BY <1>1, <1>2

LEMMA SuspendOnSemaphoreType ==
  ASSUME TypeOK, NEW p \in Procs, NEW s \in AllSemas, SuspendOnSemaphore(p, s)
  PROVE  SchedType' /\ SemaType' /\ sleepTime' \in [Procs -> Int]
<1>1. SchedType' /\ sleepTime' \in [Procs -> Int]
  BY MoveToWaitingQType DEF SuspendOnSemaphore, JoinQueue, TypeOK
<1>2. Append(waiters[s], p) \in Seq(Procs)
  BY DEF TypeOK
<1>3. SemaType'
  BY <1>2 DEF SuspendOnSemaphore, JoinQueue, SemaType, TypeOK
<1>4. QED  BY <1>1, <1>3

LEMMA SuspendAgainType ==
  ASSUME TypeOK, NEW p \in Procs, NEW s \in AllSemas, SuspendAgain(p, s)
  PROVE  SchedType' /\ SemaType' /\ sleepTime' \in [Procs -> Int]
<1>1. CASE Immediate(sleepTime[p])
  <2>1. SchedType' /\ sleepTime' \in [Procs -> Int]
    BY <1>1, ToReadyQSched DEF SuspendAgain, TypeOK
  <2>2. Append(waiters[s], p) \in Seq(Procs)
    BY DEF TypeOK
  <2>3. SemaType'
    BY <1>1, <2>2 DEF SuspendAgain, JoinQueue, SemaType, TypeOK
  <2>4. QED  BY <2>1, <2>3
<1>2. CASE SuspendOnSemaphore(p, s)
  BY <1>2, SuspendOnSemaphoreType
<1>3. QED  BY <1>1, <1>2 DEF SuspendAgain

LEMMA ReleaseAndMoveType ==
  ASSUME TypeOK, NEW p \in Procs, NEW bs \in SUBSET Barriers,
         NEW dest \in Places, ReleaseAndMove(p, bs, dest)
  PROVE  /\ SchedType'
         /\ waiters' \in [AllSemas -> Seq(Procs)]
         /\ blocking' \in [Barriers -> BOOLEAN]
         /\ onSemaphore' \in [Procs -> AllSemas \cup {nullSemaphore}]
<1> DEFINE left(s) == IF s = onSemaphore[p] THEN Without(waiters[s], p) ELSE waiters[s]
           released == UNION {Elems(left(b)) : b \in bs}
           d == [r \in released \cup {p} |-> IF r = p THEN dest ELSE "readyQ"]
<1>1. \A s \in AllSemas : left(s) \in Seq(Procs)
  BY WithoutElems DEF TypeOK
<1>2. released \subseteq Procs
  BY <1>1, SemasType DEF Elems
<1>3. DestOK(d)
  BY <1>2 DEF DestOK, Places, Queues
<1>4. MoveToQueue(d, {})
  BY DEF ReleaseAndMove
<1>5. SchedType'
  BY <1>3, <1>4, MoveToQueueSched
<1>6. waiters' \in [AllSemas -> Seq(Procs)]
  BY <1>1 DEF ReleaseAndMove
<1>7. blocking' \in [Barriers -> BOOLEAN]
  BY DEF ReleaseAndMove, TypeOK
<1>8. onSemaphore' \in [Procs -> AllSemas \cup {nullSemaphore}]
  BY DEF ReleaseAndMove, TypeOK
<1>9. QED  BY <1>5, <1>6, <1>7, <1>8

LEMMA AcquireType ==
  ASSUME TypeOK, NEW p \in Procs, NEW s \in AllSemas, count[s] > 0, Acquire(p, s)
  PROVE  /\ count' \in [AllSemas -> Nat]
         /\ holderProcess' \in [Semas -> Procs \cup {nil}]
         /\ granted' \in [Semas -> SUBSET Procs]
<1>1. count[s] \in Nat /\ count[s] - 1 \in Nat
  BY DEF TypeOK
<1>2. count' \in [AllSemas -> Nat]
  BY <1>1 DEF Acquire, TypeOK
<1>3. holderProcess' \in [Semas -> Procs \cup {nil}]
  BY DEF Acquire, TypeOK
<1>4. granted' \in [Semas -> SUBSET Procs]
  BY DEF Acquire, TypeOK
<1>5. QED  BY <1>2, <1>3, <1>4

LEMMA GotoType ==
  ASSUME TypeOK, NEW p \in Procs, NEW c \in PCs,
         NEW s \in AllSemas \cup {nullSemaphore}, Goto(p, c, s)
  PROVE  pc' \in [Procs -> PCs] /\ target' \in [Procs -> AllSemas \cup {nullSemaphore}]
BY DEF Goto, TypeOK

\* An operation that is under way is on a semaphore of the right kind.
TargetsOK ==
  \A p \in Procs :
    /\ pc[p] = "waitYield"   => target[p] \in AllSemas
    /\ pc[p] = "critical"    => target[p] \in Locks
    /\ pc[p] = "signalYield" => target[p] \in Semas
    /\ pc[p] = "bypass"      => target[p] \in Recursive

LEMMA GotoTargets ==
  ASSUME TypeOK, TargetsOK, NEW p \in Procs, NEW c, NEW s, Goto(p, c, s),
         /\ c = "waitYield"   => s \in AllSemas
         /\ c = "critical"    => s \in Locks
         /\ c = "signalYield" => s \in Semas
         /\ c = "bypass"      => s \in Recursive
  PROVE  TargetsOK'
BY DEF Goto, TargetsOK, TypeOK

LEMMA TargetsStep ==
  ASSUME TypeOK, TargetsOK, [Next]_vars
  PROVE  TargetsOK'
<1> USE DEF userVars
<1>0. CASE UNCHANGED userVars
  BY <1>0 DEF TargetsOK
<1>1. ASSUME NEW p \in Procs, NEW s \in AllSemas, NEW ms, WaitTimeOut(p, s, ms)
      PROVE  TargetsOK'
  BY <1>1, GotoTargets DEF WaitTimeOut
<1>2. ASSUME NEW p \in Procs, SemaphoreWait(p) PROVE TargetsOK'
  BY <1>2, GotoTargets DEF SemaphoreWait
<1>3. ASSUME NEW p \in Procs, WaitReturn(p) PROVE TargetsOK'
  BY <1>3, GotoTargets DEF WaitReturn
<1>4. ASSUME NEW p \in Procs, NEW s \in Semas, UncheckedSignal(p, s) PROVE TargetsOK'
  BY <1>4, GotoTargets DEF UncheckedSignal
<1>5. ASSUME NEW p \in Procs, YieldSignal(p) PROVE TargetsOK'
  BY <1>5, GotoTargets DEF YieldSignal
<1>6. ASSUME NEW p \in Procs, NEW s \in Semas, Bypass(p, s) PROVE TargetsOK'
  BY <1>6, GotoTargets DEF Bypass
<1>8. ASSUME NEW p \in Procs, NEW ms, Sleep(p, ms) PROVE TargetsOK'
  BY <1>8, GotoTargets DEF Sleep
<1>9. CASE \/ \E p \in Procs : \/ Schedule(p) \/ Preempt(p) \/ NoProcessError(p)
                               \/ SigRealTimer(p) \/ Terminate(p)
           \/ \E p, q \in Procs : Suspend(p, q) \/ Resume(p, q) \/ Abort(p, q)
           \/ \E s \in Events : SigIO(s)
  BY <1>0, <1>9 DEF Schedule, Preempt, NoProcessError, SigRealTimer, Terminate,
                    Suspend, Resume, Abort, SigIO
<1>10. \A q \in Watched : SuspensionWaiters(q) \in AllSemas /\ DeathWaiters(q) \in AllSemas
  BY BarriersType, SemasType, SemaphoreAssumption
<1>11. QED
  BY <1>0, <1>1, <1>2, <1>3, <1>4, <1>5, <1>6, <1>8, <1>9, <1>10, SemasType
     DEF Next, vars

LEMMA WaitTimeOutType ==
  ASSUME TypeOK, NEW p \in Procs, NEW s \in AllSemas, NEW ms \in Int, WaitTimeOut(p, s, ms)
  PROVE  SchedType' /\ SemaType' /\ RestType'
<1>a. SchedType /\ SemaType /\ RestType
  BY TypeParts
<1>1. SchedType'
  BY <1>a DEF WaitTimeOut, schedVars, SchedType
<1>2. RestType'
  BY <1>a, GotoType DEF WaitTimeOut, RestType, PCs
<1>3. SemaType'
  BY <1>a, AcquireType DEF WaitTimeOut, SemaType
<1>4. QED  BY <1>1, <1>2, <1>3

LEMMA SemaphoreWaitType ==
  ASSUME TypeOK, TargetsOK, NEW p \in Procs, SemaphoreWait(p)
  PROVE  SchedType' /\ SemaType' /\ RestType'
<1> DEFINE s == target[p]
<1>a. SchedType /\ SemaType /\ RestType
  BY TypeParts
<1>1. s \in AllSemas
  BY DEF SemaphoreWait, TargetsOK
<1>2. pc' \in [Procs -> PCs] /\ target' \in [Procs -> AllSemas \cup {nullSemaphore}]
  BY <1>1, GotoType DEF SemaphoreWait, PCs
<1>3. alive' \in [Procs -> BOOLEAN] /\ blocking' \in [Barriers -> BOOLEAN]
  BY <1>a DEF SemaphoreWait, RestType
<1>4. CASE Passes(s) /\ s \in Semas /\ Acquire(p, s) /\ DemoteOnly
           /\ UNCHANGED <<waiters, onSemaphore, sleepTime>>
  <2>1. count[s] > 0
    BY <1>4, SemasType DEF Passes
  <2>2. QED  BY <2>1, <1>a, <1>1, <1>2, <1>3, <1>4, AcquireType, DemoteOnlyType
             DEF SchedType, SemaType, RestType
<1>5. CASE DemoteOnly /\ UNCHANGED <<semaVars, sleepTime>>
  BY <1>5, <1>a, <1>2, <1>3, DemoteOnlyType DEF SchedType, SemaType, RestType, semaVars
<1>6. CASE ~Passes(s) /\ SuspendOnSemaphore(p, s)
  BY <1>1, <1>2, <1>3, <1>6, SuspendOnSemaphoreType DEF RestType
<1>7. QED  BY <1>4, <1>5, <1>6 DEF SemaphoreWait

LEMMA ResumeType ==
  ASSUME TypeOK, NEW p \in Procs, NEW q \in Procs, Resume(p, q)
  PROVE  SchedType' /\ SemaType' /\ RestType'
<1> DEFINE s == onSemaphore[q]
<1>a. SchedType /\ SemaType /\ RestType
  BY TypeParts
<1>1. CASE status[q] # "suspended"
  BY <1>1, <1>a, DemoteOnlyType DEF Resume, SchedType, SemaType, RestType, semaVars, userVars
<1>2. CASE status[q] = "suspended"
  <2>1. /\ alive' \in [Procs -> BOOLEAN] /\ blocking' \in [Barriers -> BOOLEAN]
        /\ pc' \in [Procs -> PCs] /\ target' \in [Procs -> AllSemas \cup {nullSemaphore}]
    BY <1>2, <1>a DEF Resume, RestType, userVars
  <2>3. CASE /\ MoveToQueue(To(q, "readyQ"), {})
             /\ onSemaphore' = [onSemaphore EXCEPT ![q] = nullSemaphore]
             /\ UNCHANGED <<sleepTime, count, waiters, holderProcess, granted>>
    BY <2>1, <2>3, <1>a, ToReadyQSched DEF SemaType, RestType
  <2>4. CASE /\ s \in Semas /\ count[s] > 0
             /\ Acquire(q, s)
             /\ MoveToQueue(To(q, "readyQ"), {})
             /\ onSemaphore' = [onSemaphore EXCEPT ![q] = nullSemaphore]
             /\ UNCHANGED <<sleepTime, waiters>>
    BY <2>1, <2>4, <1>a, AcquireType, ToReadyQSched, SemasType DEF SemaType, RestType
  <2>5. CASE s \in AllSemas /\ SuspendAgain(q, s)
    BY <2>1, <2>5, SuspendAgainType DEF RestType
  <2>6. QED  BY <1>2, <2>3, <2>4, <2>5, SemasType DEF Resume
<1>3. QED  BY <1>1, <1>2

LEMMA KillType ==
  ASSUME TypeOK, NEW q \in Procs, Kill(q)
  PROVE  /\ SchedType'
         /\ waiters' \in [AllSemas -> Seq(Procs)]
         /\ blocking' \in [Barriers -> BOOLEAN]
         /\ onSemaphore' \in [Procs -> AllSemas \cup {nullSemaphore}]
BY ReleaseAndMoveType, BarriersType DEF Kill, Places

\* What the clean-up block of an aborted process that holds a lock may do.
LEMMA UnwindProtectType ==
  ASSUME TypeOK, TargetsOK, NEW q \in Procs, UnwindProtect(q)
  PROVE  /\ count' \in [AllSemas -> Nat]
         /\ holderProcess' \in [Semas -> Procs \cup {nil}]
         /\ granted' \in [Semas -> SUBSET Procs]
<1>1. CASE pc[q] = "critical" /\ FastSignal(q, target[q], FALSE)
  BY <1>1, FastSignalType, SemasType DEF TargetsOK
<1>2. CASE UNCHANGED <<count, holderProcess, granted>>
  BY <1>2 DEF TypeOK
<1>3. QED  BY <1>1, <1>2 DEF UnwindProtect

LEMMA AbortType ==
  ASSUME TypeOK, TargetsOK, NEW p \in Procs, NEW q \in Procs, Abort(p, q)
  PROVE  SchedType' /\ SemaType' /\ RestType'
<1>1. Kill(q) /\ UnwindProtect(q) /\ SchedType /\ SemaType /\ RestType
  BY TypeParts DEF Abort
<1>2. RestType'
  BY <1>1, KillType DEF Abort, RestType, userVars
<1>3. /\ count' \in [AllSemas -> Nat]
      /\ holderProcess' \in [Semas -> Procs \cup {nil}]
      /\ granted' \in [Semas -> SUBSET Procs]
  BY <1>1, UnwindProtectType
<1>4. QED  BY <1>1, <1>2, <1>3, KillType DEF SemaType

LEMMA SigRealTimerType ==
  ASSUME TypeOK, NEW p \in Procs, SigRealTimer(p)
  PROVE  SchedType' /\ SemaType' /\ RestType'
<1>a. SchedType /\ SemaType /\ RestType
  BY TypeParts
<1>1. onSemaphore' \in [Procs -> AllSemas \cup {nullSemaphore}]
  BY <1>a DEF SigRealTimer, SemaType
<1>2. waiters' \in [AllSemas -> Seq(Procs)]
  <2>1. \A s \in AllSemas : Without(waiters[s], p) \in Seq(Procs) /\ waiters[s] \in Seq(Procs)
    BY WithoutElems DEF TypeOK
  <2>2. QED  BY <2>1 DEF SigRealTimer
<1>3. CASE status[p] = "waiting"
  <2>1. SchedType'
    BY <1>3, ToReadyQSched DEF SigRealTimer
  <2>2. RestType' /\ SemaType'
    BY <1>3, <1>1, <1>2, <1>a DEF SigRealTimer, SemaType, RestType, userVars
  <2>3. QED  BY <2>1, <2>2
<1>4. CASE status[p] # "waiting"
  <2>1. SchedType'
    BY <1>4, <1>a, DemotedType DEF SigRealTimer, SchedType
  <2>2. RestType' /\ SemaType'
    BY <1>4, <1>1, <1>2, <1>a DEF SigRealTimer, SemaType, RestType, userVars
  <2>3. QED  BY <2>1, <2>2
<1>5. QED  BY <1>3, <1>4

LEMMA TypeStep ==
  ASSUME TypeOK, TargetsOK, [Next]_vars
  PROVE  SchedType' /\ SemaType' /\ RestType'
<1> USE DEF userVars
<1>a. SchedType /\ SemaType /\ RestType
  BY TypeParts
<1>0. CASE UNCHANGED vars
  BY <1>0, <1>a DEF SchedType, SemaType, RestType, vars, schedVars, semaVars
<1>1. ASSUME NEW p \in Procs, Schedule(p) PROVE SchedType' /\ SemaType' /\ RestType'
  BY <1>1, <1>a DEF SchedType, SemaType, RestType, Schedule, semaVars, Statuses
<1>2. ASSUME NEW p \in Procs, Preempt(p) PROVE SchedType' /\ SemaType' /\ RestType'
  BY <1>2, <1>a, DemoteOnlyType DEF SchedType, SemaType, RestType, Preempt, semaVars
<1>3. ASSUME NEW p \in Procs, WaitReturn(p) PROVE SchedType' /\ SemaType' /\ RestType'
  <2>1. pc' \in [Procs -> PCs] /\ target' \in [Procs -> AllSemas \cup {nullSemaphore}]
    BY <1>3, GotoType, SemasType DEF WaitReturn, PCs
  <2>2. granted' \in [Semas -> SUBSET Procs]
    BY <1>3, <1>a DEF WaitReturn, SemaType
  <2>3. QED  BY <1>3, <1>a, <2>1, <2>2 DEF WaitReturn, schedVars, SchedType, SemaType, RestType
<1>4. ASSUME NEW p \in Procs, NEW s \in Semas, UncheckedSignal(p, s)
      PROVE SchedType' /\ SemaType' /\ RestType'
  <2>1. pc' \in [Procs -> PCs] /\ target' \in [Procs -> AllSemas \cup {nullSemaphore}]
    BY <1>4, GotoType, SemasType DEF UncheckedSignal, PCs
  <2>2. /\ count' \in [AllSemas -> Nat]
        /\ holderProcess' \in [Semas -> Procs \cup {nil}]
        /\ granted' \in [Semas -> SUBSET Procs]
    BY <1>4, <1>a, FastSignalType DEF UncheckedSignal, SemaType
  <2>3. QED  BY <1>4, <1>a, <2>1, <2>2 DEF UncheckedSignal, schedVars, SchedType, SemaType, RestType
<1>5. ASSUME NEW p \in Procs, YieldSignal(p) PROVE SchedType' /\ SemaType' /\ RestType'
  <2>1. pc' \in [Procs -> PCs] /\ target' \in [Procs -> AllSemas \cup {nullSemaphore}]
    BY <1>5, GotoType DEF YieldSignal, PCs
  <2>2. SchedType' /\ SemaType'
    BY <1>5, SemaphoreSignalType DEF YieldSignal, TargetsOK
  <2>3. QED  BY <1>5, <1>a, <2>1, <2>2 DEF YieldSignal, RestType
<1>6. ASSUME NEW s \in Events, SigIO(s) PROVE SchedType' /\ SemaType' /\ RestType'
  BY <1>6, <1>a, SemaphoreSignalType, SemasType DEF SigIO, RestType
<1>7. ASSUME NEW p \in Procs, NEW s \in Semas, Bypass(p, s)
      PROVE SchedType' /\ SemaType' /\ RestType'
  BY <1>7, <1>a, GotoType, SemasType
     DEF Bypass, PCs, schedVars, semaVars, SchedType, SemaType, RestType
<1>9. ASSUME NEW p \in Procs, NEW ms \in Int, Sleep(p, ms)
      PROVE SchedType' /\ SemaType' /\ RestType'
  BY <1>9, <1>a, GotoType, MoveToWaitingQType DEF Sleep, PCs, semaVars, SemaType, RestType
<1>10. ASSUME NEW p \in Procs, NEW q \in Procs, Suspend(p, q)
       PROVE SchedType' /\ SemaType' /\ RestType'
  <2>1. CASE status[q] # "suspended"
    <3>1. ReleaseAndMove(q, {SuspensionWaiters(q)}, "suspendedQ")
      BY <1>10, <2>1 DEF Suspend
    <3>2. {SuspensionWaiters(q)} \in SUBSET Barriers /\ "suspendedQ" \in Places
      BY BarriersType DEF Places, Queues
    <3>3. QED  BY <1>10, <1>a, <3>1, <3>2, ReleaseAndMoveType DEF Suspend, SemaType, RestType
  <2>2. CASE status[q] = "suspended"
    BY <1>10, <1>a, <2>2, DemoteOnlyType DEF Suspend, SchedType, SemaType, RestType
  <2>3. QED  BY <2>1, <2>2
<1>11. ASSUME NEW p \in Procs, Terminate(p) \/ NoProcessError(p)
       PROVE SchedType' /\ SemaType' /\ RestType'
  BY <1>11, <1>a, KillType DEF Terminate, NoProcessError, SemaType, RestType
<1>12. Timeouts \subseteq Int /\ timeoutInfinity \in Int
  BY SemaphoreAssumption DEF timeoutInfinity
<1>13. \A q \in Watched : SuspensionWaiters(q) \in AllSemas /\ DeathWaiters(q) \in AllSemas
  BY BarriersType, SemasType, SemaphoreAssumption
<1>14. QED
  BY <1>0, <1>1, <1>2, <1>3, <1>4, <1>5, <1>6, <1>7, <1>9, <1>10, <1>11, <1>12,
     <1>13, SemasType, WaitTimeOutType, SemaphoreWaitType, ResumeType, AbortType,
     SigRealTimerType
     DEF Next

LEMMA TypeInit == Init => TypeOK /\ TargetsOK
<1> SUFFICES ASSUME Init PROVE TypeOK /\ TargetsOK
  OBVIOUS
<1>1. SchedType
  BY SemaphoreAssumption DEF Init, SchedType, Statuses, Queues, Places
<1>2. SemaType
  BY SemasType DEF Init, SemaType
<1>3. RestType
  BY DEF Init, RestType, PCs, timeoutInfinity
<1>4. TargetsOK
  BY DEF Init, TargetsOK
<1>5. QED  BY <1>1, <1>2, <1>3, <1>4, TypeParts

\* Every variable keeps its type, whatever the number of processes and
\* semaphores: no permit count goes below zero, in particular, although
\* fastWait decrements without looking (semaphore.self:353).
THEOREM TypeCorrect == Spec => [](TypeOK /\ TargetsOK)
<1>1. Init => TypeOK /\ TargetsOK
  BY TypeInit
<1>2. TypeOK /\ TargetsOK /\ [Next]_vars => (TypeOK /\ TargetsOK)'
  <2> SUFFICES ASSUME TypeOK, TargetsOK, [Next]_vars PROVE TypeOK' /\ TargetsOK'
    OBVIOUS
  <2>1. TypeOK'
    BY TypeStep DEF TypeOK, SchedType, SemaType, RestType, Places
  <2>2. QED  BY <2>1, TargetsStep
<1>3. QED  BY <1>1, <1>2, PTL DEF Spec

-----------------------------------------------------------------------------
(* The scheduler's queues. *)

\* What a step can do to the scheduler's queues.
SchedEffect ==
  \/ \E p \in Procs : Schedule(p)
  \/ UNCHANGED schedVars
  \/ /\ status' = [p \in Procs |-> Demoted(p)]
     /\ UNCHANGED <<onQueue, queue>>
     /\ timerWaiters' \subseteq timerWaiters
  \/ \E dest, timed :
       /\ DestOK(dest)
       /\ timed \subseteq {p \in DOMAIN dest : dest[p] = "waitingQ"}
       /\ MoveToQueue(dest, timed)

LEMMA DemoteOnlyEffect == DemoteOnly => SchedEffect
BY DEF DemoteOnly, SchedEffect

LEMMA ToReadyQEffect ==
  ASSUME NEW p \in Procs, MoveToQueue(To(p, "readyQ"), {})
  PROVE  SchedEffect
<1>1. DestOK(To(p, "readyQ"))
  BY ToOK DEF Places, Queues
<1>2. QED  BY <1>1 DEF SchedEffect

LEMMA MoveToWaitingQEffect ==
  ASSUME NEW p \in Procs, NEW ms, MoveToWaitingQ(p, ms)
  PROVE  SchedEffect
<1>1. CASE DemoteOnly
  BY <1>1, DemoteOnlyEffect
<1>2. CASE ~(0 >= ms /\ ms # timeoutInfinity)
  <2> DEFINE timed == IF ms = timeoutInfinity THEN {} ELSE {p}
  <2>1. MoveToQueue(To(p, "waitingQ"), timed)
    BY <1>2 DEF MoveToWaitingQ, Immediate
  <2>2. DestOK(To(p, "waitingQ"))
    BY ToOK DEF Places, Queues
  <2>3. timed \subseteq {r \in DOMAIN To(p, "waitingQ") : To(p, "waitingQ")[r] = "waitingQ"}
    BY DEF To
  <2>4. QED  BY <2>1, <2>2, <2>3 DEF SchedEffect
<1>3. QED  BY <1>1, <1>2 DEF MoveToWaitingQ, Immediate

LEMMA SemaphoreSignalEffect ==
  ASSUME TypeOK, NEW p, NEW s \in Semas, SemaphoreSignal(p, s)
  PROVE  SchedEffect
<1>1. CASE waiters[s] = <<>>
  BY <1>1, DemoteOnlyEffect DEF SemaphoreSignal
<1>2. CASE waiters[s] # <<>>
  <2>1. Head(waiters[s]) \in Procs
    BY <1>2, TailElems, SemasType DEF TypeOK
  <2>2. QED  BY <1>2, <2>1, ToReadyQEffect DEF SemaphoreSignal, TransferSemaphore
<1>3. QED  BY <1>1, <1>2

LEMMA ReleaseAndMoveEffect ==
  ASSUME TypeOK, NEW p \in Procs, NEW bs \in SUBSET Barriers,
         NEW dest \in Places, ReleaseAndMove(p, bs, dest)
  PROVE  SchedEffect
<1> DEFINE left(s) == IF s = onSemaphore[p] THEN Without(waiters[s], p) ELSE waiters[s]
           released == UNION {Elems(left(b)) : b \in bs}
           d == [r \in released \cup {p} |-> IF r = p THEN dest ELSE "readyQ"]
<1>1. \A s \in AllSemas : left(s) \in Seq(Procs)
  BY WithoutElems DEF TypeOK
<1>2. released \subseteq Procs
  BY <1>1, SemasType DEF Elems
<1>3. DestOK(d)
  BY <1>2 DEF DestOK, Places, Queues
<1>4. MoveToQueue(d, {})
  BY DEF ReleaseAndMove
<1>5. QED  BY <1>3, <1>4 DEF SchedEffect

LEMMA KillEffect ==
  ASSUME TypeOK, NEW q \in Procs, Kill(q)
  PROVE  SchedEffect
BY ReleaseAndMoveEffect, BarriersType DEF Kill, Places

LEMMA SchedEffects ==
  ASSUME TypeOK, TargetsOK, [Next]_vars
  PROVE  SchedEffect
<1>0. CASE UNCHANGED schedVars
  BY <1>0 DEF SchedEffect
<1>1. ASSUME NEW p \in Procs, SemaphoreWait(p) PROVE SchedEffect
  BY <1>1, DemoteOnlyEffect, MoveToWaitingQEffect DEF SemaphoreWait, SuspendOnSemaphore, JoinQueue
<1>2. ASSUME NEW p \in Procs, YieldSignal(p) PROVE SchedEffect
  BY <1>2, SemaphoreSignalEffect DEF YieldSignal, TargetsOK
<1>3. ASSUME NEW s \in Events, SigIO(s) PROVE SchedEffect
  BY <1>3, SemaphoreSignalEffect, SemasType DEF SigIO
<1>4. ASSUME NEW p \in Procs, NEW ms, Sleep(p, ms) PROVE SchedEffect
  BY <1>4, MoveToWaitingQEffect DEF Sleep
<1>5. ASSUME NEW p \in Procs, SigRealTimer(p) PROVE SchedEffect
  <2>1. CASE MoveToQueue(To(p, "readyQ"), {})
    BY <2>1, ToReadyQEffect
  <2>2. CASE /\ timerWaiters' = timerWaiters \ {p}
             /\ status' = [r \in Procs |-> Demoted(r)]
             /\ UNCHANGED <<onQueue, queue>>
    BY <2>2 DEF SchedEffect
  <2>3. QED  BY <1>5, <2>1, <2>2 DEF SigRealTimer
<1>6. ASSUME NEW p \in Procs, NEW q \in Procs, Suspend(p, q) PROVE SchedEffect
  <2>1. {SuspensionWaiters(q)} \in SUBSET Barriers /\ "suspendedQ" \in Places
    BY BarriersType DEF Places, Queues
  <2>2. QED  BY <1>6, <2>1, ReleaseAndMoveEffect, DemoteOnlyEffect DEF Suspend
<1>7. ASSUME NEW p \in Procs, NEW q \in Procs, Resume(p, q) PROVE SchedEffect
  BY <1>7, ToReadyQEffect, MoveToWaitingQEffect, DemoteOnlyEffect
     DEF Resume, SuspendAgain, SuspendOnSemaphore
<1>8. ASSUME NEW p \in Procs, NEW q \in Procs, Abort(p, q) PROVE SchedEffect
  BY <1>8, KillEffect DEF Abort
<1>9. ASSUME NEW p \in Procs, Terminate(p) \/ NoProcessError(p) PROVE SchedEffect
  BY <1>9, KillEffect DEF Terminate, NoProcessError
<1>10. ASSUME NEW p \in Procs, Schedule(p) \/ Preempt(p) PROVE SchedEffect
  BY <1>10, DemoteOnlyEffect DEF Preempt, SchedEffect
<1>11. ASSUME NEW p, NEW s, NEW ms,
              \/ WaitTimeOut(p, s, ms) \/ WaitReturn(p) \/ UncheckedSignal(p, s)
              \/ Bypass(p, s)
       PROVE SchedEffect
  BY <1>0, <1>11 DEF WaitTimeOut, WaitReturn, UncheckedSignal, Bypass, schedVars
<1>12. QED
  BY <1>0, <1>1, <1>2, <1>3, <1>4, <1>5, <1>6, <1>7, <1>8, <1>9, <1>10, <1>11
     DEF Next, vars, schedVars

LEMMA QueuesStep ==
  ASSUME TypeOK, QueuesAgree, TimersAreForWaiters, SchedEffect
  PROVE  QueuesAgree' /\ TimersAreForWaiters'
<1>1. ASSUME NEW p \in Procs, Schedule(p) PROVE QueuesAgree' /\ TimersAreForWaiters'
  BY <1>1 DEF Schedule, QueuesAgree, TimersAreForWaiters, TypeOK, Running, Queues
<1>2. CASE UNCHANGED schedVars
  BY <1>2 DEF schedVars, QueuesAgree, TimersAreForWaiters, Running
<1>3. CASE /\ status' = [p \in Procs |-> Demoted(p)]
           /\ UNCHANGED <<onQueue, queue>>
           /\ timerWaiters' \subseteq timerWaiters
  BY <1>3, DemotedType DEF QueuesAgree, TimersAreForWaiters, Running
<1>4. ASSUME NEW dest, NEW timed, DestOK(dest),
             timed \subseteq {p \in DOMAIN dest : dest[p] = "waitingQ"},
             MoveToQueue(dest, timed)
      PROVE  QueuesAgree' /\ TimersAreForWaiters'
  <2>1. \A p \in Procs :
          /\ p \in DOMAIN dest => status'[p] = StatusIn[dest[p]] /\ onQueue'[p] = dest[p]
          /\ p \notin DOMAIN dest => status'[p] = Demoted(p) /\ onQueue'[p] = onQueue[p]
    BY <1>4 DEF MoveToQueue
  <2>2. \A p \in Procs :
          /\ onQueue'[p] = "readyQ"     <=> status'[p] = "ready"
          /\ onQueue'[p] = "waitingQ"   <=> status'[p] = "waiting"
          /\ onQueue'[p] = "suspendedQ" <=> status'[p] = "suspended"
          /\ status'[p] # "running"
    <3>1. TAKE p \in Procs
    <3>2. CASE p \in DOMAIN dest
      BY <1>4, <2>1, <3>2, StatusInType DEF DestOK
    <3>3. CASE p \notin DOMAIN dest
      BY <2>1, <3>3, DemotedType DEF QueuesAgree
    <3>4. QED  BY <3>2, <3>3
  <2>3. \A q \in Queues : queue'[q] = {p \in Procs : onQueue'[p] = q}
    BY <1>4, <2>1 DEF MoveToQueue, DestOK, QueuesAgree
  <2>4. timerWaiters' \subseteq queue'["waitingQ"]
    BY <1>4, <2>1, <2>3 DEF MoveToQueue, DestOK, QueuesAgree, TimersAreForWaiters, Queues
  <2>5. QED  BY <2>2, <2>3, <2>4 DEF QueuesAgree, TimersAreForWaiters, Running
<1>5. QED  BY <1>1, <1>2, <1>3, <1>4 DEF SchedEffect

\* What the semaphores need to know of the scheduler's queues.  Cleanup keeps
\* no more than this of QueuesAgree and TimersAreForWaiters.
QueuesSound ==
  /\ \A q \in Queues : \A p \in queue[q] : onQueue[p] = q
  /\ \A p \in Procs :
       /\ onQueue[p] = "readyQ"   => status[p] \in {"ready", "running"}
       /\ onQueue[p] = "waitingQ" => status[p] = "waiting"
  /\ timerWaiters \subseteq queue["waitingQ"]

LEMMA SoundIf == QueuesAgree /\ TimersAreForWaiters => QueuesSound
BY DEF QueuesAgree, TimersAreForWaiters, QueuesSound

LEMMA SoundStep ==
  ASSUME TypeOK, QueuesSound, SchedEffect
  PROVE  QueuesSound'
<1>1. ASSUME NEW p \in Procs, Schedule(p) PROVE QueuesSound'
  BY <1>1 DEF Schedule, QueuesSound, TypeOK, Queues
<1>2. CASE UNCHANGED schedVars
  BY <1>2 DEF schedVars, QueuesSound
<1>3. CASE /\ status' = [p \in Procs |-> Demoted(p)]
           /\ UNCHANGED <<onQueue, queue>>
           /\ timerWaiters' \subseteq timerWaiters
  BY <1>3, DemotedType DEF QueuesSound
<1>4. ASSUME NEW dest, NEW timed, DestOK(dest),
             timed \subseteq {p \in DOMAIN dest : dest[p] = "waitingQ"},
             MoveToQueue(dest, timed)
      PROVE  QueuesSound'
  <2>1. \A p \in Procs :
          /\ p \in DOMAIN dest => status'[p] = StatusIn[dest[p]] /\ onQueue'[p] = dest[p]
          /\ p \notin DOMAIN dest => status'[p] = Demoted(p) /\ onQueue'[p] = onQueue[p]
    BY <1>4 DEF MoveToQueue
  <2>2. \A p \in Procs :
          /\ onQueue'[p] = "readyQ"   => status'[p] = "ready"
          /\ onQueue'[p] = "waitingQ" => status'[p] = "waiting"
    <3>1. TAKE p \in Procs
    <3>2. CASE p \in DOMAIN dest
      BY <1>4, <2>1, <3>2, StatusInType DEF DestOK
    <3>3. CASE p \notin DOMAIN dest
      BY <2>1, <3>3, DemotedType DEF QueuesSound
    <3>4. QED  BY <3>2, <3>3
  <2>3. \A q \in Queues : \A p \in queue'[q] : onQueue'[p] = q
    BY <1>4, <2>1 DEF MoveToQueue, DestOK, QueuesSound, TypeOK
  <2>4. timerWaiters' \subseteq queue'["waitingQ"]
    BY <1>4, <2>1 DEF MoveToQueue, DestOK, QueuesSound, TypeOK, Queues
  <2>5. QED  BY <2>2, <2>3, <2>4 DEF QueuesSound
<1>5. QED  BY <1>1, <1>2, <1>3, <1>4 DEF SchedEffect

LEMMA QueuesInit == Init => QueuesAgree /\ TimersAreForWaiters
<1> SUFFICES ASSUME Init PROVE QueuesAgree /\ TimersAreForWaiters
  OBVIOUS
<1>1. /\ \A p \in Procs : status[p] = IF p \in Initial THEN "ready" ELSE "newborn"
      /\ \A p \in Procs : onQueue[p] = IF p \in Initial THEN "readyQ" ELSE "noQueue"
      /\ queue["readyQ"] = Initial /\ queue["waitingQ"] = {} /\ queue["suspendedQ"] = {}
      /\ timerWaiters = {}
      /\ Initial \subseteq Procs
  BY SemaphoreAssumption DEF Init, Queues
<1>2. TimersAreForWaiters
  BY <1>1 DEF TimersAreForWaiters
<1>3. \A q \in Queues : queue[q] = {p \in Procs : onQueue[p] = q}
  BY <1>1 DEF Queues
<1>4. QED  BY <1>1, <1>2, <1>3 DEF QueuesAgree, Running

\* The queues, the processes' own idea of them and the processes' statuses
\* agree after every action and handler, and no process that is not waiting
\* is left to be timed out (process.self:858 and 1024-1040).
THEOREM QueuesCorrect == Spec => [](QueuesAgree /\ TimersAreForWaiters)
<1>1. Init => QueuesAgree /\ TimersAreForWaiters
  BY QueuesInit
<1>2. /\ TypeOK /\ TargetsOK /\ QueuesAgree /\ TimersAreForWaiters /\ [Next]_vars
      => (QueuesAgree /\ TimersAreForWaiters)'
  BY SchedEffects, QueuesStep
<1>3. QED  BY <1>1, <1>2, TypeCorrect, PTL DEF Spec

\* Whoever has a timer waits: no signal, suspension or abort leaves a timer
\* behind that would end a later wait (process.self:1024-1040).
THEOREM TimersCorrect == Spec => []TimersAreForWaiters
BY QueuesCorrect, PTL

-----------------------------------------------------------------------------
(* Who waits for what. *)

\* What clients have to respect: no negative time-out but timeoutInfinity.
ValidTimeouts == \A ms \in Timeouts : ms = timeoutInfinity \/ ms >= 0

MayWait(ms) == ms = timeoutInfinity \/ ms > 0

\* A process that runs is on no semaphore; one that is on a semaphore is in
\* the middle of the wait for it, and waits or has been suspended meanwhile.
ControlOK ==
  \A p \in Procs :
    /\ Running(p) => alive[p] /\ onSemaphore[p] = nullSemaphore
    /\ status[p] = "waiting" =>
         /\ pc[p] = "waited"
         /\ alive[p] /\ onSemaphore[p] = nullSemaphore => target[p] = nullSemaphore
    /\ onSemaphore[p] # nullSemaphore =>
         /\ status[p] \in {"waiting", "suspended"}
         /\ pc[p] = "waited" /\ target[p] = onSemaphore[p]
         /\ MayWait(sleepTime[p]) /\ alive[p]
    /\ pc[p] = "waitYield" => MayWait(sleepTime[p])

\* Nobody waits for an open barrier, and barriers never have permits.  The
\* barriers of a dead or suspended process are open.
BarriersOK ==
  /\ \A b \in Barriers : count[b] = 0 /\ (~blocking[b] => waiters[b] = <<>>)
  /\ \A q \in Procs :
       /\ ~alive[q] => ~blocking[DeathWaiters(q)]
       /\ status[q] \in {"suspended", "dead"} => ~blocking[SuspensionWaiters(q)]

WaitInv == ControlOK /\ WaitersAgree /\ NoLostWakeup /\ BarriersOK

LEMMA WaitersNoDup ==
  ASSUME WaitersAgree, NEW s \in AllSemas
  PROVE  NoDup(waiters[s])
BY DEF WaitersAgree, NoDup

LEMMA WaitersAgreeIf ==
  ASSUME \A s \in AllSemas, p \in Procs :
           p \in Elems(waiters[s])' <=> status'[p] = "waiting" /\ onSemaphore'[p] = s,
         \A s \in AllSemas : NoDup(waiters[s])'
  PROVE  WaitersAgree'
BY DEF WaitersAgree, NoDup

LEMMA EmptyElems ==
  /\ Elems(<<>>) = {} /\ NoDup(<<>>)
  /\ \A s \in Seq(Procs) : s # <<>> => \E p \in Procs : p \in Elems(s)
<1>1. Elems(<<>>) = {} /\ NoDup(<<>>)
  BY DEF Elems, NoDup
<1>2. \A s \in Seq(Procs) : s # <<>> => \E p \in Procs : p \in Elems(s)
  BY TailElems
<1>3. QED  BY <1>1, <1>2

\* What a move of p alone does to the statuses.
LEMMA MoveOneStatus ==
  ASSUME TypeOK, NEW p \in Procs, NEW q \in Places, NEW timed,
         MoveToQueue(To(p, q), timed)
  PROVE  status' = [r \in Procs |-> IF r = p THEN StatusIn[q] ELSE Demoted(r)]
BY DEF MoveToQueue, To

LEMMA DemoteOnlyStatus ==
  ASSUME DemoteOnly
  PROVE  status' = [r \in Procs |-> Demoted(r)]
BY DEF DemoteOnly

\* A step that leaves the semaphores' queues alone and only demotes.
LEMMA QuietWait ==
  ASSUME TypeOK, WaitInv,
         \A r \in Procs : status'[r] = status[r] \/ status'[r] = Demoted(r),
         status' \in [Procs -> Statuses],
         UNCHANGED <<waiters, onSemaphore, blocking, alive>>,
         \A s \in AllSemas : count'[s] > 0 => waiters[s] = <<>>,
         \A b \in Barriers : count'[b] = count[b],
         \A r \in Procs :
            \/ pc'[r] = pc[r] /\ target'[r] = target[r] /\ sleepTime'[r] = sleepTime[r]
            \/ /\ Running(r)
               /\ pc'[r] = "waitYield" => MayWait(sleepTime'[r])
  PROVE  WaitInv'
<1>1. \A r \in Procs : status'[r] = status[r] \/ (Running(r) /\ status'[r] = "ready")
  BY DEF Demoted, Running
<1>2. ControlOK'
  BY <1>1 DEF WaitInv, ControlOK, Running
<1>3. WaitersAgree'
  BY <1>1 DEF WaitInv, WaitersAgree, Running
<1>4. NoLostWakeup'
  BY SemasType DEF NoLostWakeup
<1>5. BarriersOK'
  BY <1>1 DEF WaitInv, BarriersOK
<1>6. QED  BY <1>2, <1>3, <1>4, <1>5 DEF WaitInv

\* A running process that is not let through joins the queue of s.
LEMMA SuspendOnSemaphoreWait ==
  ASSUME TypeOK, WaitInv, NEW p \in Procs, NEW s \in AllSemas,
         SuspendOnSemaphore(p, s), MayWait(sleepTime[p]), alive[p],
         status[p] # "waiting",
         \A q \in Procs : q # p => blocking'[SuspensionWaiters(q)] = blocking[SuspensionWaiters(q)],
         blocking' = blocking \/ blocking' = [blocking EXCEPT ![SuspensionWaiters(p)] = TRUE],
         s \in Semas => count[s] = 0,
         s \in Barriers => blocking'[s],
         alive' = alive,
         \A r \in Procs : r # p => pc'[r] = pc[r] /\ target'[r] = target[r],
         pc'[p] = "waited" /\ target'[p] = s
  PROVE  WaitInv'
<1>1. /\ MoveToWaitingQ(p, sleepTime[p])
      /\ waiters' = [waiters EXCEPT ![s] = Append(waiters[s], p)]
      /\ onSemaphore' = [onSemaphore EXCEPT ![p] = s]
      /\ count' = count
  BY DEF SuspendOnSemaphore, JoinQueue
<1>2. sleepTime[p] \in Int /\ ~(0 >= sleepTime[p] /\ sleepTime[p] # timeoutInfinity)
  BY DEF TypeOK, MayWait, timeoutInfinity
<1>3. sleepTime' = sleepTime
  BY <1>1, <1>2 DEF MoveToWaitingQ, Immediate, TypeOK
<1>4. status' = [r \in Procs |-> IF r = p THEN "waiting" ELSE Demoted(r)]
  <2>1. PICK timed : MoveToQueue(To(p, "waitingQ"), timed)
    BY <1>1, <1>2 DEF MoveToWaitingQ, Immediate
  <2>2. "waitingQ" \in Places /\ StatusIn["waitingQ"] = "waiting"
    BY DEF Places, Queues, StatusIn
  <2>3. QED  BY <2>1, <2>2, MoveOneStatus
<1>5. \A r \in Procs : r # p => \/ status'[r] = status[r]
                                \/ Running(r) /\ status'[r] = "ready"
  BY <1>4 DEF Demoted, Running
<1>6. \A r \in Procs : r # p => onSemaphore'[r] = onSemaphore[r]
  BY <1>1 DEF TypeOK
<1>7. onSemaphore'[p] = s /\ status'[p] = "waiting" /\ s # nullSemaphore
  BY <1>1, <1>4, SemasType DEF TypeOK
<1>8. ControlOK'
  BY <1>3, <1>5, <1>6, <1>7 DEF WaitInv, ControlOK, Running
<1>9. WaitersAgree'
  <2>1. \A r \in Procs, t \in AllSemas :
          r \in Elems(waiters[t])' <=> r \in Elems(waiters[t]) \/ (r = p /\ t = s)
    BY <1>1, AppendElems DEF TypeOK
  <2>2. p \notin Elems(waiters[s])
    BY DEF WaitInv, WaitersAgree
  <2>3. \A t \in AllSemas : NoDup(waiters[t])'
    BY <1>1, <2>2, AppendElems, WaitersNoDup DEF TypeOK, WaitInv
  <2>4. \A t \in AllSemas : p \notin Elems(waiters[t])
    BY DEF WaitInv, WaitersAgree
  <2>5. \A t \in AllSemas, r \in Procs :
          r \in Elems(waiters[t])' <=> status'[r] = "waiting" /\ onSemaphore'[r] = t
    BY <1>5, <1>6, <1>7, <2>1, <2>4 DEF WaitInv, WaitersAgree, Running
  <2>6. QED  BY <2>3, <2>5, WaitersAgreeIf
<1>10. NoLostWakeup'
  BY <1>1, SemasType DEF WaitInv, NoLostWakeup, TypeOK
<1>11. BarriersOK'
  <2>1. \A b \in Barriers : count'[b] = 0 /\ (~blocking'[b] => waiters'[b] = <<>>)
    BY <1>1, SemasType DEF WaitInv, BarriersOK, TypeOK
  <2>2. \A q \in Procs : ~alive'[q] => ~blocking'[DeathWaiters(q)]
    BY BarriersType DEF WaitInv, BarriersOK, TypeOK, DeathWaiters, SuspensionWaiters
  <2>3. \A q \in Procs : status'[q] \in {"suspended", "dead"} => ~blocking'[SuspensionWaiters(q)]
    BY <1>5, <1>7 DEF WaitInv, BarriersOK
  <2>4. QED  BY <2>1, <2>2, <2>3 DEF BarriersOK
<1>12. QED  BY <1>8, <1>9, <1>10, <1>11 DEF WaitInv

\* The first waiter leaves the queue with the permit.
LEMMA TransferWait ==
  ASSUME TypeOK, WaitInv, NEW p, NEW s \in Semas, waiters[s] # <<>>,
         TransferSemaphore(p, s), UNCHANGED <<sleepTime, blocking, alive>>,
         \A r \in Procs : \/ pc'[r] = pc[r] /\ target'[r] = target[r]
                          \/ Running(r) /\ pc'[r] = "idle"
  PROVE  WaitInv'
<1> DEFINE q == Head(waiters[s])
<1>1. q \in Procs /\ q \in Elems(waiters[s])
  BY TailElems, SemasType DEF TypeOK
<1>2. status[q] = "waiting" /\ onSemaphore[q] = s
  BY <1>1, SemasType DEF WaitInv, WaitersAgree
<1>3. /\ waiters' = [waiters EXCEPT ![s] = Tail(waiters[s])]
      /\ onSemaphore' = [onSemaphore EXCEPT ![q] = nullSemaphore]
      /\ count' = count
      /\ MoveToQueue(To(q, "readyQ"), {})
  BY DEF TransferSemaphore
<1>4. status' = [r \in Procs |-> IF r = q THEN "ready" ELSE Demoted(r)]
  <2>1. "readyQ" \in Places /\ StatusIn["readyQ"] = "ready"
    BY DEF Places, Queues, StatusIn
  <2>2. QED  BY <1>1, <1>3, <2>1, MoveOneStatus
<1>5. \A r \in Procs : r # q => \/ status'[r] = status[r]
                                \/ Running(r) /\ status'[r] = "ready"
  BY <1>4 DEF Demoted, Running
<1>6. onSemaphore'[q] = nullSemaphore /\ status'[q] = "ready"
  BY <1>1, <1>3, <1>4 DEF TypeOK
<1>7. \A r \in Procs : r # q => onSemaphore'[r] = onSemaphore[r]
  BY <1>3 DEF TypeOK
<1>8. ControlOK'
  BY <1>5, <1>6, <1>7 DEF WaitInv, ControlOK, Running
<1>9. WaitersAgree'
  <2>1. /\ Elems(waiters[s])' = Elems(waiters[s]) \ {q}
        /\ NoDup(waiters[s])'
    BY <1>3, TailElems, WaitersNoDup, SemasType DEF TypeOK, WaitInv
  <2>2. \A u \in AllSemas : u # s => waiters'[u] = waiters[u]
    BY <1>3 DEF TypeOK
  <2>3. \A u \in AllSemas : NoDup(waiters[u])'
    BY <2>1, <2>2, WaitersNoDup DEF WaitInv
  <2>4. \A u \in AllSemas : u # s => q \notin Elems(waiters[u])
    BY <1>1, <1>2 DEF WaitInv, WaitersAgree
  <2>5. \A u \in AllSemas, r \in Procs :
          r \in Elems(waiters[u])' <=> r \in Elems(waiters[u]) /\ r # q
    BY <2>1, <2>2, <2>4
  <2>6. \A u \in AllSemas : u # nullSemaphore
    BY SemasType
  <2>7. \A u \in AllSemas, r \in Procs :
          r \in Elems(waiters[u])' <=> status'[r] = "waiting" /\ onSemaphore'[r] = u
    BY <1>5, <1>6, <1>7, <2>5, <2>6 DEF WaitInv, WaitersAgree, Running
  <2>8. QED  BY <2>3, <2>7, WaitersAgreeIf
<1>10. NoLostWakeup'
  BY <1>3, SemasType DEF WaitInv, NoLostWakeup, TypeOK
<1>11. BarriersOK'
  <2>1. \A b \in Barriers : waiters'[b] = waiters[b]
    BY <1>3, SemasType DEF TypeOK
  <2>2. QED  BY <1>3, <1>5, <1>6, <2>1 DEF WaitInv, BarriersOK
<1>12. QED  BY <1>8, <1>9, <1>10, <1>11 DEF WaitInv

\* p leaves the semaphore it is on and does not wait afterwards.
LEMMA LeaveElems ==
  ASSUME TypeOK, WaitersAgree, NEW p \in Procs, NEW u \in AllSemas, NEW w,
         w = IF u = onSemaphore[p] THEN Without(waiters[u], p) ELSE waiters[u]
  PROVE  /\ w \in Seq(Procs)
         /\ Elems(w) = Elems(waiters[u]) \ {p}
         /\ NoDup(w)
         /\ waiters[u] = <<>> => w = <<>>
<1>1. waiters[u] \in Seq(Procs) /\ NoDup(waiters[u])
  BY WaitersNoDup DEF TypeOK
<1>2. CASE u = onSemaphore[p]
  <2>1. LET v == Without(waiters[u], p) IN
        /\ v \in Seq(Procs) /\ NoDup(v)
        /\ Elems(v) = Elems(waiters[u]) \ {p}
        /\ waiters[u] = <<>> => v = <<>>
    BY <1>1, WithoutElems, Zenon
  <2>2. QED  BY <1>2, <2>1
<1>3. CASE u # onSemaphore[p]
  <2>1. p \notin Elems(waiters[u])
    BY <1>3 DEF WaitersAgree
  <2>2. QED  BY <1>1, <1>3, <2>1
<1>4. QED  BY <1>2, <1>3

LEMMA SigRealTimerWait ==
  ASSUME TypeOK, QueuesSound, WaitInv, NEW p \in Procs, SigRealTimer(p)
  PROVE  WaitInv'
<1>1. status[p] = "waiting"
  BY DEF SigRealTimer, QueuesSound, TypeOK, Queues
<1>2. /\ onSemaphore' = [onSemaphore EXCEPT ![p] = nullSemaphore]
      /\ waiters' = [u \in AllSemas |-> IF u = onSemaphore[p] THEN Without(waiters[u], p)
                                                             ELSE waiters[u]]
      /\ sleepTime' = [sleepTime EXCEPT ![p] = 0]
      /\ MoveToQueue(To(p, "readyQ"), {})
      /\ UNCHANGED <<count, blocking, alive, pc, target>>
  BY <1>1 DEF SigRealTimer, userVars
<1>3. status' = [r \in Procs |-> IF r = p THEN "ready" ELSE Demoted(r)]
  <2>1. "readyQ" \in Places /\ StatusIn["readyQ"] = "ready"
    BY DEF Places, Queues, StatusIn
  <2>2. QED  BY <1>2, <2>1, MoveOneStatus
<1>4. \A r \in Procs : r # p => \/ status'[r] = status[r]
                                \/ Running(r) /\ status'[r] = "ready"
  BY <1>3 DEF Demoted, Running
<1>5. onSemaphore'[p] = nullSemaphore /\ status'[p] = "ready"
  BY <1>2, <1>3 DEF TypeOK
<1>6. \A r \in Procs : r # p => onSemaphore'[r] = onSemaphore[r] /\ sleepTime'[r] = sleepTime[r]
  BY <1>2 DEF TypeOK
<1>7. pc[p] = "waited"
  BY <1>1 DEF WaitInv, ControlOK
<1>8. ControlOK'
  BY <1>2, <1>4, <1>5, <1>6, <1>7 DEF WaitInv, ControlOK, Running
<1>9. \A u \in AllSemas :
        /\ Elems(waiters[u])' = Elems(waiters[u]) \ {p}
        /\ NoDup(waiters[u])'
        /\ waiters[u] = <<>> => waiters'[u] = <<>>
  <2>1. TAKE u \in AllSemas
  <2>2. waiters'[u] = IF u = onSemaphore[p] THEN Without(waiters[u], p) ELSE waiters[u]
    BY <1>2
  <2>3. QED  BY <2>2, LeaveElems DEF WaitInv
<1>10. WaitersAgree'
  <2>1. \A u \in AllSemas : u # nullSemaphore
    BY SemasType
  <2>2. \A u \in AllSemas, r \in Procs :
          r \in Elems(waiters[u])' <=> status'[r] = "waiting" /\ onSemaphore'[r] = u
    BY <1>4, <1>5, <1>6, <1>9, <2>1 DEF WaitInv, WaitersAgree, Running
  <2>3. QED  BY <1>9, <2>2, WaitersAgreeIf
<1>11. NoLostWakeup'
  BY <1>2, <1>9, SemasType DEF WaitInv, NoLostWakeup
<1>12. BarriersOK'
  BY <1>2, <1>4, <1>5, <1>9, SemasType DEF WaitInv, BarriersOK
<1>13. QED  BY <1>8, <1>10, <1>11, <1>12 DEF WaitInv

\* What it does to the processes other than p and to the semaphores that p
\* leaves the one it is on and the barriers bs are opened.
ReleaseEffects(p, bs) ==
  /\ \A r \in Procs : r # p =>
       IF status[r] = "waiting" /\ onSemaphore[r] \in bs
       THEN status'[r] = "ready" /\ onSemaphore'[r] = nullSemaphore
       ELSE /\ onSemaphore'[r] = onSemaphore[r]
            /\ status'[r] = status[r] \/ (Running(r) /\ status'[r] = "ready")
  /\ \A u \in AllSemas :
       /\ NoDup(waiters[u])'
       /\ waiters[u] = <<>> => waiters'[u] = <<>>
       /\ u \in bs => waiters'[u] = <<>>
       /\ u \notin bs => Elems(waiters[u])' = Elems(waiters[u]) \ {p}
  /\ \A b \in Barriers : blocking'[b] = (b \notin bs /\ blocking[b])

\* The effect of suspend: and of kill:For: on the processes.
LEMMA ReleaseAndMoveEffects ==
  ASSUME TypeOK, WaitersAgree, NEW p \in Procs, NEW bs \in SUBSET Barriers,
         NEW dest \in {"suspendedQ", "noQueue"}, ReleaseAndMove(p, bs, dest)
  PROVE  /\ status'[p] = IF dest = "suspendedQ" THEN "suspended" ELSE "dead"
         /\ onSemaphore'[p] = IF dest = "suspendedQ" THEN onSemaphore[p] ELSE nullSemaphore
         /\ ReleaseEffects(p, bs)
<1> DEFINE left(s) == IF s = onSemaphore[p] THEN Without(waiters[s], p) ELSE waiters[s]
           released == UNION {Elems(left(b)) : b \in bs}
           d == [r \in released \cup {p} |-> IF r = p THEN dest ELSE "readyQ"]
<1>1. \A u \in AllSemas :
        /\ left(u) \in Seq(Procs)
        /\ Elems(left(u)) = Elems(waiters[u]) \ {p}
        /\ NoDup(left(u))
        /\ waiters[u] = <<>> => left(u) = <<>>
  <2>1. TAKE u \in AllSemas
  <2>2. QED  BY LeaveElems
<1>2. \A b \in bs : b \in AllSemas
  BY SemasType
<1>3. \A r \in Procs : r \in released <=> r # p /\ status[r] = "waiting" /\ onSemaphore[r] \in bs
  <2>1. TAKE r \in Procs
  <2>2. r \in released <=> \E b \in bs : r \in Elems(left(b))
    OBVIOUS
  <2> HIDE DEF released
  <2>3. \A b \in bs : r \in Elems(left(b)) <=> r # p /\ status[r] = "waiting" /\ onSemaphore[r] = b
    BY <1>1, <1>2 DEF WaitersAgree
  <2> HIDE DEF left
  <2>4. QED  BY <2>2, <2>3
<1>4. /\ waiters' = [s \in AllSemas |-> IF s \in bs THEN <<>> ELSE left(s)]
      /\ blocking' = [b \in Barriers |-> b \notin bs /\ blocking[b]]
      /\ onSemaphore' = [r \in Procs |->
                           IF r \in released \/ (r = p /\ dest = "noQueue")
                           THEN nullSemaphore ELSE onSemaphore[r]]
      /\ MoveToQueue(d, {})
  BY DEF ReleaseAndMove
<1>5. status' = [r \in Procs |-> IF r \in released \cup {p} THEN StatusIn[d[r]] ELSE Demoted(r)]
  BY <1>4 DEF MoveToQueue
<1>6. /\ StatusIn["readyQ"] = "ready" /\ StatusIn["suspendedQ"] = "suspended"
      /\ StatusIn["noQueue"] = "dead"
  BY DEF StatusIn
<1>7. status'[p] = IF dest = "suspendedQ" THEN "suspended" ELSE "dead"
  BY <1>5, <1>6
<1>8. \A r \in Procs : r # p => IF r \in released THEN status'[r] = "ready"
                                ELSE status'[r] = status[r] \/ (Running(r) /\ status'[r] = "ready")
  BY <1>5, <1>6 DEF Demoted, Running
<1>9. \A u \in AllSemas :
        /\ NoDup(waiters[u])'
        /\ waiters[u] = <<>> => waiters'[u] = <<>>
        /\ u \in bs => waiters'[u] = <<>>
        /\ u \notin bs => Elems(waiters[u])' = Elems(waiters[u]) \ {p}
  <2>1. TAKE u \in AllSemas
  <2>2. CASE u \in bs
    <3>1. waiters'[u] = <<>>
      BY <1>4, <2>2
    <3>2. QED  BY <2>2, <3>1, EmptyElems
  <2>3. CASE u \notin bs
    <3>1. waiters'[u] = left(u)
      BY <1>4, <2>3
    <3>2. QED  BY <1>1, <2>3, <3>1
  <2>4. QED  BY <2>2, <2>3
<1>10. onSemaphore'[p] = IF dest = "suspendedQ" THEN onSemaphore[p] ELSE nullSemaphore
  BY <1>3, <1>4
<1>11. QED
  BY <1>3, <1>4, <1>7, <1>8, <1>9, <1>10 DEF ReleaseEffects

LEMMA BarriersDiffer ==
  ASSUME NEW p \in Procs, NEW q \in Procs
  PROVE  /\ SuspensionWaiters(p) # DeathWaiters(q)
         /\ SuspensionWaiters(p) = SuspensionWaiters(q) => p = q
         /\ DeathWaiters(p) = DeathWaiters(q) => p = q
BY DEF SuspensionWaiters, DeathWaiters

\* p is suspended, dies, or is destroyed as it is.
LEMMA ReleaseWait ==
  ASSUME TypeOK, WaitInv, NEW p \in Procs, NEW bs \in SUBSET Barriers,
         ReleaseEffects(p, bs),
         \/ /\ status'[p] = "suspended" /\ onSemaphore'[p] = onSemaphore[p]
            /\ alive' = alive
         \/ /\ status'[p] = "dead" /\ onSemaphore'[p] = nullSemaphore
            /\ alive' = alive
         \/ /\ status'[p] = "dead" \/ status'[p] = Demoted(p)
            /\ onSemaphore'[p] = nullSemaphore
            /\ alive' = [alive EXCEPT ![p] = FALSE]
            /\ DeathWaiters(p) \in bs,
         SuspensionWaiters(p) \in bs,
         \A s \in Semas : count'[s] > 0 => waiters[s] = <<>>,
         \A b \in Barriers : count'[b] = count[b],
         UNCHANGED <<sleepTime, pc, target>>
  PROVE  WaitInv'
<1>1. /\ \A r \in Procs : r # p =>
           IF status[r] = "waiting" /\ onSemaphore[r] \in bs
           THEN status'[r] = "ready" /\ onSemaphore'[r] = nullSemaphore
           ELSE /\ onSemaphore'[r] = onSemaphore[r]
                /\ status'[r] = status[r] \/ (Running(r) /\ status'[r] = "ready")
      /\ \A b \in Barriers : blocking'[b] = (b \notin bs /\ blocking[b])
  BY DEF ReleaseEffects
<1>2. \A u \in AllSemas :
        /\ NoDup(waiters[u])'
        /\ waiters[u] = <<>> => waiters'[u] = <<>>
        /\ u \in bs => waiters'[u] = <<>>
        /\ u \notin bs => Elems(waiters[u])' = Elems(waiters[u]) \ {p}
  BY DEF ReleaseEffects
<1>a. status'[p] # "running" /\ (status'[p] = "waiting" => status[p] = "waiting" /\ ~alive'[p])
  BY DEF Demoted, TypeOK
<1>3. /\ alive'[p] => alive[p] /\ alive' = alive
      /\ \A r \in Procs : r # p => alive'[r] = alive[r]
  BY DEF TypeOK
<1>4. ControlOK'
  <2>1. SUFFICES ASSUME NEW r \in Procs
                 PROVE  /\ Running(r)' => alive'[r] /\ onSemaphore'[r] = nullSemaphore
                        /\ status'[r] = "waiting" =>
                             /\ pc[r] = "waited"
                             /\ alive'[r] /\ onSemaphore'[r] = nullSemaphore => target[r] = nullSemaphore
                        /\ onSemaphore'[r] # nullSemaphore =>
                             /\ status'[r] \in {"waiting", "suspended"}
                             /\ pc[r] = "waited" /\ target[r] = onSemaphore'[r]
                             /\ MayWait(sleepTime[r]) /\ alive'[r]
                        /\ pc[r] = "waitYield" => MayWait(sleepTime[r])
    BY DEF ControlOK
  <2>2. CASE r = p
    BY <1>3, <1>a, <2>2 DEF WaitInv, ControlOK, Running
  <2>3. CASE r # p
    BY <1>1, <1>3, <2>3 DEF WaitInv, ControlOK, Running
  <2>4. QED  BY <2>2, <2>3
<1>5. WaitersAgree'
  <2>1. ASSUME NEW u \in AllSemas, NEW r \in Procs
        PROVE  r \in Elems(waiters[u])' <=> status'[r] = "waiting" /\ onSemaphore'[r] = u
    <3>1. u # nullSemaphore
      BY SemasType
    <3>2. r \in Elems(waiters[u]) <=> status[r] = "waiting" /\ onSemaphore[r] = u
      BY DEF WaitInv, WaitersAgree
    <3>3. r \in Elems(waiters[u])' <=> r \in Elems(waiters[u]) /\ r # p /\ u \notin bs
      BY <1>2, EmptyElems
    <3>4. CASE r = p
      <4>1. ~(status'[p] = "waiting" /\ onSemaphore'[p] = u)
        BY <1>a, <3>1 DEF Demoted
      <4>2. QED  BY <3>3, <3>4, <4>1
    <3>5. CASE r # p
      BY <1>1, <3>1, <3>2, <3>3, <3>5 DEF Running
    <3>6. QED  BY <3>4, <3>5
  <2>2. QED  BY <1>2, <2>1, WaitersAgreeIf
<1>6. NoLostWakeup'
  BY <1>2, SemasType DEF NoLostWakeup
<1>7. BarriersOK'
  <2>1. \A b \in Barriers : count'[b] = 0 /\ (~blocking'[b] => waiters'[b] = <<>>)
    BY <1>1, <1>2, SemasType DEF WaitInv, BarriersOK
  <2>2. ASSUME NEW q \in Procs, ~alive'[q] PROVE ~blocking'[DeathWaiters(q)]
    <3>1. CASE ~alive[q]
      BY <1>1, <3>1, BarriersType DEF WaitInv, BarriersOK
    <3>2. CASE alive[q]
      BY <1>1, <1>3, <2>2, <3>2, BarriersType
    <3>3. QED  BY <3>1, <3>2
  <2>3. ASSUME NEW q \in Procs, status'[q] \in {"suspended", "dead"}
        PROVE  ~blocking'[SuspensionWaiters(q)]
    <3>1. CASE q = p
      BY <1>1, <3>1, BarriersType
    <3>2. CASE q # p
      <4>1. status[q] \in {"suspended", "dead"}
        BY <1>1, <2>3, <3>2
      <4>2. QED  BY <1>1, <4>1, BarriersType DEF WaitInv, BarriersOK
    <3>3. QED  BY <3>1, <3>2
  <2>4. QED  BY <2>1, <2>2, <2>3 DEF BarriersOK
<1>8. QED  BY <1>4, <1>5, <1>6, <1>7 DEF WaitInv

LEMMA ReleaseAndMoveWait ==
  ASSUME TypeOK, WaitInv, NEW p \in Procs, NEW bs \in SUBSET Barriers,
         NEW dest \in {"suspendedQ", "noQueue"}, ReleaseAndMove(p, bs, dest),
         SuspensionWaiters(p) \in bs,
         \/ alive' = alive
         \/ /\ alive' = [alive EXCEPT ![p] = FALSE]
            /\ dest = "noQueue" /\ DeathWaiters(p) \in bs,
         \A s \in Semas : count'[s] > 0 => waiters[s] = <<>>,
         \A b \in Barriers : count'[b] = count[b],
         UNCHANGED <<sleepTime, pc, target>>
  PROVE  WaitInv'
<1>1. /\ status'[p] = IF dest = "suspendedQ" THEN "suspended" ELSE "dead"
      /\ onSemaphore'[p] = IF dest = "suspendedQ" THEN onSemaphore[p] ELSE nullSemaphore
      /\ ReleaseEffects(p, bs)
  BY ReleaseAndMoveEffects DEF WaitInv
<1>2. QED  BY <1>1, ReleaseWait

\* A process that waits may do so: its timeout is not immediate.
LEMMA SuspendAgainWaits ==
  ASSUME TypeOK, NEW p \in Procs, NEW s, SuspendAgain(p, s), MayWait(sleepTime[p])
  PROVE  SuspendOnSemaphore(p, s)
<1>1. ~Immediate(sleepTime[p])
  BY DEF Immediate, MayWait, TypeOK
<1>2. QED  BY <1>1 DEF SuspendAgain

LEMMA ResumeWait ==
  ASSUME TypeOK, WaitInv, NEW p \in Procs, NEW q \in Procs, Resume(p, q),
         status[q] = "suspended"
  PROVE  WaitInv'
<1> DEFINE s == onSemaphore[q]
<1>1. /\ blocking' = [blocking EXCEPT ![SuspensionWaiters(q)] = TRUE]
      /\ UNCHANGED <<alive, pc, target>>
  BY DEF Resume, userVars
<1>2. CASE SuspendAgain(q, s) /\ (\/ s \in Semas /\ count[s] = 0
                                  \/ s \in Barriers /\ blocking'[s])
  <2>1. s \in AllSemas /\ s # nullSemaphore
    BY <1>2, SemasType
  <2>2. MayWait(sleepTime[q]) /\ alive[q] /\ pc'[q] = "waited" /\ target'[q] = s
    BY <1>1, <2>1 DEF WaitInv, ControlOK
  <2>3. s \in Semas => count[s] = 0
    BY <1>2, SemasType
  <2>4. s \in Barriers => blocking'[s]
    BY <1>2, SemasType
  <2>5. \A r \in Procs : r # q => blocking'[SuspensionWaiters(r)] = blocking[SuspensionWaiters(r)]
    BY <1>1, BarriersType, BarriersDiffer DEF TypeOK
  <2>6. /\ alive' = alive
        /\ \A r \in Procs : r # q => pc'[r] = pc[r] /\ target'[r] = target[r]
        /\ blocking' = blocking \/ blocking' = [blocking EXCEPT ![SuspensionWaiters(q)] = TRUE]
    BY <1>1
  <2> HIDE DEF s
  <2>7. SuspendOnSemaphore(q, s)
    BY <1>2, <2>2, SuspendAgainWaits
  <2>8. QED  BY <2>1, <2>2, <2>3, <2>4, <2>5, <2>6, <2>7, SuspendOnSemaphoreWait
<1>3. CASE /\ MoveToQueue(To(q, "readyQ"), {})
           /\ onSemaphore' = [onSemaphore EXCEPT ![q] = nullSemaphore]
           /\ UNCHANGED <<sleepTime, waiters>>
           /\ \A u \in AllSemas : count'[u] > 0 => count[u] > 0
           /\ \A b \in Barriers : count'[b] = count[b]
  <2>1. status' = [r \in Procs |-> IF r = q THEN "ready" ELSE Demoted(r)]
    <3>1. "readyQ" \in Places /\ StatusIn["readyQ"] = "ready"
      BY DEF Places, Queues, StatusIn
    <3>2. QED  BY <1>3, <3>1, MoveOneStatus
  <2>2. \A r \in Procs : r # q => \/ status'[r] = status[r]
                                  \/ Running(r) /\ status'[r] = "ready"
    BY <2>1 DEF Demoted, Running
  <2>3. /\ onSemaphore'[q] = nullSemaphore /\ status'[q] = "ready"
        /\ \A r \in Procs : r # q => onSemaphore'[r] = onSemaphore[r]
    BY <1>3, <2>1 DEF TypeOK
  <2>4. ControlOK'
    BY <1>1, <1>3, <2>2, <2>3 DEF WaitInv, ControlOK, Running
  <2>5. WaitersAgree'
    BY <1>3, <2>2, <2>3 DEF WaitInv, WaitersAgree, Running
  <2>6. NoLostWakeup'
    BY <1>3, SemasType DEF WaitInv, NoLostWakeup
  <2>7. BarriersOK'
    <3>1. \A b \in Barriers : count'[b] = 0 /\ (~blocking'[b] => waiters'[b] = <<>>)
      BY <1>1, <1>3, SemasType DEF WaitInv, BarriersOK, TypeOK
    <3>2. \A r \in Procs : ~alive'[r] => ~blocking'[DeathWaiters(r)]
      BY <1>1, BarriersType, BarriersDiffer DEF WaitInv, BarriersOK, TypeOK
    <3>3. \A r \in Procs : r # q => blocking'[SuspensionWaiters(r)] = blocking[SuspensionWaiters(r)]
      BY <1>1, BarriersType, BarriersDiffer DEF TypeOK
    <3>4. \A r \in Procs : status'[r] \in {"suspended", "dead"} => ~blocking'[SuspensionWaiters(r)]
      BY <2>2, <2>3, <3>3 DEF WaitInv, BarriersOK
    <3>5. QED  BY <3>1, <3>2, <3>4 DEF BarriersOK
  <2>8. QED  BY <2>4, <2>5, <2>6, <2>7 DEF WaitInv
<1>4. CASE s \in Semas /\ count[s] > 0 /\ Acquire(q, s)
  <2>1. \A u \in AllSemas : count'[u] > 0 => count[u] > 0
    BY <1>4, SemasType DEF Acquire, TypeOK
  <2>2. \A b \in Barriers : count'[b] = count[b]
    BY <1>4, SemasType DEF Acquire, TypeOK
  <2>3. QED  BY <1>3, <1>4, <2>1, <2>2, <1>2 DEF Resume
<1>5. QED  BY <1>2, <1>3, <1>4 DEF Resume

LEMMA FastSignalCount ==
  ASSUME TypeOK, WaitInv, NEW p, NEW s \in Semas, NEW b, waiters[s] = <<>>, FastSignal(p, s, b)
  PROVE  /\ \A u \in AllSemas : count'[u] > 0 => waiters[u] = <<>>
         /\ \A c \in Barriers : count'[c] = count[c]
<1>1. \A u \in AllSemas : u # s => count'[u] = count[u]
  BY DEF FastSignal, TypeOK
<1>2. \A u \in AllSemas : count[u] > 0 => waiters[u] = <<>>
  BY SemasType DEF WaitInv, NoLostWakeup, BarriersOK
<1>3. QED  BY <1>1, <1>2, SemasType

LEMMA AcquireCount ==
  ASSUME TypeOK, WaitInv, NEW p, NEW s \in Semas, count[s] > 0, Acquire(p, s)
  PROVE  /\ \A u \in AllSemas : count'[u] > 0 => waiters[u] = <<>>
         /\ \A c \in Barriers : count'[c] = count[c]
<1>1. \A u \in AllSemas : u # s => count'[u] = count[u]
  BY DEF Acquire, TypeOK
<1>2. \A u \in AllSemas : count[u] > 0 => waiters[u] = <<>>
  BY SemasType DEF WaitInv, NoLostWakeup, BarriersOK
<1>3. QED  BY <1>1, <1>2, SemasType

LEMMA SameCount ==
  ASSUME WaitInv, count' = count
  PROVE  /\ \A u \in AllSemas : count'[u] > 0 => waiters[u] = <<>>
         /\ \A c \in Barriers : count'[c] = count[c]
BY SemasType DEF WaitInv, NoLostWakeup, BarriersOK

LEMMA SemaphoreSignalWait ==
  ASSUME TypeOK, WaitInv, NEW p, NEW s \in Semas, SemaphoreSignal(p, s),
         UNCHANGED <<sleepTime, blocking, alive>>,
         \A r \in Procs : \/ pc'[r] = pc[r] /\ target'[r] = target[r]
                          \/ Running(r) /\ pc'[r] = "idle"
  PROVE  WaitInv'
<1>1. CASE waiters[s] = <<>>
  <2>1. /\ \A u \in AllSemas : count'[u] > 0 => waiters[u] = <<>>
        /\ \A c \in Barriers : count'[c] = count[c]
    BY <1>1, FastSignalCount DEF SemaphoreSignal
  <2>2. status' = [r \in Procs |-> Demoted(r)] /\ UNCHANGED <<waiters, onSemaphore>>
    BY <1>1, DemoteOnlyStatus DEF SemaphoreSignal
  <2>3. status' \in [Procs -> Statuses]
    BY <2>2, DemotedType
  <2>4. QED  BY <2>1, <2>2, <2>3, QuietWait
<1>2. CASE waiters[s] # <<>>
  BY <1>2, TransferWait DEF SemaphoreSignal
<1>3. QED  BY <1>1, <1>2

LEMMA WaitTimeOutWait ==
  ASSUME TypeOK, WaitInv, NEW p \in Procs, NEW s \in AllSemas, NEW ms \in Int,
         ms = timeoutInfinity \/ ms >= 0, WaitTimeOut(p, s, ms)
  PROVE  WaitInv'
<1>1. /\ Running(p) /\ ms # 0
      /\ sleepTime' = [sleepTime EXCEPT ![p] = ms]
      /\ UNCHANGED <<status, waiters, onSemaphore, blocking, alive>>
  BY DEF WaitTimeOut, schedVars
<1>2. MayWait(ms)
  BY <1>1 DEF MayWait
<1>3. \A r \in Procs :
        \/ pc'[r] = pc[r] /\ target'[r] = target[r] /\ sleepTime'[r] = sleepTime[r]
        \/ Running(r) /\ (pc'[r] = "waitYield" => MayWait(sleepTime'[r]))
  BY <1>1, <1>2 DEF WaitTimeOut, Goto, TypeOK
<1>4. /\ \A u \in AllSemas : count'[u] > 0 => waiters[u] = <<>>
      /\ \A c \in Barriers : count'[c] = count[c]
  <2>1. CASE count[s] > 0 /\ Acquire(p, s)
    <3>1. s \in Semas
      BY <2>1, SemasType DEF WaitInv, BarriersOK
    <3>2. QED  BY <2>1, <3>1, AcquireCount
  <2>2. CASE count' = count
    BY <2>2, SameCount
  <2>3. QED  BY <2>1, <2>2 DEF WaitTimeOut
<1>5. status' \in [Procs -> Statuses]
  BY <1>1 DEF TypeOK
<1>6. QED  BY <1>1, <1>3, <1>4, <1>5, QuietWait

LEMMA SemaphoreWaitWait ==
  ASSUME TypeOK, TargetsOK, WaitInv, NEW p \in Procs, SemaphoreWait(p)
  PROVE  WaitInv'
<1> DEFINE s == target[p]
<1>1. /\ s \in AllSemas /\ Running(p) /\ status[p] # "waiting"
      /\ pc'[p] = "waited" /\ target'[p] = s
      /\ \A r \in Procs : r # p => pc'[r] = pc[r] /\ target'[r] = target[r]
      /\ UNCHANGED <<blocking, alive>>
  BY DEF SemaphoreWait, TargetsOK, Goto, TypeOK, Running
<1>2. MayWait(sleepTime[p]) /\ alive[p]
  BY <1>1 DEF WaitInv, ControlOK, SemaphoreWait
<1>3. CASE /\ DemoteOnly /\ UNCHANGED <<waiters, onSemaphore, sleepTime>>
           /\ \A u \in AllSemas : count'[u] > 0 => waiters[u] = <<>>
           /\ \A c \in Barriers : count'[c] = count[c]
  <2>1. status' = [r \in Procs |-> Demoted(r)]
    BY <1>3, DemoteOnlyStatus
  <2>2. status' \in [Procs -> Statuses]
    BY <2>1, DemotedType
  <2>3. \A r \in Procs :
          \/ pc'[r] = pc[r] /\ target'[r] = target[r] /\ sleepTime'[r] = sleepTime[r]
          \/ Running(r) /\ (pc'[r] = "waitYield" => MayWait(sleepTime'[r]))
    BY <1>1, <1>3
  <2>4. QED  BY <1>1, <1>3, <2>1, <2>2, <2>3, QuietWait
<1>4. CASE Passes(s) /\ s \in Semas /\ Acquire(p, s) /\ DemoteOnly
           /\ UNCHANGED <<waiters, onSemaphore, sleepTime>>
  <2>1. count[s] > 0
    BY <1>4, SemasType DEF Passes
  <2> HIDE DEF s
  <2>2. QED  BY <1>3, <1>4, <2>1, AcquireCount
<1>5. CASE DemoteOnly /\ UNCHANGED <<semaVars, sleepTime>>
  BY <1>3, <1>5, SameCount DEF semaVars
<1>6. CASE ~Passes(s) /\ SuspendOnSemaphore(p, s)
  <2>1. /\ s \in Semas => count[s] = 0
        /\ s \in Barriers => blocking'[s]
    BY <1>1, <1>6, SemasType DEF Passes, TypeOK
  <2>2. \A r \in Procs : r # p => blocking'[SuspensionWaiters(r)] = blocking[SuspensionWaiters(r)]
    BY <1>1
  <2> HIDE DEF s
  <2>3. QED  BY <1>1, <1>2, <1>6, <2>1, <2>2, SuspendOnSemaphoreWait
<1>7. QED  BY <1>4, <1>5, <1>6 DEF SemaphoreWait

LEMMA SleepWait ==
  ASSUME TypeOK, WaitInv, NEW p \in Procs, NEW ms \in Int,
         ms = timeoutInfinity \/ ms >= 0, Sleep(p, ms)
  PROVE  WaitInv'
<1>1. /\ Running(p) /\ pc'[p] = "waited" /\ target'[p] = nullSemaphore
      /\ \A r \in Procs : r # p => pc'[r] = pc[r] /\ target'[r] = target[r]
      /\ UNCHANGED <<waiters, onSemaphore, blocking, alive, count>>
      /\ MoveToWaitingQ(p, ms)
  BY DEF Sleep, Goto, TypeOK, semaVars
<1>2. \A r \in Procs : r # p => sleepTime'[r] = sleepTime[r]
  BY <1>1 DEF MoveToWaitingQ, Immediate, TypeOK
<1>3. /\ \A u \in AllSemas : count'[u] > 0 => waiters[u] = <<>>
      /\ \A c \in Barriers : count'[c] = count[c]
  BY <1>1, SameCount
<1>4. CASE DemoteOnly
  <2>1. status' = [r \in Procs |-> Demoted(r)]
    BY <1>4, DemoteOnlyStatus
  <2>2. status' \in [Procs -> Statuses]
    BY <2>1, DemotedType
  <2>3. \A r \in Procs :
          \/ pc'[r] = pc[r] /\ target'[r] = target[r] /\ sleepTime'[r] = sleepTime[r]
          \/ Running(r) /\ (pc'[r] = "waitYield" => MayWait(sleepTime'[r]))
    BY <1>1, <1>2
  <2>4. QED  BY <1>1, <1>3, <2>1, <2>2, <2>3, QuietWait
<1>5. CASE \E timed : MoveToQueue(To(p, "waitingQ"), timed)
  <2>1. status' = [r \in Procs |-> IF r = p THEN "waiting" ELSE Demoted(r)]
    <3>1. "waitingQ" \in Places /\ StatusIn["waitingQ"] = "waiting"
      BY DEF Places, Queues, StatusIn
    <3>2. QED  BY <1>5, <3>1, MoveOneStatus
  <2>2. \A r \in Procs : r # p => \/ status'[r] = status[r]
                                  \/ Running(r) /\ status'[r] = "ready"
    BY <2>1 DEF Demoted, Running
  <2>3. status'[p] = "waiting" /\ onSemaphore[p] = nullSemaphore /\ alive[p]
    BY <1>1, <2>1 DEF WaitInv, ControlOK
  <2>4. ControlOK'
    BY <1>1, <1>2, <2>2, <2>3 DEF WaitInv, ControlOK, Running
  <2>5. WaitersAgree'
    <3>1. \A u \in AllSemas : u # nullSemaphore
      BY SemasType
    <3>2. \A u \in AllSemas, r \in Procs :
            r \in Elems(waiters[u])' <=> status'[r] = "waiting" /\ onSemaphore'[r] = u
      BY <1>1, <2>2, <2>3, <3>1 DEF WaitInv, WaitersAgree, Running
    <3>3. \A u \in AllSemas : NoDup(waiters[u])'
      BY <1>1, WaitersNoDup DEF WaitInv
    <3>4. QED  BY <3>2, <3>3, WaitersAgreeIf
  <2>6. NoLostWakeup' /\ BarriersOK'
    BY <1>1, <2>2, <2>3 DEF WaitInv, NoLostWakeup, BarriersOK
  <2>7. QED  BY <2>4, <2>5, <2>6 DEF WaitInv
<1>6. QED  BY <1>1, <1>4, <1>5 DEF MoveToWaitingQ, Immediate

LEMMA KillWait ==
  ASSUME TypeOK, WaitInv, NEW q \in Procs, Kill(q),
         alive' = alive \/ alive' = [alive EXCEPT ![q] = FALSE],
         \A s \in Semas : count'[s] > 0 => waiters[s] = <<>>,
         \A b \in Barriers : count'[b] = count[b],
         UNCHANGED <<sleepTime, pc, target>>
  PROVE  WaitInv'
<1> DEFINE bs == {SuspensionWaiters(q), DeathWaiters(q)}
<1>1. bs \in SUBSET Barriers
  BY BarriersType
<1>2. ReleaseAndMove(q, bs, "noQueue")
  BY DEF Kill
<1>3. SuspensionWaiters(q) \in bs /\ DeathWaiters(q) \in bs
  OBVIOUS
<1> HIDE DEF bs
<1>4. QED  BY <1>1, <1>2, <1>3, ReleaseAndMoveWait

LEMMA UnwindProtectCount ==
  ASSUME TypeOK, TargetsOK, WaitInv, NEW q \in Procs, UnwindProtect(q)
  PROVE  /\ \A u \in AllSemas : count'[u] > 0 => waiters[u] = <<>>
         /\ \A c \in Barriers : count'[c] = count[c]
<1>1. CASE /\ pc[q] = "critical" /\ waiters[target[q]] = <<>>
           /\ FastSignal(q, target[q], FALSE)
  <2>1. target[q] \in Semas
    BY <1>1, SemasType DEF TargetsOK
  <2>2. QED  BY <1>1, <2>1, FastSignalCount
<1>2. CASE count' = count
  BY <1>2, SameCount
<1>3. QED  BY <1>1, <1>2 DEF UnwindProtect

LEMMA WaitStep ==
  ASSUME TypeOK, TargetsOK, QueuesSound, WaitInv, ValidTimeouts, [Next]_vars
  PROVE  WaitInv'
<1> USE DEF userVars
<1>0. CASE UNCHANGED vars
  BY <1>0 DEF vars, schedVars, semaVars, WaitInv, ControlOK, WaitersAgree, NoLostWakeup,
              BarriersOK, Running
<1>a. count' = count => /\ \A u \in AllSemas : count'[u] > 0 => waiters[u] = <<>>
                        /\ \A c \in Barriers : count'[c] = count[c]
  BY SameCount
<1>b. status \in [Procs -> Statuses]
  BY DEF TypeOK
<1>c. [r \in Procs |-> Demoted(r)] \in [Procs -> Statuses]
  BY DemotedType
<1>1. ASSUME NEW p \in Procs, Schedule(p) PROVE WaitInv'
  <2>1. /\ status' = [status EXCEPT ![p] = "running"]
        /\ status[p] \in {"ready", "running"} /\ alive[p]
        /\ UNCHANGED <<sleepTime, semaVars, blocking, alive, userVars>>
    BY <1>1 DEF Schedule, QueuesSound, TypeOK, Queues
  <2>2. onSemaphore[p] = nullSemaphore
    BY <2>1 DEF WaitInv, ControlOK
  <2>3. \A r \in Procs : r # p => status'[r] = status[r]
    BY <2>1 DEF TypeOK
  <2>4. status'[p] = "running"
    BY <2>1 DEF TypeOK
  <2>5. ControlOK'
    BY <2>1, <2>2, <2>3, <2>4 DEF WaitInv, ControlOK, Running, semaVars
  <2>6. WaitersAgree'
    BY <2>1, <2>3, <2>4 DEF WaitInv, WaitersAgree, semaVars
  <2>7. NoLostWakeup' /\ BarriersOK'
    BY <2>1, <2>3, <2>4 DEF WaitInv, NoLostWakeup, BarriersOK, semaVars
  <2>8. QED  BY <2>5, <2>6, <2>7 DEF WaitInv
<1>2. ASSUME NEW p \in Procs, Preempt(p) PROVE WaitInv'
  BY <1>2, <1>a, <1>c, DemoteOnlyStatus, QuietWait DEF Preempt, semaVars
<1>3. ASSUME NEW p \in Procs, WaitReturn(p) PROVE WaitInv'
  <2>1. \A r \in Procs :
          \/ pc'[r] = pc[r] /\ target'[r] = target[r] /\ sleepTime'[r] = sleepTime[r]
          \/ Running(r) /\ (pc'[r] = "waitYield" => MayWait(sleepTime'[r]))
    BY <1>3 DEF WaitReturn, Goto, TypeOK
  <2>2. UNCHANGED <<status, count, waiters, onSemaphore, blocking, alive>>
    BY <1>3 DEF WaitReturn, schedVars
  <2>3. QED  BY <1>a, <1>b, <2>1, <2>2, QuietWait
<1>4. ASSUME NEW p \in Procs, NEW s \in Semas, UncheckedSignal(p, s) PROVE WaitInv'
  <2>1. \A r \in Procs :
          \/ pc'[r] = pc[r] /\ target'[r] = target[r] /\ sleepTime'[r] = sleepTime[r]
          \/ Running(r) /\ (pc'[r] = "waitYield" => MayWait(sleepTime'[r]))
    BY <1>4 DEF UncheckedSignal, Goto, TypeOK
  <2>2. UNCHANGED <<status, waiters, onSemaphore, blocking, alive>>
    BY <1>4 DEF UncheckedSignal, schedVars
  <2>3. /\ \A u \in AllSemas : count'[u] > 0 => waiters[u] = <<>>
        /\ \A c \in Barriers : count'[c] = count[c]
    BY <1>4, <1>a, FastSignalCount DEF UncheckedSignal
  <2>4. QED  BY <1>b, <2>1, <2>2, <2>3, QuietWait
<1>5. ASSUME NEW p \in Procs, YieldSignal(p) PROVE WaitInv'
  <2>1. target[p] \in Semas /\ SemaphoreSignal(p, target[p])
    BY <1>5 DEF YieldSignal, TargetsOK
  <2>2. \A r \in Procs : \/ pc'[r] = pc[r] /\ target'[r] = target[r]
                         \/ Running(r) /\ pc'[r] = "idle"
    BY <1>5 DEF YieldSignal, Goto, TypeOK
  <2>3. QED  BY <1>5, <2>1, <2>2, SemaphoreSignalWait DEF YieldSignal
<1>6. ASSUME NEW s \in Events, SigIO(s) PROVE WaitInv'
  BY <1>6, SemaphoreSignalWait, SemasType DEF SigIO
<1>7. ASSUME NEW p \in Procs, NEW s \in Semas, Bypass(p, s) PROVE WaitInv'
  <2>1. \A r \in Procs :
          \/ pc'[r] = pc[r] /\ target'[r] = target[r] /\ sleepTime'[r] = sleepTime[r]
          \/ Running(r) /\ (pc'[r] = "waitYield" => MayWait(sleepTime'[r]))
    BY <1>7 DEF Bypass, Goto, TypeOK
  <2>2. UNCHANGED <<status, count, waiters, onSemaphore, blocking, alive>>
    BY <1>7 DEF Bypass, schedVars, semaVars
  <2>3. QED  BY <1>a, <1>b, <2>1, <2>2, QuietWait
<1>9. ASSUME NEW p \in Procs, NEW q \in Procs, Suspend(p, q) PROVE WaitInv'
  <2>1. CASE status[q] = "suspended"
    BY <1>9, <1>a, <1>c, <2>1, DemoteOnlyStatus, QuietWait DEF Suspend
  <2>2. CASE status[q] # "suspended"
    <3>1. ReleaseAndMove(q, {SuspensionWaiters(q)}, "suspendedQ")
      BY <1>9, <2>2 DEF Suspend
    <3>2. /\ {SuspensionWaiters(q)} \in SUBSET Barriers
          /\ "suspendedQ" \in {"suspendedQ", "noQueue"}
          /\ SuspensionWaiters(q) \in {SuspensionWaiters(q)}
      BY BarriersType
    <3>3. /\ alive' = alive /\ UNCHANGED <<sleepTime, pc, target>>
          /\ \A s \in Semas : count'[s] > 0 => waiters[s] = <<>>
          /\ \A b \in Barriers : count'[b] = count[b]
      BY <1>9, <1>a, SemasType DEF Suspend
    <3>4. QED  BY <3>1, <3>2, <3>3, ReleaseAndMoveWait
  <2>3. QED  BY <2>1, <2>2
<1>10. ASSUME NEW p \in Procs, NEW q \in Procs, Resume(p, q) PROVE WaitInv'
  <2>1. CASE status[q] = "suspended"
    BY <1>10, <2>1, ResumeWait
  <2>2. CASE status[q] # "suspended"
    BY <1>10, <1>a, <1>c, <2>2, DemoteOnlyStatus, QuietWait DEF Resume, semaVars
  <2>3. QED  BY <2>1, <2>2
<1>11. ASSUME NEW p \in Procs, NEW q \in Procs, Abort(p, q) PROVE WaitInv'
  <2>1. /\ \A u \in AllSemas : count'[u] > 0 => waiters[u] = <<>>
        /\ \A c \in Barriers : count'[c] = count[c]
    BY <1>11, UnwindProtectCount DEF Abort
  <2>2. QED  BY <1>11, <2>1, KillWait, SemasType DEF Abort
<1>12. ASSUME NEW p \in Procs, Terminate(p) \/ NoProcessError(p) PROVE WaitInv'
  BY <1>12, <1>a, KillWait, SemasType DEF Terminate, NoProcessError
<1>13. \A q \in Watched : SuspensionWaiters(q) \in AllSemas /\ DeathWaiters(q) \in AllSemas
  BY BarriersType, SemasType, SemaphoreAssumption
<1>14. ASSUME NEW p \in Procs, NEW s \in AllSemas, NEW ms \in Timeouts \cup {timeoutInfinity},
              WaitTimeOut(p, s, ms)
       PROVE  WaitInv'
  <2>1. ms \in Int /\ (ms = timeoutInfinity \/ ms >= 0)
    BY SemaphoreAssumption DEF ValidTimeouts, timeoutInfinity
  <2>2. QED  BY <1>14, <2>1, WaitTimeOutWait
<1>15. ASSUME NEW p \in Procs, NEW ms \in Timeouts, Sleep(p, ms) PROVE WaitInv'
  <2>1. ms \in Int /\ (ms = timeoutInfinity \/ ms >= 0)
    BY SemaphoreAssumption DEF ValidTimeouts
  <2>2. QED  BY <1>15, <2>1, SleepWait
<1>16. QED
  BY <1>0, <1>1, <1>2, <1>3, <1>4, <1>5, <1>6, <1>7, <1>9, <1>10, <1>11, <1>12, <1>13,
     <1>14, <1>15, SemasType, SemaphoreWaitWait, SigRealTimerWait
     DEF Next

LEMMA WaitInit == Init => WaitInv
<1> SUFFICES ASSUME Init PROVE WaitInv
  OBVIOUS
<1>1. ControlOK
  BY DEF Init, ControlOK, Running
<1>2. WaitersAgree
  BY EmptyElems DEF Init, WaitersAgree, NoDup
<1>3. NoLostWakeup
  BY SemasType DEF Init, NoLostWakeup
<1>4. BarriersOK
  BY SemasType DEF Init, BarriersOK
<1>5. QED  BY <1>1, <1>2, <1>3, <1>4 DEF WaitInv

\* What the theorems below take from the previous ones.
SchedInv == TypeOK /\ TargetsOK /\ QueuesAgree /\ TimersAreForWaiters

LEMMA SchedInvariant == Spec => []SchedInv
BY TypeCorrect, QueuesCorrect, PTL DEF SchedInv

LEMMA WaitInvariant ==
  ASSUME ValidTimeouts
  PROVE  Spec => []WaitInv
<1>1. Init => WaitInv
  BY WaitInit
<1>2. SchedInv /\ WaitInv /\ [Next]_vars => WaitInv'
  BY WaitStep, SoundIf, ValidTimeouts DEF SchedInv
<1>3. QED  BY <1>1, <1>2, SchedInvariant, PTL DEF Spec

\* As long as nobody passes a negative time-out, the queue of a semaphore
\* holds exactly the processes that wait for it, whatever is suspended,
\* resumed, timed out or aborted meanwhile (semaphore.self:483, 641, 654).
THEOREM WaitersCorrect ==
  ASSUME ValidTimeouts
  PROVE  Spec => []WaitersAgree
<1>1. WaitInv => WaitersAgree
  BY DEF WaitInv
<1>2. QED  BY <1>1, WaitInvariant, ValidTimeouts, PTL

\* Nobody waits for a semaphore that has a permit (semaphore.self:667, 697).
THEOREM NoLostWakeups ==
  ASSUME ValidTimeouts
  PROVE  Spec => []NoLostWakeup
<1>1. WaitInv => NoLostWakeup
  BY DEF WaitInv
<1>2. QED  BY <1>1, WaitInvariant, ValidTimeouts, PTL

LEMMA NoMissedReleaseIf ==
  ASSUME TypeOK, WaitInv
  PROVE  NoMissedRelease
<1> SUFFICES ASSUME NEW p \in Procs, NEW q \in Procs, status[p] = "waiting"
             PROVE  /\ onSemaphore[p] = DeathWaiters(q) => alive[q]
                    /\ onSemaphore[p] = SuspensionWaiters(q) => status[q] \notin {"suspended", "dead"}
  BY DEF NoMissedRelease
<1>1. \A b \in Barriers : onSemaphore[p] = b => waiters[b] # <<>>
  BY EmptyElems, SemasType DEF WaitInv, WaitersAgree
<1>2. QED  BY <1>1, BarriersType DEF WaitInv, BarriersOK, TypeOK

\* waitForDeath and waitForSuspension do not miss the death or suspension they
\* wait for (process.self:1145-1158).
THEOREM NoMissedReleases ==
  ASSUME ValidTimeouts
  PROVE  Spec => []NoMissedRelease
<1>1. SchedInv /\ WaitInv => NoMissedRelease
  BY NoMissedReleaseIf DEF SchedInv
<1>2. QED  BY <1>1, WaitInvariant, SchedInvariant, ValidTimeouts, PTL

-----------------------------------------------------------------------------
(* Who has been granted what. *)

GrantInv == TimedOutIffNotGranted /\ PermitConservation

\* Of the processes only p may change its mind, or dies.
OnlyChanges(p) ==
  \A r \in Procs, s \in Semas :
    r # p /\ alive'[r] => alive[r] /\ (Believes(r, s)' <=> Believes(r, s))

\* No permit moves, and nobody who lives on changes its mind.
LEMMA SameGrants ==
  ASSUME GrantInv, UNCHANGED <<count, granted>>,
         \A r \in Procs, s \in Semas :
           alive'[r] => alive[r] /\ (Believes(r, s)' <=> Believes(r, s))
  PROVE  GrantInv'
BY DEF GrantInv, TimedOutIffNotGranted, PermitConservation

\* p takes a permit of s.
LEMMA AcquireGrant ==
  ASSUME TypeOK, GrantInv, NEW p \in Procs, NEW s \in Semas, count[s] > 0, Acquire(p, s),
         alive[p], OnlyChanges(p),
         \A u \in Semas : ~Believes(p, u) /\ (Believes(p, u)' <=> u = s)
  PROVE  GrantInv'
<1>1. /\ count' = [count EXCEPT ![s] = count[s] - 1]
      /\ granted' = [granted EXCEPT ![s] = granted[s] \cup {p}]
  BY DEF Acquire
<1>2. \A r \in Procs, u \in Semas : r \in granted'[u] <=> r \in granted[u] \/ (r = p /\ u = s)
  BY <1>1 DEF TypeOK
<1>3. TimedOutIffNotGranted'
  BY <1>2 DEF GrantInv, TimedOutIffNotGranted, OnlyChanges
<1>4. PermitConservation'
  <2>1. SUFFICES ASSUME NEW u \in Locks
                 PROVE  /\ count'[u] \in {0, 1}
                        /\ count'[u] = 1 <=> granted'[u] = {}
                        /\ \A q, r \in granted'[u] : q = r
    BY DEF PermitConservation
  <2>2. CASE u = s
    <3>1. count[s] = 1 /\ granted[s] = {}
      BY <2>2 DEF GrantInv, PermitConservation
    <3>2. count'[s] = 0 /\ granted'[s] = {p}
      BY <1>1, <3>1, SemasType DEF TypeOK
    <3>3. QED  BY <2>2, <3>2
  <2>3. CASE u # s
    <3>1. count'[u] = count[u] /\ granted'[u] = granted[u]
      BY <1>1, <2>3, SemasType DEF TypeOK
    <3>2. QED  BY <3>1 DEF GrantInv, PermitConservation
  <2>4. QED  BY <2>2, <2>3
<1>5. QED  BY <1>3, <1>4 DEF GrantInv

\* p gives its permit of a lock back, or signals an event it has no permit of.
LEMMA FastSignalGrant ==
  ASSUME TypeOK, GrantInv, NEW p, NEW s \in Semas, NEW b, FastSignal(p, s, b),
         s \in Locks => p \in granted[s],
         s \in Events => p \notin granted[s],
         OnlyChanges(p),
         p \in Procs => \/ ~alive'[p]
                        \/ /\ alive[p]
                           /\ \A u \in Semas : Believes(p, u)' <=> Believes(p, u) /\ u # s
  PROVE  GrantInv'
<1>1. /\ count' = [count EXCEPT ![s] = IF count[s] < Capacity(s) THEN count[s] + 1 ELSE count[s]]
      /\ granted' = [granted EXCEPT ![s] = granted[s] \ {p}]
  BY DEF FastSignal
<1>2. \A r \in Procs, u \in Semas : r \in granted'[u] <=> r \in granted[u] /\ ~(r = p /\ u = s)
  BY <1>1 DEF TypeOK
<1>3. TimedOutIffNotGranted'
  BY <1>2 DEF GrantInv, TimedOutIffNotGranted, OnlyChanges
<1>4. PermitConservation'
  <2>1. SUFFICES ASSUME NEW u \in Locks
                 PROVE  /\ count'[u] \in {0, 1}
                        /\ count'[u] = 1 <=> granted'[u] = {}
                        /\ \A q, r \in granted'[u] : q = r
    BY DEF PermitConservation
  <2>2. CASE u = s
    <3>1. count[s] = 0 /\ granted[s] = {p}
      BY <2>2 DEF GrantInv, PermitConservation
    <3>2. count'[s] = 1 /\ granted'[s] = {}
      BY <1>1, <2>2, <3>1, SemasType, CapacityType DEF TypeOK
    <3>3. QED  BY <2>2, <3>2
  <2>3. CASE u # s
    <3>1. count'[u] = count[u] /\ granted'[u] = granted[u]
      BY <1>1, <2>3, SemasType DEF TypeOK
    <3>2. QED  BY <3>1 DEF GrantInv, PermitConservation
  <2>4. QED  BY <2>2, <2>3
<1>5. QED  BY <1>3, <1>4 DEF GrantInv

\* p hands its permit of s, or a new one, to the first waiter.
LEMMA TransferGrant ==
  ASSUME TypeOK, WaitInv, GrantInv, NEW p, NEW s \in Semas, waiters[s] # <<>>,
         TransferSemaphore(p, s), UNCHANGED <<sleepTime, alive>>,
         s \in Locks => p \in granted[s],
         s \in Events => p \notin granted[s],
         \A r \in Procs : r # p => pc'[r] = pc[r] /\ target'[r] = target[r],
         p \in Procs => /\ Running(p)
                        /\ \A u \in Semas : Believes(p, u)' <=> Believes(p, u) /\ u # s
  PROVE  GrantInv'
<1>0. Head(waiters[s]) \in Procs /\ Head(waiters[s]) \in Elems(waiters[s])
  BY TailElems, SemasType DEF TypeOK
<1>1. PICK q \in Procs : q = Head(waiters[s]) /\ q \in Elems(waiters[s])
  BY <1>0
<1>2. status[q] = "waiting" /\ onSemaphore[q] = s
  BY <1>1, SemasType DEF WaitInv, WaitersAgree
<1>3. q # p
  BY <1>1, <1>2 DEF Running
<1>4. s # nullSemaphore
  BY SemasType
<1>5. pc[q] = "waited" /\ target[q] = s /\ MayWait(sleepTime[q]) /\ alive[q]
  BY <1>1, <1>2, <1>4 DEF WaitInv, ControlOK
<1>6. /\ onSemaphore' = [onSemaphore EXCEPT ![q] = nullSemaphore]
      /\ granted' = [granted EXCEPT ![s] = (granted[s] \ {p}) \cup {q}]
      /\ count' = count
  BY <1>1 DEF TransferSemaphore
<1>7. sleepTime[q] # 0
  BY <1>5 DEF MayWait, timeoutInfinity
<1>8. \A u \in Semas : ~Believes(q, u) /\ (Believes(q, u)' <=> u = s)
  <2>1. TAKE u \in Semas
  <2>2. ~Believes(q, u)
    BY <1>2, <1>4, <1>5 DEF Believes
  <2>3. onSemaphore'[q] = nullSemaphore
    BY <1>1, <1>6 DEF TypeOK
  <2>4. pc'[q] = "waited" /\ target'[q] = s /\ sleepTime'[q] # 0
    BY <1>1, <1>3, <1>5, <1>7
  <2>5. Believes(q, u)' <=> u = s
    BY <2>3, <2>4 DEF Believes
  <2>6. QED  BY <2>2, <2>5
<1>9. \A r \in Procs, u \in Semas : r # p /\ r # q => (Believes(r, u)' <=> Believes(r, u))
  <2>1. \A r \in Procs : r # q => onSemaphore'[r] = onSemaphore[r]
    BY <1>6 DEF TypeOK
  <2>2. QED  BY <2>1 DEF Believes
<1>10. \A r \in Procs, u \in Semas :
         r \in granted'[u] <=> \/ r \in granted[u] /\ ~(r = p /\ u = s)
                               \/ r = q /\ u = s
  BY <1>3, <1>6 DEF TypeOK
<1>11. TimedOutIffNotGranted'
  BY <1>1, <1>3, <1>8, <1>9, <1>10 DEF GrantInv, TimedOutIffNotGranted
<1>12. PermitConservation'
  <2>1. SUFFICES ASSUME NEW u \in Locks
                 PROVE  /\ count'[u] \in {0, 1}
                        /\ count'[u] = 1 <=> granted'[u] = {}
                        /\ \A v, r \in granted'[u] : v = r
    BY DEF PermitConservation
  <2>2. CASE u = s
    <3>1. count[s] = 0 /\ granted[s] = {p}
      BY <2>2 DEF GrantInv, PermitConservation
    <3>2. count'[s] = 0 /\ granted'[s] = {q}
      BY <1>6, <3>1 DEF TypeOK
    <3>3. QED  BY <2>2, <3>2
  <2>3. CASE u # s
    <3>1. count'[u] = count[u] /\ granted'[u] = granted[u]
      BY <1>6, <2>3, SemasType DEF TypeOK
    <3>2. QED  BY <3>1 DEF GrantInv, PermitConservation
  <2>4. QED  BY <2>2, <2>3
<1>13. QED  BY <1>11, <1>12 DEF GrantInv

\* The processes that are released were on barriers.
LEMMA ReleaseBelieves ==
  ASSUME WaitInv, NEW p \in Procs, NEW bs \in SUBSET Barriers, ReleaseEffects(p, bs),
         UNCHANGED <<sleepTime, pc, target>>
  PROVE  \A r \in Procs, s \in Semas :
           r # p \/ onSemaphore'[r] = onSemaphore[r] => (Believes(r, s)' <=> Believes(r, s))
<1>1. SUFFICES ASSUME NEW r \in Procs, NEW s \in Semas,
                      r # p \/ onSemaphore'[r] = onSemaphore[r]
               PROVE  Believes(r, s)' <=> Believes(r, s)
  OBVIOUS
<1>2. CASE onSemaphore'[r] = onSemaphore[r]
  BY <1>2 DEF Believes
<1>3. CASE onSemaphore'[r] # onSemaphore[r]
  <2>1. onSemaphore[r] \in bs
    BY <1>1, <1>3 DEF ReleaseEffects
  <2>2. onSemaphore[r] \in Barriers /\ onSemaphore[r] # nullSemaphore /\ onSemaphore[r] # s
    BY <2>1, SemasType
  <2>3. target[r] # s
    BY <2>2 DEF WaitInv, ControlOK
  <2>4. QED  BY <2>3 DEF Believes
<1>4. QED  BY <1>2, <1>3

LEMMA ReleaseAndMoveBelieves ==
  ASSUME TypeOK, WaitInv, NEW p \in Procs, NEW bs \in SUBSET Barriers,
         NEW dest \in {"suspendedQ", "noQueue"}, ReleaseAndMove(p, bs, dest),
         UNCHANGED <<sleepTime, pc, target>>
  PROVE  \A r \in Procs, s \in Semas :
           r # p \/ dest = "suspendedQ" => (Believes(r, s)' <=> Believes(r, s))
<1>1. ReleaseEffects(p, bs) /\ (dest = "suspendedQ" => onSemaphore'[p] = onSemaphore[p])
  BY ReleaseAndMoveEffects DEF WaitInv
<1>2. QED  BY <1>1, ReleaseBelieves

\* A process that is outside any wait, or in the middle of one, has nothing.
LEMMA NotBelieves ==
  ASSUME NEW p \in Procs, pc[p] \in {"idle", "waitYield", "bypass"}
  PROVE  \A s \in Semas : ~Believes(p, s)
BY DEF Believes

LEMMA OthersSame ==
  ASSUME NEW p \in Procs,
         \A r \in Procs : r # p => /\ pc'[r] = pc[r] /\ target'[r] = target[r]
                                   /\ onSemaphore'[r] = onSemaphore[r]
                                   /\ sleepTime'[r] = sleepTime[r]
                                   /\ alive'[r] = alive[r]
  PROVE  OnlyChanges(p)
BY DEF OnlyChanges, Believes

LEMMA WaitTimeOutGrant ==
  ASSUME TypeOK, WaitInv, GrantInv, NEW p \in Procs, NEW s \in AllSemas, NEW ms,
         WaitTimeOut(p, s, ms)
  PROVE  GrantInv'
<1>1. /\ Running(p) /\ pc[p] = "idle" /\ ms # 0
      /\ sleepTime' = [sleepTime EXCEPT ![p] = ms]
      /\ UNCHANGED <<onSemaphore, alive>>
  BY DEF WaitTimeOut
<1>2. alive[p] /\ onSemaphore'[p] = nullSemaphore
  BY <1>1 DEF WaitInv, ControlOK
<1>3. \A r \in Procs : r # p => sleepTime'[r] = sleepTime[r]
  BY <1>1 DEF TypeOK
<1>4. CASE count[s] > 0 /\ Acquire(p, s) /\ Goto(p, "waited", s)
  <2>1. s \in Semas
    BY <1>4, SemasType DEF WaitInv, BarriersOK
  <2>2. /\ pc'[p] = "waited" /\ target'[p] = s /\ sleepTime'[p] # 0
        /\ \A r \in Procs : r # p => pc'[r] = pc[r] /\ target'[r] = target[r]
    BY <1>1, <1>4 DEF Goto, TypeOK
  <2>3. OnlyChanges(p)
    BY <1>1, <1>3, <2>2, OthersSame
  <2>4. \A u \in Semas : ~Believes(p, u) /\ (Believes(p, u)' <=> u = s)
    BY <1>1, <1>2, <2>2, NotBelieves DEF Believes
  <2>5. QED  BY <1>2, <1>4, <2>1, <2>3, <2>4, AcquireGrant
<1>5. CASE Goto(p, "waitYield", s) /\ UNCHANGED <<count, granted>>
  <2>1. /\ pc'[p] = "waitYield"
        /\ \A r \in Procs : r # p => pc'[r] = pc[r] /\ target'[r] = target[r]
    BY <1>5 DEF Goto, TypeOK
  <2>2. OnlyChanges(p)
    BY <1>1, <1>3, <2>1, OthersSame
  <2>3. \A u \in Semas : ~Believes(p, u) /\ ~Believes(p, u)'
    BY <1>1, <2>1 DEF Believes
  <2>4. QED  BY <1>1, <1>5, <2>2, <2>3, SameGrants DEF OnlyChanges
<1>6. QED  BY <1>4, <1>5 DEF WaitTimeOut

LEMMA MoveToWaitingQSleepTime ==
  ASSUME TypeOK, NEW p \in Procs, NEW ms, MoveToWaitingQ(p, ms)
  PROVE  /\ \A r \in Procs : r # p => sleepTime'[r] = sleepTime[r]
         /\ ms = sleepTime[p] /\ MayWait(ms) => sleepTime' = sleepTime
<1>1. \A r \in Procs : r # p => sleepTime'[r] = sleepTime[r]
  BY DEF MoveToWaitingQ, Immediate, TypeOK
<1>2. ASSUME ms = sleepTime[p], MayWait(ms) PROVE sleepTime' = sleepTime
  <2>1. ms \in Int /\ ~(0 >= ms /\ ms # timeoutInfinity)
    BY <1>2 DEF MayWait, timeoutInfinity, TypeOK
  <2>2. QED  BY <1>2, <2>1 DEF MoveToWaitingQ, Immediate, TypeOK
<1>3. QED  BY <1>1, <1>2

LEMMA SemaphoreWaitGrant ==
  ASSUME TypeOK, TargetsOK, WaitInv, GrantInv, NEW p \in Procs, SemaphoreWait(p)
  PROVE  GrantInv'
<1>0. PICK s \in AllSemas : s = target[p]
  BY DEF SemaphoreWait, TargetsOK
<1>1. /\ Running(p) /\ pc[p] = "waitYield" /\ s # nullSemaphore
      /\ pc'[p] = "waited" /\ target'[p] = s
      /\ \A r \in Procs : r # p => pc'[r] = pc[r] /\ target'[r] = target[r]
      /\ UNCHANGED alive
  BY <1>0, SemasType DEF SemaphoreWait, Goto, TypeOK
<1>2. alive[p] /\ onSemaphore[p] = nullSemaphore /\ MayWait(sleepTime[p])
  BY <1>1 DEF WaitInv, ControlOK
<1>3. sleepTime[p] # 0
  BY <1>2 DEF MayWait, timeoutInfinity
<1>4. \A u \in Semas : ~Believes(p, u)
  BY <1>1, NotBelieves
<1>5. CASE Passes(s) /\ s \in Semas /\ Acquire(p, s) /\ UNCHANGED <<onSemaphore, sleepTime>>
  <2>1. count[s] > 0
    BY <1>5, SemasType DEF Passes
  <2>2. OnlyChanges(p)
    BY <1>1, <1>5, OthersSame
  <2>3. \A u \in Semas : Believes(p, u)' <=> u = s
    BY <1>1, <1>2, <1>3, <1>5 DEF Believes
  <2>4. QED  BY <1>2, <1>4, <1>5, <2>1, <2>2, <2>3, AcquireGrant
<1>6. CASE s \in Barriers /\ UNCHANGED <<semaVars, sleepTime>>
  <2>1. OnlyChanges(p)
    BY <1>1, <1>6, OthersSame DEF semaVars
  <2>2. \A u \in Semas : ~Believes(p, u)'
    BY <1>1, <1>6, SemasType DEF Believes
  <2>3. QED  BY <1>1, <1>4, <1>6, <2>1, <2>2, SameGrants DEF OnlyChanges, semaVars
<1>7. CASE SuspendOnSemaphore(p, s)
  <2>1. /\ onSemaphore' = [onSemaphore EXCEPT ![p] = s]
        /\ MoveToWaitingQ(p, sleepTime[p])
        /\ UNCHANGED <<count, granted>>
    BY <1>7 DEF SuspendOnSemaphore, JoinQueue
  <2>2. \A r \in Procs : r # p => /\ onSemaphore'[r] = onSemaphore[r]
                                  /\ sleepTime'[r] = sleepTime[r]
    BY <2>1, MoveToWaitingQSleepTime DEF TypeOK
  <2>3. onSemaphore'[p] = s
    BY <2>1 DEF TypeOK
  <2>4. OnlyChanges(p)
    BY <1>1, <2>2, OthersSame
  <2>5. \A u \in Semas : ~Believes(p, u)'
    BY <1>1, <2>3 DEF Believes
  <2>6. QED  BY <1>1, <1>4, <2>1, <2>4, <2>5, SameGrants DEF OnlyChanges
<1>8. QED  BY <1>0, <1>5, <1>6, <1>7 DEF SemaphoreWait

LEMMA WaitReturnGrant ==
  ASSUME TypeOK, WaitInv, GrantInv, NEW p \in Procs, WaitReturn(p)
  PROVE  GrantInv'
<1>0. PICK s : s = target[p]
  OBVIOUS
<1>1. /\ Running(p) /\ pc[p] = "waited"
      /\ UNCHANGED <<sleepTime, count, onSemaphore, alive>>
      /\ \A r \in Procs : r # p => pc'[r] = pc[r] /\ target'[r] = target[r]
  BY DEF WaitReturn, Goto, TypeOK
<1>2. alive[p] /\ onSemaphore[p] = nullSemaphore
  BY <1>1 DEF WaitInv, ControlOK
<1>3. OnlyChanges(p)
  BY <1>1, OthersSame
<1>4. \A u \in Semas : Believes(p, u) <=> u = s /\ sleepTime[p] # 0
  BY <1>0, <1>1, <1>2 DEF Believes
<1>5. CASE s \in Locks /\ sleepTime[p] # 0
  <2>1. pc'[p] = "critical" /\ target'[p] = s /\ granted' = granted
    BY <1>0, <1>5, SemasType DEF WaitReturn, Goto, TypeOK
  <2>2. \A u \in Semas : Believes(p, u)' <=> u = s
    BY <1>5, <2>1 DEF Believes
  <2>3. QED  BY <1>1, <1>3, <1>4, <1>5, <2>1, <2>2, SameGrants DEF OnlyChanges
<1>6. CASE s \in Events /\ sleepTime[p] # 0
  <2>1. pc'[p] = "idle" /\ granted' = [granted EXCEPT ![s] = granted[s] \ {p}]
    BY <1>0, <1>6, SemasType DEF WaitReturn, Goto, TypeOK
  <2>2. \A u \in Semas : ~Believes(p, u)'
    BY <2>1 DEF Believes
  <2>3. \A r \in Procs, u \in Semas : r \in granted'[u] <=> r \in granted[u] /\ ~(r = p /\ u = s)
    BY <2>1 DEF TypeOK
  <2>4. \A u \in Locks : granted'[u] = granted[u] /\ count'[u] = count[u]
    BY <1>1, <1>6, <2>1, SemasType DEF TypeOK
  <2>5. TimedOutIffNotGranted'
    BY <1>1, <1>3, <1>4, <2>2, <2>3 DEF GrantInv, TimedOutIffNotGranted, OnlyChanges
  <2>6. PermitConservation'
    BY <2>4 DEF GrantInv, PermitConservation
  <2>7. QED  BY <2>5, <2>6 DEF GrantInv
<1>7. CASE s \notin Semas \/ sleepTime[p] = 0
  <2>1. pc'[p] = "idle" /\ granted' = granted
    BY <1>0, <1>7, SemasType DEF WaitReturn, Goto, TypeOK
  <2>2. \A u \in Semas : ~Believes(p, u)'
    BY <2>1 DEF Believes
  <2>3. \A u \in Semas : ~Believes(p, u)
    BY <1>4, <1>7
  <2>4. QED  BY <1>1, <1>3, <2>1, <2>2, <2>3, SameGrants DEF OnlyChanges
<1>8. QED  BY <1>5, <1>6, <1>7 DEF Semas

\* What the signaller of s holds before and after it.
LEMMA SignallerHolds ==
  ASSUME TypeOK, WaitInv, GrantInv, NEW p \in Procs, NEW s \in Semas, Running(p),
         \/ pc[p] \in {"critical", "signalYield"} /\ target[p] = s
         \/ pc[p] = "idle" /\ s \in Events,
         pc[p] = "critical" => s \in Locks
  PROVE  /\ s \in Locks => p \in granted[s]
         /\ s \in Events => p \notin granted[s]
         /\ \A u \in Semas : u # s => ~Believes(p, u)
<1>1. alive[p]
  BY DEF WaitInv, ControlOK
<1>2. \A u \in Semas : Believes(p, u) <=> u = s /\ s \in Locks
  BY SemasType DEF Believes
<1>3. QED  BY <1>1, <1>2, SemasType DEF GrantInv, TimedOutIffNotGranted

LEMMA UncheckedSignalGrant ==
  ASSUME TypeOK, WaitInv, GrantInv, NEW p \in Procs, NEW s \in Semas, UncheckedSignal(p, s)
  PROVE  GrantInv'
<1>1. /\ Running(p)
      /\ \/ pc[p] = "critical" /\ s \in Locks /\ s = target[p]
         \/ pc[p] = "idle" /\ s \in Events
      /\ UNCHANGED <<sleepTime, onSemaphore, alive>>
      /\ \A r \in Procs : r # p => pc'[r] = pc[r] /\ target'[r] = target[r]
  BY DEF UncheckedSignal, Goto, TypeOK
<1>2. OnlyChanges(p)
  BY <1>1, OthersSame
<1>3. /\ s \in Locks => p \in granted[s]
      /\ s \in Events => p \notin granted[s]
      /\ \A u \in Semas : u # s => ~Believes(p, u)
  BY <1>1, SignallerHolds
<1>4. alive[p]
  BY <1>1 DEF WaitInv, ControlOK
<1>5. CASE FastSignal(p, s, FALSE) /\ Goto(p, "idle", nullSemaphore)
  <2>1. \A u \in Semas : ~Believes(p, u)'
    BY <1>5 DEF Goto, Believes, TypeOK
  <2>2. QED  BY <1>2, <1>3, <1>4, <1>5, <2>1, FastSignalGrant
<1>6. CASE Goto(p, "signalYield", s) /\ UNCHANGED <<count, granted>>
  <2>1. \A u \in Semas : Believes(p, u)' <=> u = s /\ s \in Locks
    BY <1>6 DEF Goto, Believes, TypeOK
  <2>2. \A u \in Semas : Believes(p, u) <=> u = s /\ s \in Locks
    BY <1>1, SemasType DEF Believes
  <2>3. QED  BY <1>1, <1>2, <1>6, <2>1, <2>2, SameGrants DEF OnlyChanges
<1>7. QED  BY <1>5, <1>6 DEF UncheckedSignal

LEMMA YieldSignalGrant ==
  ASSUME TypeOK, TargetsOK, WaitInv, GrantInv, NEW p \in Procs, YieldSignal(p)
  PROVE  GrantInv'
<1>0. PICK s \in Semas : s = target[p]
  BY DEF YieldSignal, TargetsOK
<1>1. /\ Running(p) /\ pc[p] = "signalYield" /\ pc'[p] = "idle"
      /\ SemaphoreSignal(p, s)
      /\ UNCHANGED <<sleepTime, alive>>
      /\ \A r \in Procs : r # p => pc'[r] = pc[r] /\ target'[r] = target[r]
  BY <1>0 DEF YieldSignal, Goto, TypeOK
<1>2. /\ s \in Locks => p \in granted[s]
      /\ s \in Events => p \notin granted[s]
      /\ \A u \in Semas : u # s => ~Believes(p, u)
  BY <1>0, <1>1, SignallerHolds
<1>3. \A u \in Semas : ~Believes(p, u)'
  BY <1>1 DEF Believes
<1>4. alive[p]
  BY <1>1 DEF WaitInv, ControlOK
<1>5. CASE waiters[s] = <<>>
  <2>1. FastSignal(p, s, TRUE) /\ UNCHANGED onSemaphore
    BY <1>1, <1>5 DEF SemaphoreSignal
  <2>2. OnlyChanges(p)
    BY <1>1, <2>1, OthersSame
  <2>3. QED  BY <1>2, <1>3, <1>4, <2>1, <2>2, FastSignalGrant
<1>6. CASE waiters[s] # <<>>
  <2>1. TransferSemaphore(p, s)
    BY <1>1, <1>6 DEF SemaphoreSignal
  <2>2. QED  BY <1>1, <1>2, <1>3, <1>6, <2>1, TransferGrant
<1>7. QED  BY <1>5, <1>6

LEMMA SigIOGrant ==
  ASSUME TypeOK, WaitInv, GrantInv, NEW s \in Events, SigIO(s)
  PROVE  GrantInv'
<1>1. /\ s \in Semas /\ s \notin Locks /\ nil \notin Procs /\ nil \notin granted[s]
      /\ SemaphoreSignal(nil, s)
      /\ UNCHANGED <<sleepTime, alive, pc, target>>
  BY SemasType DEF SigIO, userVars, TypeOK
<1>2. CASE waiters[s] = <<>>
  <2>1. FastSignal(nil, s, TRUE) /\ UNCHANGED onSemaphore
    BY <1>1, <1>2 DEF SemaphoreSignal
  <2>2. OnlyChanges(nil)
    BY <1>1, <2>1 DEF OnlyChanges, Believes
  <2>3. QED  BY <1>1, <2>1, <2>2, FastSignalGrant
<1>3. CASE waiters[s] # <<>>
  BY <1>1, <1>3, TransferGrant DEF SemaphoreSignal
<1>4. QED  BY <1>2, <1>3

LEMMA SleepGrant ==
  ASSUME TypeOK, GrantInv, NEW p \in Procs, NEW ms, Sleep(p, ms)
  PROVE  GrantInv'
<1>1. /\ pc[p] = "idle" /\ target'[p] = nullSemaphore
      /\ MoveToWaitingQ(p, ms)
      /\ UNCHANGED <<onSemaphore, count, granted, alive>>
      /\ \A r \in Procs : r # p => pc'[r] = pc[r] /\ target'[r] = target[r]
  BY DEF Sleep, Goto, TypeOK, semaVars
<1>2. OnlyChanges(p)
  BY <1>1, MoveToWaitingQSleepTime, OthersSame
<1>3. \A u \in Semas : ~Believes(p, u) /\ ~Believes(p, u)'
  BY <1>1, SemasType DEF Believes
<1>4. QED  BY <1>1, <1>2, <1>3, SameGrants DEF OnlyChanges

LEMMA SigRealTimerGrant ==
  ASSUME TypeOK, QueuesSound, WaitInv, GrantInv, NEW p \in Procs, SigRealTimer(p)
  PROVE  GrantInv'
<1>1. status[p] = "waiting"
  BY DEF SigRealTimer, QueuesSound, TypeOK, Queues
<1>2. /\ onSemaphore' = [onSemaphore EXCEPT ![p] = nullSemaphore]
      /\ sleepTime' = [sleepTime EXCEPT ![p] = 0]
      /\ UNCHANGED <<count, granted, alive, pc, target>>
  BY <1>1 DEF SigRealTimer, userVars
<1>3. \A r \in Procs : r # p => sleepTime'[r] = sleepTime[r] /\ onSemaphore'[r] = onSemaphore[r]
  BY <1>2 DEF TypeOK
<1>4. OnlyChanges(p)
  BY <1>2, <1>3, OthersSame
<1>5. /\ pc[p] = "waited"
      /\ alive[p] => onSemaphore[p] # nullSemaphore \/ target[p] = nullSemaphore
  BY <1>1 DEF WaitInv, ControlOK
<1>6. \A u \in Semas : alive[p] => ~Believes(p, u)
  BY <1>5, SemasType DEF Believes
<1>7. sleepTime'[p] = 0
  BY <1>2 DEF TypeOK
<1>8. \A u \in Semas : ~Believes(p, u)'
  BY <1>2, <1>5, <1>7 DEF Believes
<1>9. QED  BY <1>2, <1>4, <1>6, <1>8, SameGrants DEF OnlyChanges

LEMMA ResumeGrant ==
  ASSUME TypeOK, WaitInv, GrantInv, NEW p \in Procs, NEW q \in Procs, Resume(p, q)
  PROVE  GrantInv'
<1>0. PICK s : s = onSemaphore[q]
  OBVIOUS
<1>1. UNCHANGED <<alive, pc, target>>
  BY DEF Resume, userVars
<1>2. CASE status[q] # "suspended"
  <2>1. UNCHANGED <<sleepTime, onSemaphore, count, granted>>
    BY <1>2 DEF Resume, semaVars
  <2>2. QED  BY <1>1, <2>1, SameGrants DEF Believes
<1>3. CASE status[q] = "suspended" /\ s \notin Semas /\ UNCHANGED <<count, granted, sleepTime>>
           /\ onSemaphore' = [onSemaphore EXCEPT ![q] = nullSemaphore]
  <2>1. \A r \in Procs : r # q => onSemaphore'[r] = onSemaphore[r]
    BY <1>3 DEF TypeOK
  <2>2. OnlyChanges(q)
    BY <1>1, <1>3, <2>1, OthersSame
  <2>3. onSemaphore'[q] = nullSemaphore
    BY <1>3 DEF TypeOK
  <2>4. s # nullSemaphore => target[q] \notin Semas
    BY <1>0, <1>3 DEF WaitInv, ControlOK
  <2>5. \A u \in Semas : Believes(q, u)' <=> Believes(q, u)
    BY <1>0, <1>1, <1>3, <2>3, <2>4 DEF Believes
  <2>6. QED  BY <1>1, <1>3, <2>2, <2>5, SameGrants DEF OnlyChanges
<1>4. CASE /\ s \in Semas /\ count[s] > 0 /\ Acquire(q, s) /\ UNCHANGED sleepTime
           /\ onSemaphore' = [onSemaphore EXCEPT ![q] = nullSemaphore]
  <2>1. \A r \in Procs : r # q => onSemaphore'[r] = onSemaphore[r]
    BY <1>4 DEF TypeOK
  <2>2. OnlyChanges(q)
    BY <1>1, <1>4, <2>1, OthersSame
  <2>3. /\ onSemaphore[q] # nullSemaphore /\ onSemaphore'[q] = nullSemaphore
        /\ pc[q] = "waited" /\ target[q] = s /\ MayWait(sleepTime[q]) /\ alive[q]
    BY <1>0, <1>4, SemasType DEF WaitInv, ControlOK, TypeOK
  <2>4. sleepTime[q] # 0
    BY <2>3 DEF MayWait, timeoutInfinity
  <2>5. \A u \in Semas : ~Believes(q, u) /\ (Believes(q, u)' <=> u = s)
    BY <1>1, <1>4, <2>3, <2>4 DEF Believes
  <2>6. QED  BY <1>4, <2>2, <2>3, <2>5, AcquireGrant
<1>5. CASE s \in AllSemas /\ SuspendAgain(q, s)
  <2>1. MayWait(sleepTime[q])
    BY <1>0, <1>5, SemasType DEF WaitInv, ControlOK
  <2>2. /\ onSemaphore[q] = s /\ onSemaphore' = [onSemaphore EXCEPT ![q] = s]
        /\ MoveToWaitingQ(q, sleepTime[q])
        /\ UNCHANGED <<count, granted>>
    BY <1>0, <1>5, <2>1, SuspendAgainWaits DEF SuspendOnSemaphore, JoinQueue
  <2>3. onSemaphore' = onSemaphore
    BY <2>2 DEF TypeOK
  <2>4. sleepTime' = sleepTime
    BY <2>2, <2>1, MoveToWaitingQSleepTime
  <2>5. QED  BY <1>1, <2>2, <2>3, <2>4, SameGrants DEF Believes
<1>6. QED  BY <1>0, <1>2, <1>3, <1>4, <1>5, SemasType DEF Resume

LEMMA SuspendGrant ==
  ASSUME TypeOK, WaitInv, GrantInv, NEW p \in Procs, NEW q \in Procs, Suspend(p, q)
  PROVE  GrantInv'
<1>1. UNCHANGED <<sleepTime, count, granted, alive, pc, target>>
  BY DEF Suspend, userVars
<1>2. CASE status[q] = "suspended"
  BY <1>1, <1>2, SameGrants DEF Suspend, Believes
<1>3. CASE status[q] # "suspended"
  <2>1. ReleaseAndMove(q, {SuspensionWaiters(q)}, "suspendedQ")
    BY <1>3 DEF Suspend
  <2>2. {SuspensionWaiters(q)} \in SUBSET Barriers /\ "suspendedQ" \in {"suspendedQ", "noQueue"}
    BY BarriersType
  <2>3. \A r \in Procs, s \in Semas : Believes(r, s)' <=> Believes(r, s)
    BY <1>1, <2>1, <2>2, ReleaseAndMoveBelieves
  <2>4. QED  BY <1>1, <2>3, SameGrants
<1>4. QED  BY <1>2, <1>3

LEMMA KillBelieves ==
  ASSUME TypeOK, WaitInv, NEW q \in Procs, Kill(q), UNCHANGED <<sleepTime, pc, target>>,
         alive' = alive \/ alive' = [alive EXCEPT ![q] = FALSE]
  PROVE  OnlyChanges(q)
<1>1. \A r \in Procs, s \in Semas : r # q => (Believes(r, s)' <=> Believes(r, s))
  BY BarriersType, ReleaseAndMoveBelieves DEF Kill
<1>2. \A r \in Procs : r # q => alive'[r] = alive[r]
  BY DEF TypeOK
<1>3. QED  BY <1>1, <1>2 DEF OnlyChanges

LEMMA UnwindProtectGrant ==
  ASSUME TypeOK, TargetsOK, GrantInv, NEW q \in Procs, UnwindProtect(q),
         OnlyChanges(q), ~alive'[q]
  PROVE  GrantInv'
<1>1. CASE alive[q] /\ pc[q] = "critical" /\ FastSignal(q, target[q], FALSE)
  <2>1. PICK s \in Semas : s = target[q] /\ s \in Locks /\ s \notin Events
    BY <1>1, SemasType DEF TargetsOK
  <2>2. Believes(q, s)
    BY <1>1, <2>1 DEF Believes
  <2>3. q \in granted[s]
    BY <1>1, <2>2 DEF GrantInv, TimedOutIffNotGranted
  <2>4. QED  BY <1>1, <2>1, <2>3, FastSignalGrant
<1>2. CASE UNCHANGED <<count, granted>>
  BY <1>2, SameGrants DEF OnlyChanges
<1>3. QED  BY <1>1, <1>2 DEF UnwindProtect

LEMMA AbortGrant ==
  ASSUME TypeOK, TargetsOK, WaitInv, GrantInv, NEW p \in Procs, NEW q \in Procs, Abort(p, q)
  PROVE  GrantInv'
<1>1. /\ Kill(q) /\ UnwindProtect(q)
      /\ alive' = [alive EXCEPT ![q] = FALSE]
      /\ UNCHANGED <<sleepTime, pc, target>>
  BY DEF Abort, userVars
<1>2. OnlyChanges(q) /\ ~alive'[q]
  BY <1>1, KillBelieves DEF TypeOK
<1>3. QED  BY <1>1, <1>2, UnwindProtectGrant

LEMMA GrantStep ==
  ASSUME TypeOK, TargetsOK, QueuesSound, WaitInv, GrantInv, [Next]_vars
  PROVE  GrantInv'
<1>1. ASSUME UNCHANGED <<sleepTime, semaVars, alive, userVars>> PROVE GrantInv'
  BY <1>1, SameGrants DEF Believes, semaVars, userVars
<1>2. ASSUME NEW p \in Procs, Schedule(p) \/ Preempt(p) PROVE GrantInv'
  BY <1>1, <1>2 DEF Schedule, Preempt
<1>3. ASSUME NEW p \in Procs, NEW c \in {"idle", "bypass"}, NEW s, Goto(p, c, s),
             pc[p] \in {"idle", "bypass"},
             UNCHANGED <<sleepTime, semaVars, alive>>
      PROVE  GrantInv'
  <2>1. /\ pc'[p] = c
        /\ \A r \in Procs : r # p => pc'[r] = pc[r] /\ target'[r] = target[r]
    BY <1>3 DEF Goto, TypeOK
  <2>2. OnlyChanges(p)
    BY <1>3, <2>1, OthersSame DEF semaVars
  <2>3. \A u \in Semas : ~Believes(p, u) /\ ~Believes(p, u)'
    BY <1>3, <2>1 DEF Believes
  <2>4. QED  BY <1>3, <2>2, <2>3, SameGrants DEF OnlyChanges, semaVars
<1>4. ASSUME NEW p \in Procs, NEW s \in Semas, Bypass(p, s) PROVE GrantInv'
  BY <1>3, <1>4 DEF Bypass
<1>6. ASSUME NEW p \in Procs, Terminate(p) \/ NoProcessError(p) PROVE GrantInv'
  <2>1. /\ Kill(p) /\ UNCHANGED <<sleepTime, pc, target, count, granted>>
        /\ alive' = alive \/ alive' = [alive EXCEPT ![p] = FALSE]
        /\ ~alive'[p]
    BY <1>6 DEF Terminate, NoProcessError, userVars, TypeOK
  <2>2. OnlyChanges(p)
    BY <2>1, KillBelieves
  <2>3. QED  BY <2>1, <2>2, SameGrants DEF OnlyChanges
<1>7. \A q \in Watched : SuspensionWaiters(q) \in AllSemas /\ DeathWaiters(q) \in AllSemas
  BY BarriersType, SemasType, SemaphoreAssumption
<1>8. CASE UNCHANGED vars
  BY <1>1, <1>8 DEF vars
<1>9. QED
  BY <1>2, <1>4, <1>6, <1>7, <1>8, SemasType, WaitTimeOutGrant, SemaphoreWaitGrant,
     WaitReturnGrant, UncheckedSignalGrant, YieldSignalGrant, SigIOGrant, SleepGrant,
     SigRealTimerGrant, ResumeGrant, SuspendGrant, AbortGrant
     DEF Next

LEMMA GrantInit == Init => GrantInv
BY SemasType DEF Init, GrantInv, TimedOutIffNotGranted, PermitConservation, Believes

LEMMA GrantInvariant ==
  ASSUME ValidTimeouts
  PROVE  Spec => []GrantInv
<1>1. Init => GrantInv
  BY GrantInit
<1>2. SchedInv /\ WaitInv /\ GrantInv /\ [Next]_vars => GrantInv'
  BY GrantStep, SoundIf DEF SchedInv
<1>3. QED  BY <1>1, <1>2, SchedInvariant, WaitInvariant, ValidTimeouts, PTL DEF Spec

\* A wait reports a time-out exactly if it was not granted the semaphore,
\* however the timer, signals, suspend: and resume: interleave
\* (semaphore.self:691-701).
THEOREM TimeOutsReported ==
  ASSUME ValidTimeouts
  PROVE  Spec => []TimedOutIffNotGranted
<1>1. GrantInv => TimedOutIffNotGranted
  BY DEF GrantInv
<1>2. QED  BY <1>1, GrantInvariant, ValidTimeouts, PTL

\* The permit of a lock is neither lost nor doubled while its holders live,
\* and never doubled at all (semaphore.self:337-342, 654-661).
THEOREM PermitsConserved ==
  ASSUME ValidTimeouts
  PROVE  Spec => []PermitConservation
<1>1. GrantInv => PermitConservation
  BY DEF GrantInv
<1>2. QED  BY <1>1, GrantInvariant, ValidTimeouts, PTL

LEMMA MutualExclusionIf ==
  ASSUME TypeOK, TargetsOK, GrantInv, Recursive = {}
  PROVE  MutualExclusion
<1> SUFFICES ASSUME NEW s \in Locks, NEW p \in Procs, NEW r \in Procs,
                    alive[p], pc[p] \in {"critical", "bypass"}, target[p] = s,
                    alive[r], pc[r] \in {"critical", "bypass"}, target[r] = s
             PROVE  p = r
  BY DEF MutualExclusion
<1>1. pc[p] = "critical" /\ pc[r] = "critical"
  BY Recursive = {} DEF TargetsOK
<1>2. p \in granted[s] /\ r \in granted[s]
  BY <1>1, SemasType DEF GrantInv, TimedOutIffNotGranted, Believes
<1>3. QED  BY <1>2 DEF GrantInv, PermitConservation

\* protect: excludes, for any number of processes and locks, under suspend:,
\* resume:, abort: and time-outs, as long as no lock is a recursiveSemaphore
\* (semaphore.self:450-453).
THEOREM ProtectExcludes ==
  ASSUME ValidTimeouts, Recursive = {}
  PROVE  Spec => []MutualExclusion
<1>1. SchedInv /\ GrantInv => MutualExclusion
  BY MutualExclusionIf, Recursive = {} DEF SchedInv
<1>2. QED  BY <1>1, SchedInvariant, GrantInvariant, ValidTimeouts, PTL

-----------------------------------------------------------------------------
(* releaseObjects in between: Cleanup. *)

\* Whoever is in cleanupQ: does nothing else.
CleanerOK == \A p \in Procs : cleaner = p => pc[p] = "cleanup"

\* QueuesAgree and TimersAreForWaiters are not kept: see QueuesSound.
CleanupInv ==
  /\ TypeOK /\ TargetsOK /\ QueuesSound
  /\ WaitInv /\ GrantInv
  /\ CleanerOK

LEMMA CleanerNext ==
  ASSUME TypeOK, [Next]_vars, NEW p \in Procs, pc[p] = "cleanup"
  PROVE  pc'[p] = "cleanup"
<1> USE DEF userVars
<1>1. CASE pc' = pc
  BY <1>1
<1>2. ASSUME NEW r \in Procs, NEW c, NEW s, Goto(r, c, s), pc[r] # "cleanup"
      PROVE  pc'[p] = "cleanup"
  BY <1>2 DEF Goto, TypeOK
<1>3. ASSUME NEW r \in Procs, NEW s, NEW ms, WaitTimeOut(r, s, ms) \/ Sleep(r, ms)
      PROVE  pc'[p] = "cleanup"
  BY <1>2, <1>3 DEF WaitTimeOut, Sleep
<1>4. ASSUME NEW r \in Procs, NEW s,
             \/ SemaphoreWait(r) \/ WaitReturn(r) \/ UncheckedSignal(r, s)
             \/ YieldSignal(r) \/ Bypass(r, s)
      PROVE  pc'[p] = "cleanup"
  BY <1>2, <1>4 DEF SemaphoreWait, WaitReturn, UncheckedSignal, YieldSignal, Bypass
<1>5. CASE \/ \E r \in Procs : \/ Schedule(r) \/ Preempt(r) \/ NoProcessError(r)
                               \/ SigRealTimer(r) \/ Terminate(r)
           \/ \E r, q \in Procs : Suspend(r, q) \/ Resume(r, q) \/ Abort(r, q)
           \/ \E s \in Events : SigIO(s)
  BY <1>1, <1>5 DEF Schedule, Preempt, NoProcessError, SigRealTimer, Terminate,
                    Suspend, Resume, Abort, SigIO
<1>6. QED  BY <1>1, <1>3, <1>4, <1>5 DEF Next, vars

LEMMA OpenedType ==
  ASSUME NEW q \in Procs
  PROVE  /\ Opened(q) \in SUBSET Barriers
         /\ SuspensionWaiters(q) \in Opened(q) /\ DeathWaiters(q) \in Opened(q)
BY BarriersType DEF Opened

\* The effect of removeFromQueues and of the barriers that it opens.
LEMMA RemoveFromQueuesEffects ==
  ASSUME TypeOK, WaitersAgree, NEW q \in Procs, RemoveFromQueues(q)
  PROVE  /\ ReleaseEffects(q, Opened(q))
         /\ status'[q] = Demoted(q) /\ onSemaphore'[q] = nullSemaphore
         /\ SchedType' /\ (QueuesSound => QueuesSound')
         /\ waiters' \in [AllSemas -> Seq(Procs)]
         /\ blocking' \in [Barriers -> BOOLEAN]
         /\ onSemaphore' \in [Procs -> AllSemas \cup {nullSemaphore}]
<1> DEFINE bs == Opened(q)
           released == UNION {Elems(QueueWithout(b, q)) : b \in bs}
           moved == released \cup {q}
<1>1. \A u \in AllSemas :
        /\ QueueWithout(u, q) \in Seq(Procs)
        /\ Elems(QueueWithout(u, q)) = Elems(waiters[u]) \ {q}
        /\ NoDup(QueueWithout(u, q))
        /\ waiters[u] = <<>> => QueueWithout(u, q) = <<>>
  <2>1. TAKE u \in AllSemas
  <2>2. QueueWithout(u, q) = IF u = onSemaphore[q] THEN Without(waiters[u], q) ELSE waiters[u]
    BY DEF QueueWithout
  <2>3. QED  BY <2>2, LeaveElems
<1>2. bs \in SUBSET Barriers /\ \A b \in bs : b \in AllSemas
  BY OpenedType, SemasType
<1>3. /\ waiters' = [s \in AllSemas |-> IF s \in bs THEN <<>> ELSE QueueWithout(s, q)]
      /\ blocking' = [b \in Barriers |-> b \notin bs /\ blocking[b]]
      /\ onSemaphore' = [r \in Procs |-> IF r \in moved THEN nullSemaphore ELSE onSemaphore[r]]
      /\ queue' = [x \in Queues |->
                     (queue[x] \ moved) \cup (IF x = "readyQ" THEN released ELSE {})]
      /\ onQueue' = [r \in Procs |-> IF r = q THEN "noQueue"
                                     ELSE IF r \in released THEN "readyQ" ELSE onQueue[r]]
      /\ status' = [r \in Procs |-> IF r \in released THEN "ready" ELSE Demoted(r)]
      /\ timerWaiters' = timerWaiters \ moved
  BY DEF RemoveFromQueues
<1> HIDE DEF bs
<1>4. \A r \in Procs : r \in released <=> r # q /\ status[r] = "waiting" /\ onSemaphore[r] \in bs
  <2>1. TAKE r \in Procs
  <2>2. r \in released <=> \E b \in bs : r \in Elems(QueueWithout(b, q))
    OBVIOUS
  <2> HIDE DEF released
  <2>3. \A b \in bs : r \in Elems(QueueWithout(b, q))
                        <=> r # q /\ status[r] = "waiting" /\ onSemaphore[r] = b
    BY <1>1, <1>2 DEF WaitersAgree
  <2>4. QED  BY <2>2, <2>3
<1>5. released \subseteq Procs
  BY <1>1, <1>2 DEF Elems
<1> HIDE DEF released
<1>6. ReleaseEffects(q, bs)
  <2>1. ASSUME NEW r \in Procs, r # q
        PROVE  IF status[r] = "waiting" /\ onSemaphore[r] \in bs
               THEN status'[r] = "ready" /\ onSemaphore'[r] = nullSemaphore
               ELSE /\ onSemaphore'[r] = onSemaphore[r]
                    /\ status'[r] = status[r] \/ (Running(r) /\ status'[r] = "ready")
    BY <1>3, <1>4, <2>1 DEF Demoted, Running
  <2>2. ASSUME NEW u \in AllSemas
        PROVE  /\ NoDup(waiters[u])'
               /\ waiters[u] = <<>> => waiters'[u] = <<>>
               /\ u \in bs => waiters'[u] = <<>>
               /\ u \notin bs => Elems(waiters[u])' = Elems(waiters[u]) \ {q}
    <3>1. CASE u \in bs
      <4>1. waiters'[u] = <<>>
        BY <1>3, <3>1
      <4>2. QED  BY <3>1, <4>1, EmptyElems
    <3>2. CASE u \notin bs
      <4>1. waiters'[u] = QueueWithout(u, q)
        BY <1>3, <3>2
      <4>2. QED  BY <1>1, <3>2, <4>1
    <3>3. QED  BY <3>1, <3>2
  <2>3. \A b \in Barriers : blocking'[b] = (b \notin bs /\ blocking[b])
    BY <1>3
  <2>4. QED  BY <2>1, <2>2, <2>3 DEF ReleaseEffects
<1>7. status'[q] = Demoted(q) /\ onSemaphore'[q] = nullSemaphore
  BY <1>3, <1>4
<1>8. SchedType'
  <2>1. status' \in [Procs -> Statuses]
    BY <1>3, DemotedType DEF Statuses
  <2>2. onQueue' \in [Procs -> Places]
    BY <1>3 DEF TypeOK, Places, Queues
  <2>3. queue' \in [Queues -> SUBSET Procs] /\ timerWaiters' \subseteq Procs
    BY <1>3, <1>5 DEF TypeOK
  <2>4. QED  BY <2>1, <2>2, <2>3 DEF SchedType
<1>9. ASSUME QueuesSound PROVE QueuesSound'
  <2>1. \A x \in Queues : \A r \in queue'[x] : onQueue'[r] = x
    <3>1. SUFFICES ASSUME NEW x \in Queues, NEW r \in queue'[x] PROVE onQueue'[r] = x
      OBVIOUS
    <3>2. r \in queue[x] \ moved \/ (r \in released /\ x = "readyQ")
      BY <1>3
    <3>3. r \in Procs /\ (r \in released => r # q)
      BY <1>4, <1>5, <3>2 DEF TypeOK
    <3>4. QED  BY <1>3, <1>9, <3>2, <3>3 DEF QueuesSound
  <2>2. ASSUME NEW r \in Procs
        PROVE  /\ onQueue'[r] = "readyQ"   => status'[r] \in {"ready", "running"}
               /\ onQueue'[r] = "waitingQ" => status'[r] = "waiting"
    <3>1. CASE r = q
      BY <1>3, <3>1
    <3>2. CASE r # q /\ r \in released
      BY <1>3, <3>2
    <3>3. CASE r # q /\ r \notin released
      BY <1>3, <1>9, <3>3 DEF QueuesSound, Demoted
    <3>4. QED  BY <3>1, <3>2, <3>3
  <2>3. timerWaiters' \subseteq queue'["waitingQ"]
    BY <1>3, <1>9 DEF QueuesSound, Queues
  <2>4. QED  BY <2>1, <2>2, <2>3 DEF QueuesSound
<1>10. waiters' \in [AllSemas -> Seq(Procs)]
  BY <1>1, <1>3
<1>11. /\ blocking' \in [Barriers -> BOOLEAN]
       /\ onSemaphore' \in [Procs -> AllSemas \cup {nullSemaphore}]
  BY <1>3 DEF TypeOK
<1>12. QED  BY <1>6, <1>7, <1>8, <1>9, <1>10, <1>11 DEF bs

LEMMA BasicAbortStep ==
  ASSUME CleanupInv, NEW p \in Procs, NEW q \in Procs, BasicAbort(p, q)
  PROVE  CleanupInv'
<1>1. /\ RemoveFromQueues(q) /\ UnwindProtect(q)
      /\ alive' = [alive EXCEPT ![q] = FALSE]
      /\ UNCHANGED <<sleepTime, pc, target, cleaner>>
  BY DEF BasicAbort, userVars
<1>a. TypeOK /\ TargetsOK /\ QueuesSound /\ WaitInv /\ WaitersAgree /\ GrantInv /\ CleanerOK
  BY DEF CleanupInv, WaitInv
<1>2. /\ ReleaseEffects(q, Opened(q))
      /\ status'[q] = Demoted(q) /\ onSemaphore'[q] = nullSemaphore
      /\ SchedType' /\ QueuesSound'
      /\ waiters' \in [AllSemas -> Seq(Procs)]
      /\ blocking' \in [Barriers -> BOOLEAN]
      /\ onSemaphore' \in [Procs -> AllSemas \cup {nullSemaphore}]
  BY <1>1, <1>a, RemoveFromQueuesEffects
<1>3. TypeOK'
  <2>1. SemaType'
    BY <1>1, <1>2, <1>a, UnwindProtectType DEF SemaType
  <2>2. RestType'
    BY <1>1, <1>2, <1>a DEF RestType, TypeOK
  <2>3. QED  BY <1>2, <2>1, <2>2 DEF TypeOK, SchedType, SemaType, RestType, Places
<1>4. TargetsOK' /\ CleanerOK'
  BY <1>1, <1>a DEF TargetsOK, CleanerOK
<1>5. WaitInv'
  <2>1. /\ \A u \in Semas : count'[u] > 0 => waiters[u] = <<>>
        /\ \A c \in Barriers : count'[c] = count[c]
    BY <1>1, <1>a, UnwindProtectCount, SemasType
  <2>2. QED  BY <1>1, <1>2, <1>a, <2>1, OpenedType, ReleaseWait
<1>6. GrantInv'
  <2>1. \A r \in Procs, s \in Semas : r # q => (Believes(r, s)' <=> Believes(r, s))
    BY <1>1, <1>2, <1>a, OpenedType, ReleaseBelieves
  <2>2. ~alive'[q] /\ \A r \in Procs : r # q => alive'[r] = alive[r]
    BY <1>1, <1>a DEF TypeOK
  <2>3. OnlyChanges(q)
    BY <2>1, <2>2 DEF OnlyChanges
  <2>4. QED  BY <1>1, <1>a, <2>2, <2>3, UnwindProtectGrant
<1>7. QED  BY <1>2, <1>3, <1>4, <1>5, <1>6 DEF CleanupInv

\* The process that cleans up begins and ends.
LEMMA StartEndStep ==
  ASSUME CleanupInv, NEW p \in Procs, StartCleanup(p) \/ EndCleanup(p)
  PROVE  CleanupInv'
<1>a. TypeOK /\ TargetsOK /\ QueuesSound /\ WaitInv /\ GrantInv /\ CleanerOK
  BY DEF CleanupInv
<1>1. PICK c \in {"cleanup", "idle"} :
        /\ Running(p) /\ pc[p] \in {"cleanup", "idle"}
        /\ pc' = [pc EXCEPT ![p] = c]
        /\ UNCHANGED <<status, onQueue, timerWaiters, sleepTime, semaVars, blocking,
                       alive, target>>
        /\ cleaner' = IF c = "cleanup" THEN p ELSE nil
        /\ queue' = queue \/ queue' = [queue EXCEPT !["suspendedQ"] = {}]
  BY <1>a, Zenon DEF StartCleanup, EndCleanup, CleanerOK, schedVars
<1>2. /\ pc'[p] = c
      /\ \A r \in Procs : r # p => pc'[r] = pc[r]
  BY <1>1, <1>a DEF TypeOK
<1>3. TypeOK'
  BY <1>1, <1>a DEF TypeOK, PCs, semaVars
<1>4. TargetsOK'
  BY <1>1, <1>2, <1>a DEF TargetsOK
<1>5. CleanerOK'
  BY <1>1, <1>2, SemasType DEF CleanerOK
<1>6. QueuesSound'
  BY <1>1, <1>a DEF QueuesSound, Queues, TypeOK
<1>7. WaitInv'
  <2>1. /\ \A u \in AllSemas : count'[u] > 0 => waiters[u] = <<>>
        /\ \A b \in Barriers : count'[b] = count[b]
    BY <1>1, <1>a, SameCount DEF semaVars
  <2>2. \A r \in Procs :
          \/ pc'[r] = pc[r] /\ target'[r] = target[r] /\ sleepTime'[r] = sleepTime[r]
          \/ Running(r) /\ (pc'[r] = "waitYield" => MayWait(sleepTime'[r]))
    BY <1>1, <1>2
  <2>3. status' = status /\ status' \in [Procs -> Statuses]
    BY <1>1, <1>a DEF TypeOK
  <2>4. QED  BY <1>1, <1>a, <2>1, <2>2, <2>3, QuietWait DEF semaVars
<1>8. GrantInv'
  <2>1. OnlyChanges(p)
    BY <1>1, <1>2, OthersSame DEF semaVars
  <2>2. \A u \in Semas : ~Believes(p, u) /\ ~Believes(p, u)'
    BY <1>1, <1>2 DEF Believes
  <2>3. QED  BY <1>1, <1>a, <2>1, <2>2, SameGrants DEF OnlyChanges, semaVars
<1>9. QED  BY <1>3, <1>4, <1>5, <1>6, <1>7, <1>8 DEF CleanupInv

LEMMA CleanupStep ==
  ASSUME CleanupInv, ValidTimeouts, [CleanupNext]_<<vars, cleanupVars>>
  PROVE  CleanupInv'
<1>1. CASE [Next]_vars /\ UNCHANGED cleanupVars
  <2>1. TypeOK /\ TargetsOK /\ QueuesSound /\ WaitInv /\ GrantInv /\ CleanerOK
    BY DEF CleanupInv
  <2>2. TypeOK'
    BY <1>1, <2>1, TypeStep DEF TypeOK, SchedType, SemaType, RestType, Places
  <2>3. TargetsOK' /\ QueuesSound'
    BY <1>1, <2>1, TargetsStep, SchedEffects, SoundStep
  <2>4. WaitInv' /\ GrantInv'
    BY <1>1, <2>1, WaitStep, GrantStep, ValidTimeouts
  <2>5. CleanerOK'
    BY <1>1, <2>1, CleanerNext DEF CleanerOK, cleanupVars
  <2>6. QED  BY <2>2, <2>3, <2>4, <2>5 DEF CleanupInv
<1>2. ASSUME NEW p \in Procs, StartCleanup(p) \/ EndCleanup(p) PROVE CleanupInv'
  BY <1>2, StartEndStep
<1>3. ASSUME NEW p \in Procs, NEW q \in Procs, BasicAbort(p, q) PROVE CleanupInv'
  BY <1>3, BasicAbortStep
<1>4. QED  BY <1>1, <1>2, <1>3 DEF CleanupNext

LEMMA CleanupInvariant ==
  ASSUME ValidTimeouts
  PROVE  CleanupSpec => []CleanupInv
<1>1. CleanupInit => CleanupInv
  <2> SUFFICES ASSUME CleanupInit PROVE CleanupInv
    OBVIOUS
  <2>1. Init /\ cleaner = nil
    BY DEF CleanupInit
  <2>2. TypeOK /\ TargetsOK /\ QueuesSound /\ WaitInv /\ GrantInv
    BY <2>1, TypeInit, QueuesInit, SoundIf, WaitInit, GrantInit
  <2>3. CleanerOK
    BY <2>1, SemasType DEF CleanerOK
  <2>4. QED  BY <2>2, <2>3 DEF CleanupInv
<1>2. CleanupInv /\ [CleanupNext]_<<vars, cleanupVars>> => CleanupInv'
  BY CleanupStep, ValidTimeouts
<1>3. QED  BY <1>1, <1>2, PTL DEF CleanupSpec

\* basicAbort takes a process off the queue of the semaphore it waits for even
\* if it was resumed, and waits again, since cleanupQ: copied the suspendedQ
\* (scheduler.self:284, 787-799).
THEOREM CleanupWaitersCorrect ==
  ASSUME ValidTimeouts
  PROVE  CleanupSpec => []WaitersAgree
<1>1. CleanupInv => WaitersAgree
  BY DEF CleanupInv, WaitInv
<1>2. QED  BY <1>1, CleanupInvariant, ValidTimeouts, PTL

\* Those who wait for the death or suspension of a process that cleanupQ:
\* destroys are released with it (scheduler.self:791, process.self:1145).
THEOREM CleanupNoMissedReleases ==
  ASSUME ValidTimeouts
  PROVE  CleanupSpec => []NoMissedRelease
<1>1. CleanupInv => NoMissedRelease
  BY NoMissedReleaseIf DEF CleanupInv
<1>2. QED  BY <1>1, CleanupInvariant, ValidTimeouts, PTL

\* Destroying processes that others resume, suspend and signal meanwhile, as
\* cleanupQ: does, loses no wakeup, doubles no permit and lets no two processes
\* into one protect: (scheduler.self:280-286); the semaphores depend on less of
\* the queues than QueuesAgree, which cleanupQ: does break.
THEOREM CleanupKeepsSemaphores ==
  ASSUME ValidTimeouts
  PROVE  CleanupSpec => []( /\ NoLostWakeup /\ TimedOutIffNotGranted
                            /\ PermitConservation
                            /\ Recursive = {} => MutualExclusion )
<1>1. CleanupInv => /\ NoLostWakeup /\ TimedOutIffNotGranted
                    /\ PermitConservation
                    /\ Recursive = {} => MutualExclusion
  BY MutualExclusionIf DEF CleanupInv, WaitInv, GrantInv
<1>2. QED  BY <1>1, CleanupInvariant, ValidTimeouts, PTL
=============================================================================
