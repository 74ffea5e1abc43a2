---------------------------- MODULE MonitorProofs ----------------------------
(***************************************************************************)
(* Proofs about Monitor, for any number of processes: whatever they do and *)
(* however they are suspended and resumed, the monitor has one permit and  *)
(* holdingProcess names the process that is inside.                        *)
(***************************************************************************)
EXTENDS Monitor, Lemmas

\* Where a process is in its program when it waits for s.
Place(s) == IF s = monitorSemaphore THEN "entering" ELSE "waking"

\* Who is on a queue is where that wait is, and is not suspended.
QueuesOK ==
  /\ SemaOK(sema, Semas, Procs)
  /\ \A s \in Semas : \A p \in Queued(sema, s) :
       pc[p] = Place(s) /\ p \notin Suspended
  /\ \A p \in Suspended :
       suspendedOn[p] # nullSemaphore => pc[p] = Place(suspendedOn[p])

\* waitCondition has noted how many times the process has entered.
DepthOK ==
  \A p \in Procs :
    /\ pc[p] \in {"inside", "wait", "waitSignal", "waking"} => depth[p] > 0
    /\ pc[p] \in {"wait", "waitSignal", "waking"} => hc[p] = depth[p]

Inv == TypeOK /\ QueuesOK /\ OnePermit /\ DepthOK /\ HolderAgrees

Owners == {p \in Procs : Owns(p)}

-----------------------------------------------------------------------------
(* Who waits, and who owns the permit. *)

\* A process that runs neither is suspended nor waits for a semaphore.
LEMMA RunnerIsNotQueued ==
  ASSUME NEW p \in Procs, CanRun(p)
  PROVE  /\ p \notin Suspended /\ ~Waits(p)
         /\ \A s \in Semas : p \notin Queued(sema, s)
BY DEF CanRun, Waits, Queued

LEMMA Constants ==
  /\ monitorSemaphore \in Semas /\ conditionSemaphore \in Semas
  /\ monitorSemaphore # conditionSemaphore
  /\ \A s \in Semas : s # nullSemaphore /\ s \notin Procs
  /\ \A s \in Semas : Place(s) \in {"entering", "waking"}
  /\ \A r, s \in Semas : Place(r) = Place(s) => r = s
  /\ nil \notin Procs
BY MonitorAssumption DEF monitorSemaphore, conditionSemaphore, Place

\* A running process in the middle of something owns the permit, alone.
LEMMA RunnerOwns ==
  ASSUME OnePermit, NEW p \in Procs, CanRun(p), pc[p] # "outside"
  PROVE  Owners = {p} /\ Counted(sema, Semas) = {}
<1>1. p \in Owners
  BY RunnerIsNotQueued DEF Owners, Owns
<1>2. PICK t : Owners \cup Counted(sema, Semas) = {t}
  BY DEF OnePermit, Owners, Counted
<1>3. Owners \cup Counted(sema, Semas) = {p}
  BY <1>1, <1>2
<1>4. p \notin Counted(sema, Semas)
  BY Constants DEF Counted
<1>5. QED  BY <1>1, <1>3, <1>4

LEMMA OnePermitIf ==
  ASSUME NEW t \in Procs \cup Semas, (Owners \cup Counted(sema, Semas))' = {t}
  PROVE  OnePermit'
BY DEF OnePermit, Owners, Counted

\* A step of p that touches no semaphore.
LEMMA QuietStep ==
  ASSUME TypeOK, QueuesOK, OnePermit, NEW p \in Procs, CanRun(p),
         pc[p] # "outside", NEW c \in PCs \ {"outside"},
         pc' = [pc EXCEPT ![p] = c], UNCHANGED <<sema, suspendedOn>>
  PROVE  QueuesOK' /\ OnePermit'
<1>1. /\ p \notin Suspended
      /\ \A s \in Semas : p \notin Queued(sema, s)
      /\ \A s \in Semas : Queued(sema, s)' = Queued(sema, s)
      /\ Suspended' = Suspended /\ Counted(sema, Semas)' = Counted(sema, Semas)
      /\ SemaOK(sema, Semas, Procs)'
  BY RunnerIsNotQueued DEF Queued, Suspended, Counted, QueuesOK, SemaOK
<1>2. \A r \in Procs : r # p => pc'[r] = pc[r]
  BY DEF TypeOK
<1>3. \A s \in Semas : Queued(sema, s) \subseteq Procs
  BY DEF QueuesOK, SemaOK, Queued, Elems
<1>4. Suspended \subseteq Procs
  BY DEF TypeOK, SemaphoresTypeOK
<1>5. QueuesOK'
  BY <1>1, <1>2, <1>3, <1>4 DEF QueuesOK
<1>6. \A r \in Procs : Waits(r)' <=> Waits(r)
  BY DEF Waits, Suspended
<1>7. pc'[p] = c
  BY DEF TypeOK
<1>8. Owners' = Owners
  BY <1>2, <1>6, <1>7 DEF Owners, Owns
<1>9. OnePermit'
  BY <1>1, <1>8, OnePermitIf DEF OnePermit, Owners, Counted
<1>10. QED  BY <1>5, <1>9

\* Who owns the permit afterwards, from who is queued where.
LEMMA OwnersAre ==
  ASSUME NEW O \in SUBSET Procs,
         \A r \in Procs :
           r \in O <=> /\ pc'[r] # "outside"
                       /\ IF r \in Suspended' THEN suspendedOn'[r] = nullSemaphore
                          ELSE \A s \in Semas : r \notin Queued(sema, s)'
  PROVE  Owners' = O
BY DEF Owners, Owns, Waits, Queued

LEMMA OwnersNow ==
  \A r \in Procs : r \in Owners <=>
    /\ pc[r] # "outside"
    /\ IF r \in Suspended THEN suspendedOn[r] = nullSemaphore
       ELSE \A s \in Semas : r \notin Queued(sema, s)
BY DEF Owners, Owns, Waits, Queued

\* Queues hold processes, each on one of them; Suspended holds processes.
LEMMA QueuedOnce ==
  ASSUME TypeOK, QueuesOK
  PROVE  /\ \A s \in Semas : Queued(sema, s) \subseteq Procs
         /\ \A r, s \in Semas : \A p \in Queued(sema, r) \cap Queued(sema, s) : r = s
         /\ Suspended \subseteq Procs
         /\ SemaOK(sema, Semas, Procs)
         /\ \A s \in Semas : \A p \in Queued(sema, s) :
              pc[p] = Place(s) /\ p \notin Suspended
<1>1. \A s \in Semas : Queued(sema, s) \subseteq Procs
  BY DEF QueuesOK, SemaOK, Queued, Elems
<1>2. \A r, s \in Semas : \A p \in Queued(sema, r) \cap Queued(sema, s) : r = s
  BY Constants DEF QueuesOK
<1>3. QED  BY <1>1, <1>2 DEF QueuesOK, TypeOK, SemaphoresTypeOK

LEMMA EnterStep ==
  ASSUME TypeOK, QueuesOK, OnePermit, NEW p \in Procs, Enter(p)
  PROVE  QueuesOK' /\ OnePermit'
<1> DEFINE m == monitorSemaphore
<1>1. /\ p \notin Suspended /\ ~Waits(p)
      /\ \A s \in Semas : p \notin Queued(sema, s)
      /\ pc[p] = "outside" /\ m \in Semas
      /\ sema' = Waited(sema, m, p) /\ suspendedOn' = suspendedOn
      /\ pc' = [pc EXCEPT ![p] = "entering"]
  BY RunnerIsNotQueued, Constants DEF Enter, At, Goto
<1>2. /\ pc'[p] = "entering" /\ Place(m) = "entering"
      /\ \A r \in Procs \ {p} : pc'[r] = pc[r]
      /\ Suspended' = Suspended
  BY <1>1 DEF TypeOK, Suspended, Place
<1>3. /\ SemaOK(sema', Semas, Procs)
      /\ \A s \in Semas : s # m => Queued(sema', s) = Queued(sema, s)
      /\ \/ /\ m \in Counted(sema, Semas)
            /\ Counted(sema', Semas) = Counted(sema, Semas) \ {m}
            /\ Queued(sema', m) = Queued(sema, m)
         \/ /\ m \notin Counted(sema, Semas)
            /\ Counted(sema', Semas) = Counted(sema, Semas)
            /\ Queued(sema', m) = Queued(sema, m) \cup {p}
  BY <1>1, WaitedEffect, QueuedOnce
<1> HIDE DEF m
<1>4. QueuesOK'
  <2>1. \A s \in Semas : \A r \in Queued(sema', s) : pc'[r] = Place(s) /\ r \notin Suspended'
    BY <1>1, <1>2, <1>3, QueuedOnce
  <2>2. \A r \in Suspended' :
          suspendedOn'[r] # nullSemaphore => pc'[r] = Place(suspendedOn'[r])
    BY <1>1, <1>2, QueuedOnce DEF QueuesOK
  <2>3. QED  BY <1>3, <2>1, <2>2 DEF QueuesOK, SemaOK, Queued
<1>5. PICK t \in Procs \cup Semas : Owners \cup Counted(sema, Semas) = {t}
  BY DEF OnePermit, Owners, Counted
<1>6. p \notin Owners
  BY <1>1 DEF Owners, Owns
<1>7. CASE m \in Counted(sema, Semas)
  <2>1. Owners = {} /\ Counted(sema, Semas) = {m}
    BY <1>1, <1>5, <1>7, Constants DEF Owners, Counted
  <2>2. Counted(sema', Semas) = {} /\ \A s \in Semas : Queued(sema', s) = Queued(sema, s)
    BY <1>3, <1>7, <2>1
  <2>3. Owners' = {p}
    <3>1. \A r \in Procs :
           r \in {p} <=> /\ pc'[r] # "outside"
                         /\ IF r \in Suspended' THEN suspendedOn'[r] = nullSemaphore
                            ELSE \A s \in Semas : r \notin Queued(sema', s)
      BY <1>1, <1>2, OwnersNow, <2>1, <2>2
    <3>2. QED  BY <3>1, OwnersAre DEF Queued
  <2>4. QED  BY <1>4, <2>2, <2>3, OnePermitIf DEF Counted
<1>8. CASE m \notin Counted(sema, Semas)
  <2>1. Owners' = Owners
    <3>1. \A r \in Procs :
           r \in Owners <=> /\ pc'[r] # "outside"
                            /\ IF r \in Suspended' THEN suspendedOn'[r] = nullSemaphore
                               ELSE \A s \in Semas : r \notin Queued(sema', s)
      BY <1>1, <1>2, <1>3, <1>6, OwnersNow, <1>8
    <3>2. Owners \in SUBSET Procs
      BY DEF Owners
    <3>3. QED  BY <3>1, <3>2, OwnersAre DEF Queued
  <2>2. QED  BY <1>3, <1>4, <1>5, <1>8, <2>1, OnePermitIf DEF Counted
<1>9. QED  BY <1>7, <1>8

LEMMA ExitSignalStep ==
  ASSUME TypeOK, QueuesOK, OnePermit, NEW p \in Procs, ExitSignal(p)
  PROVE  QueuesOK' /\ OnePermit'
<1> DEFINE s == toSignal[p]
<1>1. /\ p \notin Suspended
      /\ \A r \in Semas : p \notin Queued(sema, r)
      /\ s \in Semas
      /\ sema' = Signalled(sema, s) /\ suspendedOn' = suspendedOn
      /\ Suspended' = Suspended
      /\ pc'[p] = "outside"
      /\ \A r \in Procs \ {p} : pc'[r] = pc[r]
  BY RunnerIsNotQueued DEF ExitSignal, At, Goto, TypeOK, Suspended
<1>2. Owners = {p} /\ Counted(sema, Semas) = {}
  BY RunnerOwns DEF ExitSignal, At
<1>3. /\ SemaOK(sema', Semas, Procs)
      /\ \/ /\ Counted(sema', Semas) = {s}
            /\ \A r \in Semas : Queued(sema', r) = Queued(sema, r)
         \/ \E q \in Queued(sema, s) :
              /\ q \in Procs
              /\ Counted(sema', Semas) = {}
              /\ Queued(sema', s) = Queued(sema, s) \ {q}
              /\ \A r \in Semas \ {s} : Queued(sema', r) = Queued(sema, r)
  BY <1>1, <1>2, SignalledEffect, QueuedOnce
<1> HIDE DEF s
<1>4. QueuesOK'
  <2>1. \A r \in Semas : Queued(sema', r) \subseteq Queued(sema, r)
    BY <1>3
  <2>2. \A r \in Semas : \A q \in Queued(sema', r) : pc'[q] = Place(r) /\ q \notin Suspended'
    BY <1>1, <2>1, QueuedOnce
  <2>3. \A r \in Suspended' :
          suspendedOn'[r] # nullSemaphore => pc'[r] = Place(suspendedOn'[r])
    BY <1>1, QueuedOnce DEF QueuesOK
  <2>4. QED  BY <1>3, <2>2, <2>3 DEF QueuesOK, SemaOK, Queued
<1>5. CASE Counted(sema', Semas) = {s} /\ \A r \in Semas : Queued(sema', r) = Queued(sema, r)
  <2>1. Owners' = {}
    <3>1. PICK O \in SUBSET Procs : O = {}
      OBVIOUS
    <3>2. \A r \in Procs :
           r \in O <=> /\ pc'[r] # "outside"
                       /\ IF r \in Suspended' THEN suspendedOn'[r] = nullSemaphore
                          ELSE \A x \in Semas : r \notin Queued(sema', x)
      BY <1>1, <1>2, <1>5, <3>1, OwnersNow
    <3>3. Owners' = O
      BY <3>2, OwnersAre DEF Queued
    <3>4. QED  BY <3>1, <3>3
  <2>2. QED  BY <1>1, <1>4, <1>5, <2>1, OnePermitIf DEF Counted
<1>6. CASE \E q \in Queued(sema, s) :
              /\ q \in Procs
              /\ Counted(sema', Semas) = {}
              /\ Queued(sema', s) = Queued(sema, s) \ {q}
              /\ \A r \in Semas \ {s} : Queued(sema', r) = Queued(sema, r)
  <2>1. PICK q \in Queued(sema, s) :
              /\ q \in Procs
              /\ Counted(sema', Semas) = {}
              /\ Queued(sema', s) = Queued(sema, s) \ {q}
              /\ \A r \in Semas \ {s} : Queued(sema', r) = Queued(sema, r)
    BY <1>6
  <2>2. /\ q # p /\ q \notin Suspended /\ pc[q] \in {"entering", "waking"}
        /\ \A r \in Semas : q \notin Queued(sema', r)
    BY <1>1, <2>1, QueuedOnce, Constants
  <2>3. Owners' = {q}
    <3>1. \A r \in Procs :
           r \in {q} <=> /\ pc'[r] # "outside"
                         /\ IF r \in Suspended' THEN suspendedOn'[r] = nullSemaphore
                            ELSE \A x \in Semas : r \notin Queued(sema', x)
      BY <1>1, <1>2, <2>1, <2>2, OwnersNow
    <3>2. QED  BY <2>1, <3>1, OwnersAre DEF Queued
  <2>4. QED  BY <1>4, <2>1, <2>3, OnePermitIf DEF Counted
<1>7. QED  BY <1>3, <1>5, <1>6

LEMMA SignalAndThenWaitStep ==
  ASSUME TypeOK, QueuesOK, OnePermit, NEW p \in Procs, SignalAndThenWait(p)
  PROVE  QueuesOK' /\ OnePermit'
<1> DEFINE s == toSignal[p]
           c == conditionSemaphore
           mid == Signalled(sema, s)
<1>1. /\ p \notin Suspended
      /\ \A r \in Semas : p \notin Queued(sema, r)
      /\ s \in Semas /\ c \in Semas
      /\ sema' = Waited(mid, c, p) /\ suspendedOn' = suspendedOn
      /\ Suspended' = Suspended
      /\ pc'[p] = "waking" /\ Place(c) = "waking"
      /\ \A r \in Procs \ {p} : pc'[r] = pc[r]
  BY RunnerIsNotQueued, Constants
     DEF SignalAndThenWait, SignalledAndWaited, At, Goto, TypeOK, Suspended, Place
<1>2. Owners = {p} /\ Counted(sema, Semas) = {}
  BY RunnerOwns DEF SignalAndThenWait, At
<1>3. /\ SemaOK(mid, Semas, Procs)
      /\ \/ /\ Counted(mid, Semas) = {s}
            /\ \A r \in Semas : Queued(mid, r) = Queued(sema, r)
         \/ \E q \in Queued(sema, s) :
              /\ q \in Procs
              /\ Counted(mid, Semas) = {}
              /\ Queued(mid, s) = Queued(sema, s) \ {q}
              /\ \A r \in Semas \ {s} : Queued(mid, r) = Queued(sema, r)
  BY <1>1, <1>2, SignalledEffect, QueuedOnce
<1> HIDE DEF s, c, mid
<1>4. \A r \in Semas : Queued(mid, r) \subseteq Queued(sema, r)
  BY <1>3
<1>5. /\ SemaOK(sema', Semas, Procs)
      /\ \/ /\ c \in Counted(mid, Semas)
            /\ Counted(sema', Semas) = Counted(mid, Semas) \ {c}
            /\ \A r \in Semas : Queued(sema', r) = Queued(mid, r)
         \/ /\ c \notin Counted(mid, Semas)
            /\ Counted(sema', Semas) = Counted(mid, Semas)
            /\ Queued(sema', c) = Queued(mid, c) \cup {p}
            /\ \A r \in Semas \ {c} : Queued(sema', r) = Queued(mid, r)
  BY <1>1, <1>3, <1>4, WaitedEffect
<1>6. QueuesOK'
  <2>1. \A r \in Semas : Queued(sema', r) \subseteq Queued(sema, r)
                           \cup (IF r = c THEN {p} ELSE {})
    BY <1>4, <1>5
  <2>2. \A r \in Semas : \A q \in Queued(sema', r) : pc'[q] = Place(r) /\ q \notin Suspended'
    BY <1>1, <2>1, QueuedOnce
  <2>3. \A r \in Suspended' :
          suspendedOn'[r] # nullSemaphore => pc'[r] = Place(suspendedOn'[r])
    BY <1>1, QueuedOnce DEF QueuesOK
  <2>4. QED  BY <1>5, <2>2, <2>3 DEF QueuesOK, SemaOK, Queued
<1>7. CASE /\ Counted(mid, Semas) = {s}
           /\ \A r \in Semas : Queued(mid, r) = Queued(sema, r)
  <2>1. CASE s = c
    <3>1. Counted(sema', Semas) = {} /\ \A r \in Semas : Queued(sema', r) = Queued(sema, r)
      BY <1>5, <1>7, <2>1
    <3>2. Owners' = {p}
      <4>1. \A r \in Procs :
              r \in {p} <=> /\ pc'[r] # "outside"
                            /\ IF r \in Suspended' THEN suspendedOn'[r] = nullSemaphore
                               ELSE \A x \in Semas : r \notin Queued(sema', x)
        BY <1>1, <1>2, <3>1, OwnersNow
      <4>2. QED  BY <4>1, OwnersAre DEF Queued
    <3>3. QED  BY <1>6, <3>1, <3>2, OnePermitIf DEF Counted
  <2>2. CASE s # c
    <3>1. /\ Counted(sema', Semas) = {s}
          /\ p \in Queued(sema', c)
          /\ \A r \in Procs \ {p} : \A x \in Semas :
               r \in Queued(sema', x) <=> r \in Queued(sema, x)
      BY <1>5, <1>7, <2>2
    <3>2. PICK O \in SUBSET Procs : O = {}
      OBVIOUS
    <3>3. \A r \in Procs :
            r \in O <=> /\ pc'[r] # "outside"
                        /\ IF r \in Suspended' THEN suspendedOn'[r] = nullSemaphore
                           ELSE \A x \in Semas : r \notin Queued(sema', x)
      BY <1>1, <1>2, <3>1, <3>2, OwnersNow
    <3>4. Owners' = O
      BY <3>3, OwnersAre DEF Queued
    <3>5. QED  BY <1>1, <1>6, <3>1, <3>2, <3>4, OnePermitIf DEF Counted
  <2>3. QED  BY <2>1, <2>2
<1>8. CASE \E q \in Queued(sema, s) :
              /\ q \in Procs
              /\ Counted(mid, Semas) = {}
              /\ Queued(mid, s) = Queued(sema, s) \ {q}
              /\ \A r \in Semas \ {s} : Queued(mid, r) = Queued(sema, r)
  <2>1. PICK q \in Queued(sema, s) :
              /\ q \in Procs
              /\ Counted(mid, Semas) = {}
              /\ Queued(mid, s) = Queued(sema, s) \ {q}
              /\ \A r \in Semas \ {s} : Queued(mid, r) = Queued(sema, r)
    BY <1>8
  <2>2. /\ q # p /\ q \notin Suspended /\ pc[q] \in {"entering", "waking"}
        /\ \A r \in Semas : q \notin Queued(mid, r)
    BY <1>1, <2>1, QueuedOnce, Constants
  <2>3. /\ Counted(sema', Semas) = {}
        /\ p \in Queued(sema', c)
        /\ \A r \in Semas : q \notin Queued(sema', r)
        /\ \A r \in Procs \ {p, q} : \A x \in Semas :
             r \in Queued(sema', x) <=> r \in Queued(sema, x)
    BY <1>5, <2>1, <2>2
  <2>4. Owners' = {q}
    <3>1. \A r \in Procs :
           r \in {q} <=> /\ pc'[r] # "outside"
                         /\ IF r \in Suspended' THEN suspendedOn'[r] = nullSemaphore
                            ELSE \A x \in Semas : r \notin Queued(sema', x)
      BY <1>1, <1>2, <2>1, <2>2, <2>3, OwnersNow
    <3>2. QED  BY <2>1, <3>1, OwnersAre DEF Queued
  <2>5. QED  BY <1>6, <2>1, <2>3, <2>4, OnePermitIf DEF Counted
<1>9. QED  BY <1>3, <1>7, <1>8

LEMMA SuspendStep ==
  ASSUME TypeOK, QueuesOK, OnePermit, NEW p \in Procs, Suspend(p), UNCHANGED pc
  PROVE  SemaphoresTypeOK' /\ QueuesOK' /\ OnePermit'
<1>1. /\ p \notin Suspended
      /\ Suspended' = Suspended \cup {p}
      /\ suspendedOn'[p] = OnSemaphore(p)
      /\ \A r \in Suspended : suspendedOn'[r] = suspendedOn[r]
      /\ sema' = [s \in Semas |-> [sema[s] EXCEPT !.queue = Without(@, p)]]
  BY DEF Suspend, Suspended
<1>2. ASSUME NEW s \in Semas
      PROVE  /\ sema'[s] \in [count : 0..binaryCapacity, queue : Seq(Procs)]
             /\ sema'[s].count = sema[s].count
             /\ NoDup(sema'[s].queue)
             /\ Queued(sema', s) = Queued(sema, s) \ {p}
  <2>1. /\ sema[s] \in [count : 0..binaryCapacity, queue : Seq(Procs)]
        /\ NoDup(sema[s].queue)
    BY QueuedOnce DEF SemaOK
  <2>2. sema'[s] = [sema[s] EXCEPT !.queue = Without(sema[s].queue, p)]
    BY <1>1
  <2>3. /\ Without(sema[s].queue, p) \in Seq(Procs)
        /\ NoDup(Without(sema[s].queue, p))
        /\ Elems(Without(sema[s].queue, p)) = Elems(sema[s].queue) \ {p}
    BY <2>1, WithoutElems
  <2>4. /\ sema'[s].queue = Without(sema[s].queue, p)
        /\ sema'[s].count = sema[s].count
        /\ sema'[s] \in [count : 0..binaryCapacity, queue : Seq(Procs)]
    BY <2>1, <2>2, <2>3
  <2>5. QED  BY <2>3, <2>4 DEF Queued
<1>3. SemaOK(sema', Semas, Procs) /\ Counted(sema', Semas) = Counted(sema, Semas)
  BY <1>1, <1>2 DEF SemaOK, Counted
<1>4. /\ OnSemaphore(p) \in Semas \cup {nullSemaphore}
      /\ OnSemaphore(p) # nullSemaphore => p \in Queued(sema, OnSemaphore(p))
      /\ OnSemaphore(p) = nullSemaphore <=> \A s \in Semas : p \notin Queued(sema, s)
  <2>1. Waits(p) <=> \E s \in Semas : p \in Queued(sema, s)
    BY <1>1 DEF Waits, Queued
  <2>2. CASE Waits(p)
    <3>1. /\ OnSemaphore(p) \in Semas
          /\ p \in Queued(sema, OnSemaphore(p))
      BY <2>1, <2>2 DEF OnSemaphore, Queued
    <3>2. QED  BY <3>1, Constants
  <2>3. CASE ~Waits(p)
    BY <2>1, <2>3 DEF OnSemaphore
  <2>4. QED  BY <2>2, <2>3
<1>5. QueuesOK'
  <2>1. \A s \in Semas : \A q \in Queued(sema', s) : pc'[q] = Place(s) /\ q \notin Suspended'
    BY <1>1, <1>2, QueuedOnce
  <2>2. \A r \in Suspended' :
          suspendedOn'[r] # nullSemaphore => pc'[r] = Place(suspendedOn'[r])
    BY <1>1, <1>4, QueuedOnce DEF QueuesOK
  <2>3. QED  BY <1>3, <2>1, <2>2 DEF QueuesOK, SemaOK, Queued
<1>6. Owners' = Owners
  <2>1. \A r \in Procs :
         r \in Owners <=> /\ pc'[r] # "outside"
                          /\ IF r \in Suspended' THEN suspendedOn'[r] = nullSemaphore
                             ELSE \A x \in Semas : r \notin Queued(sema', x)
    BY <1>1, <1>2, <1>4, OwnersNow
  <2>2. Owners \in SUBSET Procs
    BY DEF Owners
  <2>3. QED  BY <2>1, <2>2, OwnersAre DEF Queued
<1>7. OnePermit'
  BY <1>3, <1>6, OnePermitIf DEF OnePermit, Owners, Counted
<1>8. SemaphoresTypeOK'
  BY <1>1, <1>3, <1>4 DEF SemaphoresTypeOK, SemaOK, TypeOK
<1>9. QED  BY <1>5, <1>7, <1>8

LEMMA ResumeStep ==
  ASSUME TypeOK, QueuesOK, OnePermit, NEW p \in Procs, Resume(p), UNCHANGED pc
  PROVE  SemaphoresTypeOK' /\ QueuesOK' /\ OnePermit'
<1>1. /\ p \in Suspended
      /\ Suspended' = Suspended \ {p}
      /\ \A r \in Suspended' : suspendedOn'[r] = suspendedOn[r]
      /\ suspendedOn[p] \in Semas \cup {nullSemaphore}
      /\ \A s \in Semas : p \notin Queued(sema, s)
  BY QueuedOnce DEF Resume, Suspended, TypeOK, SemaphoresTypeOK
<1> DEFINE s == suspendedOn[p]
<1>2. \/ s = nullSemaphore /\ sema' = sema
      \/ s \in Semas /\ sema' = Waited(sema, s, p)
  BY <1>1 DEF Resume
<1>3. s \in Semas => pc[p] = Place(s)
  BY <1>1, Constants DEF QueuesOK
<1>4. /\ SemaOK(sema', Semas, Procs)
      /\ \/ /\ s = nullSemaphore
            /\ Counted(sema', Semas) = Counted(sema, Semas)
            /\ \A r \in Semas : Queued(sema', r) = Queued(sema, r)
         \/ /\ s \in Semas /\ s \in Counted(sema, Semas)
            /\ Counted(sema', Semas) = Counted(sema, Semas) \ {s}
            /\ \A r \in Semas : Queued(sema', r) = Queued(sema, r)
         \/ /\ s \in Semas /\ s \notin Counted(sema, Semas)
            /\ Counted(sema', Semas) = Counted(sema, Semas)
            /\ Queued(sema', s) = Queued(sema, s) \cup {p}
            /\ \A r \in Semas \ {s} : Queued(sema', r) = Queued(sema, r)
  <2>1. CASE s = nullSemaphore /\ sema' = sema
    BY <2>1, QueuedOnce
  <2>2. CASE s \in Semas /\ sema' = Waited(sema, s, p)
    BY <1>1, <2>2, QueuedOnce, WaitedEffect
  <2>3. QED  BY <1>2, <2>1, <2>2
<1>5. QueuesOK'
  <2>1. \A r \in Semas : Queued(sema', r) \subseteq Queued(sema, r)
                           \cup (IF r = s THEN {p} ELSE {})
    BY <1>4
  <2>2. \A r \in Semas : \A q \in Queued(sema', r) : pc'[q] = Place(r) /\ q \notin Suspended'
    BY <1>1, <1>3, <2>1, QueuedOnce
  <2>3. \A r \in Suspended' :
          suspendedOn'[r] # nullSemaphore => pc'[r] = Place(suspendedOn'[r])
    BY <1>1, QueuedOnce DEF QueuesOK
  <2>4. QED  BY <1>4, <2>2, <2>3 DEF QueuesOK, SemaOK, Queued
<1>6. SemaphoresTypeOK'
  BY <1>1, <1>4 DEF SemaphoresTypeOK, SemaOK, TypeOK
<1>7. PICK t \in Procs \cup Semas : Owners \cup Counted(sema, Semas) = {t}
  BY DEF OnePermit, Owners, Counted
<1>8. CASE s \in Semas /\ s \in Counted(sema, Semas)
  <2>1. Owners = {} /\ Counted(sema, Semas) = {s}
    BY <1>7, <1>8, Constants DEF Owners, Counted
  <2>2. Counted(sema', Semas) = {} /\ \A r \in Semas : Queued(sema', r) = Queued(sema, r)
    BY <1>4, <1>8, <2>1, Constants
  <2>3. Owners' = {p}
    <3>1. \A r \in Procs :
           r \in {p} <=> /\ pc'[r] # "outside"
                         /\ IF r \in Suspended' THEN suspendedOn'[r] = nullSemaphore
                            ELSE \A x \in Semas : r \notin Queued(sema', x)
      BY <1>1, <1>3, <1>8, <2>1, <2>2, OwnersNow, Constants
    <3>2. QED  BY <3>1, OwnersAre DEF Queued
  <2>4. QED  BY <1>5, <1>6, <2>2, <2>3, OnePermitIf DEF Counted
<1>9. CASE ~(s \in Semas /\ s \in Counted(sema, Semas))
  <2>1. Counted(sema', Semas) = Counted(sema, Semas)
    BY <1>4, <1>9
  <2>2. Owners' = Owners
    <3>1. \A r \in Procs :
           r \in Owners <=> /\ pc'[r] # "outside"
                            /\ IF r \in Suspended' THEN suspendedOn'[r] = nullSemaphore
                               ELSE \A x \in Semas : r \notin Queued(sema', x)
      BY <1>1, <1>4, <1>9, OwnersNow, Constants
    <3>2. Owners \in SUBSET Procs
      BY DEF Owners
    <3>3. QED  BY <3>1, <3>2, OwnersAre DEF Queued
  <2>3. QED  BY <1>5, <1>6, <1>7, <2>1, <2>2, OnePermitIf DEF Counted
<1>10. QED  BY <1>8, <1>9

-----------------------------------------------------------------------------
(* The holder. *)

\* The types of what belongs to the monitor and to the processes in it.
RestType ==
  /\ holdingProcess \in Procs \cup {nil}
  /\ holdCount \in Nat
  /\ size \in Nat
  /\ pc       \in [Procs -> PCs]
  /\ toSignal \in [Procs -> Semas]
  /\ hc       \in [Procs -> Nat]
  /\ depth    \in [Procs -> Nat]
  /\ left     \in [Procs -> Nat]

HolderInv == RestType /\ DepthOK /\ HolderAgrees

\* Nobody else is inside while a process in the middle of something runs.
LEMMA InsideAlone ==
  ASSUME QueuesOK, OnePermit, NEW p \in Procs, CanRun(p), pc[p] # "outside",
         NEW r \in Procs, r # p
  PROVE  pc[r] # "inside"
<1>1. SUFFICES ASSUME pc[r] = "inside" PROVE FALSE
  OBVIOUS
<1>2. \A s \in Semas : r \notin Queued(sema, s)
  BY <1>1, Constants DEF QueuesOK
<1>3. r \in Suspended => suspendedOn[r] = nullSemaphore
  BY <1>1 DEF QueuesOK, Place
<1>4. r \in Owners
  BY <1>1, <1>2, <1>3, OwnersNow
<1>5. QED  BY <1>4, RunnerOwns

\* A step of p alone that leaves it inside, outside or where no one holds.
LEMMA EnterHolder ==
  ASSUME HolderInv, NEW p \in Procs, Enter(p) \/ ExitSignal(p)
  PROVE  HolderInv'
BY MonitorAssumption
   DEF HolderInv, RestType, DepthOK, HolderAgrees, Enter, ExitSignal, At, Goto, PCs,
       monitorVars, clientVars

LEMMA EnteredHolder ==
  ASSUME HolderInv, QueuesOK, OnePermit, NEW p \in Procs, Entered(p)
  PROVE  HolderInv'
<1>1. \A r \in Procs : pc[r] # "inside"
  BY InsideAlone DEF Entered, At
<1>2. holdingProcess = nil /\ holdCount = 0
  BY <1>1 DEF HolderInv, RestType, HolderAgrees
<1>3. /\ holdingProcess' = p /\ holdCount' = 1 /\ depth' = [depth EXCEPT ![p] = 1]
      /\ pc' = [pc EXCEPT ![p] = "inside"]
      /\ UNCHANGED <<size, left, toSignal, hc>>
  BY <1>2 DEF Entered, Goto
<1>4. RestType'
  BY <1>3 DEF HolderInv, RestType, PCs
<1>5. DepthOK'
  BY <1>3 DEF HolderInv, RestType, DepthOK
<1>6. HolderAgrees'
  BY <1>1, <1>3, Constants DEF HolderInv, RestType, HolderAgrees
<1>7. QED  BY <1>4, <1>5, <1>6 DEF HolderInv

\* What is known of a process that runs inside.
LEMMA InsideHolds ==
  ASSUME HolderInv, NEW p \in Procs, pc[p] = "inside"
  PROVE  /\ holdingProcess = p /\ holdCount = depth[p] /\ depth[p] \in Nat \ {0}
         /\ p # nil
         /\ \A r \in Procs \ {p} : pc[r] # "inside"
BY Constants DEF HolderInv, RestType, DepthOK, HolderAgrees

LEMMA EnterAgainHolder ==
  ASSUME HolderInv, NEW p \in Procs, EnterAgain(p)
  PROVE  HolderInv'
<1>1. /\ pc[p] = "inside" /\ holdCount' = 1 + holdCount
      /\ depth' = [depth EXCEPT ![p] = @ + 1]
      /\ UNCHANGED <<holdingProcess, size, left, pc, toSignal, hc>>
  BY DEF EnterAgain, At
<1>2. RestType'
  BY <1>1 DEF HolderInv, RestType
<1>3. DepthOK'
  BY <1>1 DEF HolderInv, RestType, DepthOK
<1>4. HolderAgrees'
  BY <1>1, InsideHolds DEF HolderInv, RestType, HolderAgrees
<1>5. QED  BY <1>2, <1>3, <1>4 DEF HolderInv

LEMMA ExitHolder ==
  ASSUME HolderInv, NEW p \in Procs, Exit(p)
  PROVE  HolderInv'
<1>1. /\ pc[p] = "inside" /\ holdCount' = holdCount - 1
      /\ depth' = [depth EXCEPT ![p] = @ - 1]
      /\ UNCHANGED <<size, left, toSignal, hc>>
  BY DEF Exit, At
<1>2. depth'[p] = depth[p] - 1 /\ \A r \in Procs \ {p} : depth'[r] = depth[r]
  BY <1>1 DEF HolderInv, RestType
<1>3. depth' \in [Procs -> Nat] /\ holdCount' \in Nat /\ holdCount' = depth'[p]
  BY <1>1, <1>2, InsideHolds DEF HolderInv, RestType
<1>4. CASE holdCount' = 0
  <2>1. holdingProcess' = nil /\ pc' = [pc EXCEPT ![p] = "exit"]
    BY <1>4 DEF Exit, Goto
  <2>2. RestType'
    BY <1>1, <1>3, <2>1 DEF HolderInv, RestType, PCs
  <2>3. DepthOK'
    BY <1>1, <1>2, <2>1 DEF HolderInv, RestType, DepthOK
  <2>4. HolderAgrees'
    BY <1>1, <1>4, <2>1, InsideHolds, Constants DEF HolderInv, RestType, HolderAgrees
  <2>5. QED  BY <2>2, <2>3, <2>4 DEF HolderInv
<1>5. CASE holdCount' # 0
  <2>1. UNCHANGED <<holdingProcess, pc>>
    BY <1>5 DEF Exit
  <2>2. RestType'
    BY <1>1, <1>3, <2>1 DEF HolderInv, RestType
  <2>3. DepthOK'
    BY <1>1, <1>2, <1>3, <1>5, <2>1 DEF HolderInv, RestType, DepthOK
  <2>4. HolderAgrees'
    BY <1>1, <1>3, <2>1, InsideHolds DEF HolderInv, RestType, HolderAgrees
  <2>5. QED  BY <2>2, <2>3, <2>4 DEF HolderInv
<1>6. QED  BY <1>4, <1>5

LEMMA OperateHolder ==
  ASSUME HolderInv, NEW p \in Procs, Operate(p)
  PROVE  HolderInv'
<1>1. /\ left[p] \in Nat /\ left[p] > 0 /\ size \in Nat
      /\ size' = IF p \in Producers THEN size + 1 ELSE size - 1
      /\ p \notin Producers => size > 0
      /\ left' = [left EXCEPT ![p] = @ - 1]
      /\ UNCHANGED <<holdingProcess, holdCount, depth, pc, toSignal, hc>>
  BY DEF Operate, Condition, HolderInv, RestType, monitorVars
<1>2. size' \in Nat
  BY <1>1
<1>3. left' \in [Procs -> Nat]
  BY <1>1 DEF HolderInv, RestType
<1>4. RestType'
  BY <1>1, <1>2, <1>3 DEF HolderInv, RestType
<1>5. QED  BY <1>1, <1>4 DEF HolderInv, DepthOK, HolderAgrees

LEMMA WaitConditionHolder ==
  ASSUME HolderInv, NEW p \in Procs, WaitCondition(p)
  PROVE  HolderInv'
<1>1. /\ pc[p] = "inside" /\ pc' = [pc EXCEPT ![p] = "wait"]
      /\ hc' = [hc EXCEPT ![p] = holdCount] /\ holdCount' = 0 /\ holdingProcess' = nil
      /\ UNCHANGED <<size, depth, left, toSignal>>
  BY DEF WaitCondition, At, Goto, clientVars
<1>2. RestType'
  BY <1>1 DEF HolderInv, RestType, PCs
<1>3. DepthOK'
  BY <1>1, InsideHolds DEF HolderInv, RestType, DepthOK
<1>4. HolderAgrees'
  BY <1>1, InsideHolds, Constants DEF HolderInv, RestType, HolderAgrees
<1>5. QED  BY <1>2, <1>3, <1>4 DEF HolderInv

LEMMA WokenHolder ==
  ASSUME HolderInv, QueuesOK, OnePermit, NEW p \in Procs, Woken(p)
  PROVE  HolderInv'
<1>1. \A r \in Procs : pc[r] # "inside"
  BY InsideAlone DEF Woken, At
<1>2. /\ pc[p] = "waking" /\ pc' = [pc EXCEPT ![p] = "inside"]
      /\ holdCount' = hc[p] /\ holdingProcess' = p
      /\ UNCHANGED <<size, depth, left, toSignal, hc>>
  BY DEF Woken, At, Goto, clientVars
<1>3. RestType'
  BY <1>2 DEF HolderInv, RestType, PCs
<1>4. DepthOK'
  BY <1>2 DEF HolderInv, RestType, DepthOK
<1>5. HolderAgrees'
  BY <1>1, <1>2, Constants DEF HolderInv, RestType, DepthOK, HolderAgrees
<1>6. QED  BY <1>3, <1>4, <1>5 DEF HolderInv

LEMMA SignallingHolder ==
  ASSUME HolderInv, NEW p \in Procs, SemaphoreToSignal(p) \/ SignalAndThenWait(p)
  PROVE  HolderInv'
<1>1. /\ \/ pc[p] = "exit" /\ pc' = [pc EXCEPT ![p] = "exitSignal"]
         \/ pc[p] = "wait" /\ pc' = [pc EXCEPT ![p] = "waitSignal"]
         \/ pc[p] = "waitSignal" /\ pc' = [pc EXCEPT ![p] = "waking"]
      /\ UNCHANGED <<holdingProcess, holdCount, size, depth, left, hc>>
      /\ toSignal' \in [Procs -> Semas]
  BY Constants DEF SemaphoreToSignal, SignalAndThenWait, At, Goto, clientVars, monitorVars,
     Preferred, HolderInv, RestType
<1>2. RestType'
  BY <1>1 DEF HolderInv, RestType, PCs
<1>3. DepthOK'
  BY <1>1 DEF HolderInv, RestType, DepthOK
<1>4. HolderAgrees'
  BY <1>1 DEF HolderInv, RestType, HolderAgrees
<1>5. QED  BY <1>2, <1>3, <1>4 DEF HolderInv

-----------------------------------------------------------------------------
LEMMA InvParts == Inv <=> SemaphoresTypeOK /\ QueuesOK /\ OnePermit /\ HolderInv
BY DEF Inv, TypeOK, HolderInv, RestType

\* The types of the semaphores, where nobody is suspended or resumed.
LEMMA SemaphoresType ==
  ASSUME TypeOK, QueuesOK', UNCHANGED suspendedOn
  PROVE  SemaphoresTypeOK'
BY DEF TypeOK, SemaphoresTypeOK, QueuesOK, SemaOK, Suspended

LEMMA InvStep ==
  ASSUME Inv, [Next]_vars
  PROVE  Inv'
<1>1. TypeOK /\ QueuesOK /\ OnePermit /\ HolderInv
  BY InvParts DEF Inv
<1>2. ASSUME NEW p \in Procs,
             Entered(p) \/ EnterAgain(p) \/ Exit(p) \/ SemaphoreToSignal(p)
               \/ Operate(p) \/ WaitCondition(p) \/ Woken(p)
      PROVE  Inv'
  <2>1. /\ CanRun(p) /\ pc[p] # "outside" /\ UNCHANGED <<sema, suspendedOn>>
        /\ \E c \in PCs \ {"outside"} : pc' = [pc EXCEPT ![p] = c]
    <3>1. /\ CanRun(p) /\ pc[p] # "outside" /\ UNCHANGED <<sema, suspendedOn>>
          /\ \/ \E c \in PCs \ {"outside"} : pc' = [pc EXCEPT ![p] = c]
             \/ pc' = pc
      BY <1>2 DEF Entered, EnterAgain, Exit, SemaphoreToSignal, Operate, WaitCondition,
                  Woken, At, Goto, PCs
    <3>2. pc[p] \in PCs /\ pc = [pc EXCEPT ![p] = pc[p]]
      BY <1>1 DEF TypeOK
    <3>3. QED  BY <3>1, <3>2
  <2>2. QueuesOK' /\ OnePermit'
    BY <1>1, <2>1, QuietStep
  <2>3. HolderInv'
    BY <1>1, <1>2, EnteredHolder, EnterAgainHolder, ExitHolder, OperateHolder,
       WaitConditionHolder, WokenHolder, SignallingHolder
  <2>4. SemaphoresTypeOK'
    BY <1>1, <2>1, <2>2, SemaphoresType
  <2>5. QED  BY <2>2, <2>3, <2>4, InvParts, PTL
<1>3. ASSUME NEW p \in Procs, Enter(p) \/ ExitSignal(p) \/ SignalAndThenWait(p)
      PROVE  Inv'
  <2>1. QueuesOK' /\ OnePermit'
    BY <1>1, <1>3, EnterStep, ExitSignalStep, SignalAndThenWaitStep
  <2>2. HolderInv'
    BY <1>1, <1>3, EnterHolder, SignallingHolder
  <2>3. UNCHANGED suspendedOn
    BY <1>3 DEF Enter, ExitSignal, SignalAndThenWait
  <2>4. SemaphoresTypeOK'
    BY <1>1, <2>1, <2>3, SemaphoresType
  <2>5. QED  BY <2>1, <2>2, <2>4, InvParts, PTL
<1>4. ASSUME NEW p \in Procs, SuspendOrResume(p)
      PROVE  Inv'
  <2>1. SemaphoresTypeOK' /\ QueuesOK' /\ OnePermit'
    BY <1>1, <1>4, SuspendStep, ResumeStep DEF SuspendOrResume
  <2>2. HolderInv'
    BY <1>1, <1>4 DEF SuspendOrResume, monitorVars, clientVars, HolderInv, RestType, DepthOK,
                      HolderAgrees
  <2>3. QED  BY <2>1, <2>2, InvParts, PTL
<1>5. ASSUME UNCHANGED vars PROVE Inv'
  <2>1. /\ SemaphoresTypeOK' /\ HolderInv'
    BY <1>1, <1>5 DEF vars, monitorVars, clientVars, TypeOK, SemaphoresTypeOK, Suspended,
                      HolderInv, RestType, DepthOK, HolderAgrees
  <2>2. QueuesOK'
    BY <1>1, <1>5 DEF vars, QueuesOK, SemaOK, Queued, Suspended
  <2>3. OnePermit'
    BY <1>1, <1>5 DEF vars, OnePermit, Owns, Waits, Suspended
  <2>4. QED  BY <2>1, <2>2, <2>3, InvParts, PTL
<1>6. QED
  <2>1. ASSUME NEW p \in Procs, Step(p) PROVE Inv'
    BY <1>2, <1>3, <2>1 DEF Step
  <2>2. QED  BY <1>4, <1>5, <2>1, MonitorAssumption DEF Next

LEMMA InvInit == Init => Inv
<1> SUFFICES ASSUME Init PROVE Inv
  OBVIOUS
<1>1. /\ \A s \in Semas : /\ sema[s].queue = <<>>
                          /\ sema[s].count = IF s = monitorSemaphore THEN 1 ELSE 0
      /\ sema \in [Semas -> [count : 0..binaryCapacity, queue : Seq(Procs)]]
      /\ Suspended = {}
  BY DEF Init, binaryCapacity, Suspended
<1>2. \A s \in Semas : Queued(sema, s) = {} /\ NoDup(sema[s].queue)
  BY <1>1 DEF Queued, Elems, NoDup
<1>3. SemaphoresTypeOK /\ QueuesOK
  BY <1>1, <1>2 DEF SemaphoresTypeOK, QueuesOK, SemaOK
<1>4. OnePermit
  <2>1. Counted(sema, Semas) = {monitorSemaphore}
    BY <1>1, Constants DEF Counted
  <2>2. Owners = {}
    BY DEF Init, Owners, Owns
  <2>3. QED  BY <2>1, <2>2, Constants DEF OnePermit, Owners, Counted
<1>5. HolderInv
  BY MonitorAssumption, Constants DEF Init, HolderInv, RestType, DepthOK, HolderAgrees, PCs
<1>6. QED  BY <1>3, <1>4, <1>5, InvParts

LEMMA InvHolds == Spec => []Inv
BY InvInit, InvStep, PTL DEF Spec

\* Every variable keeps its type, so holdCount, the permits and the size of the
\* buffer never become negative.
THEOREM MonitorTypes == Spec => []TypeOK
BY InvHolds, PTL DEF Inv

\* For any number of processes, while any of them are suspended and resumed:
\* the monitor has one permit, never more nor less, so that no two processes
\* are inside and the permit is not lost (monitor.self:170-201, 436-450).
THEOREM PermitKept == Spec => []OnePermit
BY InvHolds, PTL DEF Inv

\* holdingProcess is the process inside, and holdCount how many times it has
\* entered, to any depth, also after waitCondition (monitor.self:174, 442-448).
THEOREM HolderCorrect == Spec => []HolderAgrees
BY InvHolds, PTL DEF Inv

-----------------------------------------------------------------------------
(* The argument of the comment in semaphoreToSignal. *)

\* Two processes in the middle of something, neither of them waiting for a
\* semaphore, are one.
LEMMA SignallerAlone ==
  ASSUME Inv, Suspended = {}, NEW p \in Procs, NEW r \in Procs, CanRun(r),
         pc[p] \in {"exitSignal", "waitSignal"}, pc[r] # "outside"
  PROVE  p = r
<1>1. \A s \in Semas : p \notin Queued(sema, s)
  BY Constants DEF Inv, QueuesOK
<1>2. p \in Owners
  BY <1>1, OwnersNow
<1>3. QED  BY <1>2, RunnerOwns DEF Inv

LEMMA ArrivalStep ==
  ASSUME Inv, Suspendable = {}, Suspended = {}, NobodyArrives, [Next]_vars
  PROVE  Suspended' = {} /\ NobodyArrives'
<1>1. UNCHANGED vars \/ \E r \in Procs : Step(r)
  BY DEF Next
<1>2. UNCHANGED suspendedOn
  BY <1>1 DEF vars, Step, Enter, Entered, EnterAgain, Exit, SemaphoreToSignal, ExitSignal,
              Operate, WaitCondition, SignalAndThenWait, Woken
<1>3. SUFFICES ASSUME NEW p \in Procs, pc'[p] \in {"exitSignal", "waitSignal"},
                      toSignal'[p] = monitorSemaphore
               PROVE  sema'[conditionSemaphore].queue = <<>>
  BY <1>2 DEF NobodyArrives, Suspended
<1>4. CASE UNCHANGED vars
  BY <1>3, <1>4 DEF vars, NobodyArrives
<1>5. CASE SemaphoreToSignal(p)
  <2>1. sema' = sema /\ Preferred = monitorSemaphore
    BY <1>3, <1>5 DEF SemaphoreToSignal, Inv, TypeOK
  <2>2. QED  BY <2>1, Constants DEF Preferred
<1>6. ASSUME NEW r \in Procs, Step(r), ~SemaphoreToSignal(p)
      PROVE  sema'[conditionSemaphore].queue = <<>>
  <2>1. pc[p] = pc'[p] /\ toSignal[p] = toSignal'[p]
    BY <1>3, <1>6 DEF Step, Enter, Entered, EnterAgain, Exit, SemaphoreToSignal, ExitSignal,
                      Operate, WaitCondition, SignalAndThenWait, Woken, Goto, Inv, TypeOK
  <2>2. sema[conditionSemaphore].queue = <<>>
    BY <1>3, <2>1 DEF NobodyArrives
  <2>3. ~ExitSignal(r) /\ ~SignalAndThenWait(r)
    <3>1. SUFFICES ASSUME ExitSignal(r) \/ SignalAndThenWait(r) PROVE FALSE
      OBVIOUS
    <3>2. CanRun(r) /\ pc[r] # "outside" /\ pc'[r] \in {"outside", "waking"}
      BY <3>1 DEF ExitSignal, SignalAndThenWait, At, Goto, Inv, TypeOK
    <3>3. p = r
      BY <1>3, <2>1, <3>2, SignallerAlone
    <3>4. QED  BY <1>3, <3>2, <3>3
  <2>4. CASE Enter(r)
    <3>1. sema' = Waited(sema, monitorSemaphore, r)
      BY <2>4 DEF Enter
    <3>2. sema'[conditionSemaphore] = sema[conditionSemaphore]
      BY <3>1, Constants DEF Waited, Inv, TypeOK, SemaphoresTypeOK
    <3>3. QED  BY <2>2, <3>2
  <2>5. CASE UNCHANGED sema
    BY <2>2, <2>5
  <2>6. QED  BY <1>6, <2>3, <2>4, <2>5
             DEF Step, Entered, EnterAgain, Exit, SemaphoreToSignal, Operate, WaitCondition,
                 Woken
<1>7. QED  BY <1>1, <1>4, <1>5, <1>6

\* As long as nobody is suspended, the comment in semaphoreToSignal is right:
\* nobody arrives at conditionSemaphore between the choice and the signal
\* (monitor.self:411-420).  The run of this property shows that this is needed.
THEOREM NobodyArrivesUnsuspended == Suspendable = {} => (Spec => []NobodyArrives)
<1> SUFFICES ASSUME Suspendable = {} PROVE Spec => []NobodyArrives
  OBVIOUS
<1>1. Init => Suspended = {} /\ NobodyArrives
  BY DEF Init, Suspended, NobodyArrives
<1>2. Inv /\ (Suspended = {} /\ NobodyArrives) /\ [Next]_vars
        => (Suspended = {} /\ NobodyArrives)'
  BY ArrivalStep
<1>3. QED  BY <1>1, <1>2, InvHolds, PTL DEF Spec
=============================================================================
