------------------------------- MODULE Lemmas --------------------------------
(***************************************************************************)
(* Lemmas that the proofs of several modules use: about natural numbers    *)
(* and loops, about queues of waiting processes, and about binary          *)
(* semaphores.                                                             *)
(***************************************************************************)
EXTENDS WaitQueue, FiniteSetTheorems, TLAPS

-----------------------------------------------------------------------------
(* Loops.  A loop goes from state to state until it reaches one in stop,   *)
(* and returns what out holds for that state; the recursive functions of   *)
(* the model are such loops.  What a loop returns for every input follows  *)
(* from the least counterexample, without an induction theorem.            *)

\* A set of natural numbers has a least element: of the intervals 1..n, n in
\* the set, one has no other as a proper subset.
LEMMA Least ==
  ASSUME NEW S \in SUBSET Nat, S # {}
  PROVE  \E n \in S : \A m \in S : n <= m
<1> DEFINE T == {1..n : n \in S}
<1>1. T \subseteq FiniteSubsetsOf(Nat) /\ T # {}
  <2>1. ASSUME NEW n \in S PROVE 1..n \in FiniteSubsetsOf(Nat)
    BY FS_Interval DEF FiniteSubsetsOf
  <2> QED  BY <2>1
<1>2. IsWellFoundedOn(StrictSubsetOrdering(Nat), FiniteSubsetsOf(Nat))
  BY FS_StrictSubsetOrderingWellFounded
<1> HIDE DEF T
<1>3. PICK x \in T : \A y \in T : ~ (<<y, x>> \in StrictSubsetOrdering(Nat))
  BY <1>1, <1>2, WFMin
<1>4. PICK n \in S : x = 1..n
  BY DEF T
<1>5. ASSUME NEW m \in S, m < n PROVE FALSE
  <2>1. 1..m \in T
    BY DEF T
  <2>2. <<1..m, x>> \in StrictSubsetOrdering(Nat)
     BY <1>4, <1>5 DEF StrictSubsetOrdering
  <2> QED BY <1>3, <2>1, <2>2
<1> QED  BY <1>5

\* step leads from every state outside stop to another state.
Goes(D, stop, step) == stop \subseteq D /\ \A s \in D \ stop : step[s] \in D

\* I holds on in the loop: every step leads from I to I.
Keeps(I, stop, step) == \A s \in I \ stop : step[s] \in I

\* f is what the loop returns.
IsLoop(f, D, stop, step, out) ==
  f = [s \in D |-> IF s \in stop THEN out[s] ELSE f[step[s]]]

\* The states in stop that are in every set the loop does not leave.
Reachable(D, stop, step, s) ==
  {t \in stop : \A I \in SUBSET D : s \in I /\ Keeps(I, stop, step) => t \in I}

\* The recursive definition of a loop has a solution: the one state in stop
\* that can be reached decides what it returns.
LEMMA LoopExists ==
  ASSUME NEW D, NEW stop, NEW step, NEW out, Goes(D, stop, step)
  PROVE  \E f : IsLoop(f, D, stop, step, out)
<1> DEFINE R(s) == Reachable(D, stop, step, s)
           e(s) == CHOOSE t \in R(s) : TRUE
           f == [s \in D |-> out[e(s)]]
<1>1. ASSUME NEW s \in stop PROVE R(s) = {s}
  <2>1. s \in R(s)
     BY DEF Reachable
  <2>2. {s} \in SUBSET D /\ Keeps({s}, stop, step)
     BY DEF Goes, Keeps
  <2>3. ASSUME NEW t \in R(s) PROVE t = s
     BY <2>2, <2>3 DEF Reachable
  <2> QED BY <2>1, <2>3
<1>2. ASSUME NEW s \in D \ stop PROVE R(s) = R(step[s])
  <2>1. ASSUME NEW t \in R(s) PROVE t \in R(step[s])
    <3>1. SUFFICES ASSUME NEW I \in SUBSET D, step[s] \in I, Keeps(I, stop, step)
                   PROVE  t \in I
      BY <2>1 DEF Reachable
    <3>2. I \cup {s} \in SUBSET D /\ s \in I \cup {s} /\ Keeps(I \cup {s}, stop, step)
      BY <3>1 DEF Keeps
    <3>3. t \in I \cup {s} /\ t \in stop
      BY <2>1, <3>2 DEF Reachable
    <3> QED  BY <3>3
  <2>2. ASSUME NEW t \in R(step[s]) PROVE t \in R(s)
    <3>1. SUFFICES ASSUME NEW I \in SUBSET D, s \in I, Keeps(I, stop, step)
                   PROVE  t \in I
      BY <2>2 DEF Reachable
    <3>2. step[s] \in I
      BY <3>1 DEF Keeps
    <3> QED  BY <2>2, <3>1, <3>2 DEF Reachable
  <2> QED  BY <2>1, <2>2
<1> HIDE DEF R
<1>3. ASSUME NEW s \in stop PROVE e(s) = s /\ s \in D
  BY <1>1 DEF Goes
<1>4. ASSUME NEW s \in D \ stop PROVE e(s) = e(step[s]) /\ step[s] \in D
  BY <1>2 DEF Goes
<1> HIDE DEF e
<1>5. ASSUME NEW s \in D PROVE f[s] = IF s \in stop THEN out[s] ELSE f[step[s]]
  BY <1>3, <1>4
<1>6. f = [s \in D |-> IF s \in stop THEN out[s] ELSE f[step[s]]]
  BY <1>5
<1> QED  BY <1>6 DEF IsLoop

\* A loop whose steps diminish m, where I holds on, ends, and I holds at its end.
LEMMA LoopRule ==
  ASSUME NEW D, NEW stop, NEW step, NEW out, Goes(D, stop, step),
         NEW f, IsLoop(f, D, stop, step, out),
         NEW m \in [D -> Nat],
         NEW I \in SUBSET D, Keeps(I, stop, step), NEW s \in I,
         \A x \in I \ stop : m[step[x]] < m[x]
  PROVE  \E t \in I \cap stop : f[s] = out[t]
<1> DEFINE Ends(x) == \E t \in I \cap stop : f[x] = out[t]
           B == {x \in I : ~Ends(x)}
           M == {m[x] : x \in B}
<1>1. SUFFICES ASSUME B # {} PROVE FALSE
  OBVIOUS
<1>2. M \in SUBSET Nat /\ M # {}
  BY <1>1
<1>3. PICK k \in M : \A j \in M : k <= j
  BY <1>2, Least
<1>4. PICK x \in B : k = m[x]
  OBVIOUS
<1>5. f[x] = IF x \in stop THEN out[x] ELSE f[step[x]]
  BY <1>4 DEF IsLoop
<1>6. x \notin stop
  BY <1>4, <1>5
<1>7. step[x] \in I /\ m[step[x]] < m[x] /\ step[x] \in D
  BY <1>4, <1>6 DEF Keeps
<1>8. step[x] \notin B
  BY <1>3, <1>4, <1>7
<1> QED  BY <1>4, <1>5, <1>6, <1>7, <1>8

\* The same, with the hypotheses in one.
Ending(f, D, stop, step, out, m, I) ==
  /\ Goes(D, stop, step) /\ IsLoop(f, D, stop, step, out)
  /\ m \in [D -> Nat] /\ I \in SUBSET D /\ Keeps(I, stop, step)
  /\ \A x \in I \ stop : m[step[x]] < m[x]

LEMMA LoopEnds ==
  ASSUME NEW f, NEW D, NEW stop, NEW step, NEW out, NEW m, NEW I,
         Ending(f, D, stop, step, out, m, I), NEW s \in I
  PROVE  \E t \in I \cap stop : f[s] = out[t]
BY LoopRule DEF Ending
-----------------------------------------------------------------------------
(* Joining and leaving a queue, whose members are on it once each.         *)

NoDup(s) == \A i, j \in DOMAIN s : s[i] = s[j] => i = j

LEMMA AppendElems ==
  ASSUME NEW P, NEW s \in Seq(P), NEW p \in P
  PROVE  /\ Append(s, p) \in Seq(P)
         /\ Elems(Append(s, p)) = Elems(s) \cup {p}
         /\ NoDup(s) /\ p \notin Elems(s) => NoDup(Append(s, p))
         /\ Append(s, p) # <<>>
<1>1. /\ Append(s, p) \in Seq(P)
      /\ Append(s, p) # <<>>
      /\ DOMAIN Append(s, p) = 1..(Len(s) + 1)
      /\ DOMAIN s = 1..Len(s)
      /\ \A i \in 1..Len(s) : Append(s, p)[i] = s[i]
      /\ Append(s, p)[Len(s) + 1] = p
      /\ Len(s) \in Nat
  OBVIOUS
<1>2. Elems(Append(s, p)) = Elems(s) \cup {p}
  BY <1>1 DEF Elems
<1>3. NoDup(s) /\ p \notin Elems(s) => NoDup(Append(s, p))
  BY <1>1 DEF NoDup, Elems
<1>4. QED  BY <1>1, <1>2, <1>3

LEMMA TailElems ==
  ASSUME NEW P, NEW s \in Seq(P), s # <<>>
  PROVE  /\ Tail(s) \in Seq(P)
         /\ Head(s) \in P
         /\ Head(s) \in Elems(s)
         /\ NoDup(s) => NoDup(Tail(s)) /\ Elems(Tail(s)) = Elems(s) \ {Head(s)}
<1>1. /\ Tail(s) \in Seq(P)
      /\ DOMAIN Tail(s) = 1..(Len(s) - 1)
      /\ DOMAIN s = 1..Len(s)
      /\ \A i \in 1..(Len(s) - 1) : Tail(s)[i] = s[i + 1]
      /\ Head(s) = s[1]
      /\ Head(s) \in P
      /\ Len(s) \in Nat \ {0}
  OBVIOUS
<1>2. Head(s) \in Elems(s)
  BY <1>1 DEF Elems
<1>3. ASSUME NoDup(s) PROVE NoDup(Tail(s))
  BY <1>1, <1>3 DEF NoDup
<1>4. ASSUME NoDup(s) PROVE Elems(Tail(s)) = Elems(s) \ {Head(s)}
  <2>1. ASSUME NEW x \in Elems(Tail(s)) PROVE x \in Elems(s) \ {Head(s)}
    BY <1>1, <1>4, <2>1 DEF NoDup, Elems
  <2>2. ASSUME NEW x \in Elems(s) \ {Head(s)} PROVE x \in Elems(Tail(s))
    <3>1. PICK i \in 1..Len(s) : s[i] = x
      BY <1>1, <2>2 DEF Elems
    <3>2. i # 1 /\ i - 1 \in 1..(Len(s) - 1) /\ (i - 1) + 1 = i
      BY <1>1, <2>2, <3>1
    <3>3. Tail(s)[i - 1] = x
      BY <1>1, <3>1, <3>2
    <3>4. QED  BY <1>1, <3>2, <3>3 DEF Elems
  <2>3. QED  BY <2>1, <2>2
<1>5. QED  BY <1>1, <1>2, <1>3, <1>4

LEMMA WithoutElems ==
  ASSUME NEW P, NEW s \in Seq(P), NEW p \in P
  PROVE  /\ Without(s, p) \in Seq(P)
         /\ s = <<>> => Without(s, p) = <<>>
         /\ p \notin Elems(s) => Without(s, p) = s
         /\ NoDup(s) => /\ NoDup(Without(s, p))
                        /\ Elems(Without(s, p)) = Elems(s) \ {p}
<1>1. p \notin Elems(s) => Without(s, p) = s
  BY DEF Without
<1>2. s = <<>> => p \notin Elems(s)
  BY DEF Elems
<1>3. SUFFICES ASSUME p \in Elems(s)
               PROVE  /\ Without(s, p) \in Seq(P)
                      /\ NoDup(s) => /\ NoDup(Without(s, p))
                                     /\ Elems(Without(s, p)) = Elems(s) \ {p}
  BY <1>1, <1>2
<1> DEFINE k == CHOOSE i \in DOMAIN s : s[i] = p
           w == [i \in 1..(Len(s) - 1) |-> IF i < k THEN s[i] ELSE s[i + 1]]
<1>4. k \in DOMAIN s /\ s[k] = p
  BY <1>3 DEF Elems
<1>5. Without(s, p) = w
  BY <1>3 DEF Without
<1>6. DOMAIN s = 1..Len(s) /\ Len(s) \in Nat \ {0} /\ k \in 1..Len(s)
  BY <1>4
<1> HIDE DEF k
<1>7. \A i \in 1..(Len(s) - 1) : w[i] \in P
  BY <1>6
<1>8. w \in Seq(P) /\ DOMAIN w = 1..(Len(s) - 1)
  BY <1>6, <1>7
<1>9. ASSUME NoDup(s) PROVE NoDup(w)
  BY <1>6, <1>9 DEF NoDup
<1>10. ASSUME NoDup(s) PROVE Elems(w) = Elems(s) \ {p}
  <2>1. ASSUME NEW x \in Elems(w) PROVE x \in Elems(s) \ {p}
    BY <1>4, <1>6, <1>10, <2>1 DEF NoDup, Elems
  <2>2. ASSUME NEW x \in Elems(s) \ {p} PROVE x \in Elems(w)
    <3>1. PICK i \in 1..Len(s) : s[i] = x
      BY <1>6, <2>2 DEF Elems
    <3>2. i # k
      BY <1>4, <2>2, <3>1
    <3>3. CASE i < k
      <4>1. i \in 1..(Len(s) - 1) /\ w[i] = x
        BY <1>6, <3>1, <3>3
      <4>2. QED  BY <4>1 DEF Elems
    <3>4. CASE i > k
      <4>1. i - 1 \in 1..(Len(s) - 1) /\ w[i - 1] = x
        BY <1>6, <3>1, <3>4
      <4>2. QED  BY <4>1 DEF Elems
    <3>5. QED  BY <1>6, <3>1, <3>2, <3>3, <3>4
  <2>3. QED  BY <2>1, <2>2
<1>11. QED  BY <1>5, <1>8, <1>9, <1>10
-----------------------------------------------------------------------------
(* The operations on binary semaphores: which semaphores have a permit and *)
(* who is queued where, before and after.                                  *)

\* The semaphores S as such: each of the processes P at most once on a queue.
SemaOK(st, S, P) ==
  /\ st \in [S -> [count : 0..binaryCapacity, queue : Seq(P)]]
  /\ \A s \in S : NoDup(st[s].queue)

Counted(st, S) == {s \in S : st[s].count > 0}

Queued(st, s) == Elems(st[s].queue)

LEMMA WaitedEffect ==
  ASSUME NEW S, NEW P, NEW st, SemaOK(st, S, P), NEW s \in S, NEW p \in P,
         p \notin Queued(st, s)
  PROVE  /\ SemaOK(Waited(st, s, p), S, P)
         /\ \/ /\ s \in Counted(st, S)
               /\ Counted(Waited(st, s, p), S) = Counted(st, S) \ {s}
               /\ \A r \in S : Queued(Waited(st, s, p), r) = Queued(st, r)
            \/ /\ s \notin Counted(st, S)
               /\ Counted(Waited(st, s, p), S) = Counted(st, S)
               /\ Queued(Waited(st, s, p), s) = Queued(st, s) \cup {p}
               /\ \A r \in S \ {s} : Queued(Waited(st, s, p), r) = Queued(st, r)
<1>1. /\ st[s].queue \in Seq(P) /\ NoDup(st[s].queue)
      /\ st[s].count \in 0..1
  BY DEF SemaOK, binaryCapacity
<1>2. CASE st[s].count > 0
  <2>1. Waited(st, s, p) = [st EXCEPT ![s].count = @ - 1]
    BY <1>2 DEF Waited
  <2>2. SemaOK(Waited(st, s, p), S, P)
    BY <1>1, <1>2, <2>1 DEF SemaOK, binaryCapacity
  <2>3. /\ s \in Counted(st, S)
        /\ Counted(Waited(st, s, p), S) = Counted(st, S) \ {s}
        /\ \A r \in S : Queued(Waited(st, s, p), r) = Queued(st, r)
    BY <1>1, <1>2, <2>1 DEF SemaOK, Counted, Queued
  <2>4. QED  BY <2>2, <2>3
<1>3. CASE ~(st[s].count > 0)
  <2>1. Waited(st, s, p) = [st EXCEPT ![s].queue = Append(@, p)]
    BY <1>3 DEF Waited
  <2>2. /\ Append(st[s].queue, p) \in Seq(P)
        /\ Elems(Append(st[s].queue, p)) = Elems(st[s].queue) \cup {p}
        /\ NoDup(Append(st[s].queue, p))
    BY <1>1, AppendElems DEF Queued
  <2>3. SemaOK(Waited(st, s, p), S, P)
    BY <2>1, <2>2 DEF SemaOK
  <2>4. /\ s \notin Counted(st, S)
        /\ Counted(Waited(st, s, p), S) = Counted(st, S)
        /\ Queued(Waited(st, s, p), s) = Queued(st, s) \cup {p}
        /\ \A r \in S \ {s} : Queued(Waited(st, s, p), r) = Queued(st, r)
    BY <1>3, <2>1, <2>2 DEF SemaOK, Counted, Queued
  <2>5. QED  BY <2>3, <2>4
<1>4. QED  BY <1>2, <1>3

LEMMA SignalledEffect ==
  ASSUME NEW S, NEW P, NEW st, SemaOK(st, S, P), NEW s \in S
  PROVE  /\ SemaOK(Signalled(st, s), S, P)
         /\ \/ /\ Queued(st, s) = {}
               /\ Counted(Signalled(st, s), S) = Counted(st, S) \cup {s}
               /\ \A r \in S : Queued(Signalled(st, s), r) = Queued(st, r)
            \/ \E q \in Queued(st, s) :
                 /\ q \in P
                 /\ Counted(Signalled(st, s), S) = Counted(st, S)
                 /\ Queued(Signalled(st, s), s) = Queued(st, s) \ {q}
                 /\ \A r \in S \ {s} : Queued(Signalled(st, s), r) = Queued(st, r)
<1>1. /\ st[s].queue \in Seq(P) /\ NoDup(st[s].queue)
      /\ st[s].count \in 0..1
  BY DEF SemaOK, binaryCapacity
<1>2. CASE st[s].queue = <<>>
  <2>1. Signalled(st, s) = [st EXCEPT ![s].count = IF @ < binaryCapacity THEN @ + 1 ELSE @]
    BY <1>2 DEF Signalled
  <2>a. (IF st[s].count < binaryCapacity THEN st[s].count + 1 ELSE st[s].count) = 1
    BY <1>1 DEF binaryCapacity
  <2>2. Signalled(st, s) = [st EXCEPT ![s].count = 1]
    BY <2>1, <2>a
  <2>3. SemaOK(Signalled(st, s), S, P)
    BY <2>2 DEF SemaOK, binaryCapacity
  <2>4. /\ Counted(Signalled(st, s), S) = Counted(st, S) \cup {s}
        /\ \A r \in S : Queued(Signalled(st, s), r) = Queued(st, r)
    BY <2>2 DEF SemaOK, Counted, Queued
  <2>5. Queued(st, s) = {}
    BY <1>2 DEF Queued, Elems
  <2>6. QED  BY <2>3, <2>4, <2>5
<1>3. CASE st[s].queue # <<>>
  <2>1. Signalled(st, s) = [st EXCEPT ![s].queue = Tail(@)]
    BY <1>3 DEF Signalled
  <2> DEFINE q == Head(st[s].queue)
  <2>2. /\ Tail(st[s].queue) \in Seq(P)
        /\ NoDup(Tail(st[s].queue))
        /\ Elems(Tail(st[s].queue)) = Elems(st[s].queue) \ {q}
        /\ q \in P /\ q \in Queued(st, s)
    BY <1>1, <1>3, TailElems DEF Queued
  <2>3. SemaOK(Signalled(st, s), S, P)
    BY <2>1, <2>2 DEF SemaOK
  <2>4. /\ Counted(Signalled(st, s), S) = Counted(st, S)
        /\ Queued(Signalled(st, s), s) = Queued(st, s) \ {q}
        /\ \A r \in S \ {s} : Queued(Signalled(st, s), r) = Queued(st, r)
    BY <2>1, <2>2 DEF SemaOK, Counted, Queued
  <2>5. QED  BY <2>2, <2>3, <2>4
<1>4. QED  BY <1>2, <1>3
=============================================================================
