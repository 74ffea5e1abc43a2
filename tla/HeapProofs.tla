------------------------------ MODULE HeapProofs ------------------------------
(***************************************************************************)
(* Proofs about heaps (objects/core/priorityQueue.self): the priority      *)
(* queue, which executes its loops step by step, and the readyQ and the    *)
(* timerWaiters, whose operations are functions on heaps.                  *)
(*                                                                         *)
(* Adding an element and removing the first keep a heap in order whatever  *)
(* its size.  Removing another one does so only up to five elements, and   *)
(* what is not in order may not be found again.  There are therefore three *)
(* kinds of results: for any number of elements, nothing is lost; for any  *)
(* number as long as the heap is in order, what the properties say; and    *)
(* the properties, for up to five elements.                                *)
(***************************************************************************)
EXTENDS PriorityQueue, ReadyQueue, TimerWaiters, Lemmas

-----------------------------------------------------------------------------
(* The shape of the tree. *)

LEMMA ParentFacts ==
  ASSUME NEW i \in Nat \ {0}
  PROVE  /\ Parent(i) \in Nat
         /\ Parent(i) < i
         /\ i = 2 * Parent(i) + 1 \/ i = 2 * Parent(i) + 2
BY DEF Parent

LEMMA ParentOf ==
  ASSUME NEW i \in Nat, NEW j \in Nat
  PROVE  /\ j = 2 * i + 1 => Parent(j) = i
         /\ j = 2 * i + 2 => Parent(j) = i
         /\ j # 0 /\ Parent(j) = i => j = 2 * i + 1 \/ j = 2 * i + 2
BY DEF Parent

LEMMA LeafFacts ==
  ASSUME NEW i \in Nat, NEW n \in Nat
  PROVE  i < n \div 2 <=> 2 * i + 1 < n
BY SMT

-----------------------------------------------------------------------------
(* A vector c with the n used elements from S, whose order is that of their *)
(* ranks.                                                                   *)

Vector(c, n, S) == n \in Nat /\ c \in [0..(n - 1) -> S]

\* The element at i does not precede the one at j.
InOrder(c, rank, j, i) == ~Precedes(rank, c[i], c[j])

Ordered(c, n, rank) == \A i \in 1..(n - 1) : InOrder(c, rank, Parent(i), i)

\* The children of x are in order with the parent of x.
Bridged(c, n, rank, x) ==
  \A i \in 1..(n - 1) :
    Parent(i) = x /\ x > 0 => InOrder(c, rank, Parent(x), i)

\* All is in order but x with its parent, or but the children of x with x.
RisingAt(c, n, rank, x) ==
  /\ x \in 0..(n - 1)
  /\ \A i \in 1..(n - 1) : i = x \/ InOrder(c, rank, Parent(i), i)
  /\ Bridged(c, n, rank, x)

SinkingAt(c, n, rank, x) ==
  /\ x \in Nat
  /\ \A i \in 1..(n - 1) : Parent(i) = x \/ InOrder(c, rank, Parent(i), i)
  /\ Bridged(c, n, rank, x)

\* d is c with its elements in another order.
Rearranged(d, c, n, S) ==
  /\ Vector(d, n, S)
  /\ Elements(d) = Elements(c)
  /\ IsInjective(c) => IsInjective(d)

\* The preferred child is a child, and its sibling does not precede it.
LEMMA ChildFacts ==
  ASSUME NEW S, NEW n, NEW c, Vector(c, n, S), NEW rank \in [S -> Int],
         NEW i \in Nat, i < n \div 2
  PROVE  LET k == PreferredChild(c, n, i, rank) IN
         /\ k \in 1..(n - 1)
         /\ Parent(k) = i
         /\ k > i
         /\ \A j \in 1..(n - 1) : Parent(j) = i => InOrder(c, rank, k, j)
<1> DEFINE k == PreferredChild(c, n, i, rank)
<1>0. n \in Nat /\ c \in [0..(n - 1) -> S]
  BY DEF Vector
<1>1. 2 * i + 1 < n
  BY <1>0, LeafFacts
<1>2. k \in {2 * i + 1, 2 * i + 2} /\ k < n
  BY <1>0, <1>1 DEF PreferredChild
<1>3. Parent(k) = i /\ k > i
  BY <1>2, ParentOf
<1>4. ASSUME NEW j \in 1..(n - 1), Parent(j) = i
      PROVE  InOrder(c, rank, k, j)
  <2>1. j \in {2 * i + 1, 2 * i + 2}
    BY <1>0, <1>4, ParentOf
  <2>2. c[j] \in S /\ c[k] \in S /\ c[2 * i + 1] \in S
    BY <1>0, <1>1, <1>2
  <2>3. rank[c[j]] \in Int /\ rank[c[k]] \in Int
    BY <2>2
  <2> QED
    BY <1>0, <1>1, <1>2, <2>1, <2>3 DEF PreferredChild, InOrder, Precedes
<1>5. k \in 1..(n - 1)
  BY <1>0, <1>2
<1> HIDE DEF k
<1> QED
  BY <1>3, <1>4, <1>5 DEF k

LEMMA SwappedFacts ==
  ASSUME NEW S, NEW n, NEW c, Vector(c, n, S),
         NEW i \in 0..(n - 1), NEW j \in 0..(n - 1), i # j
  PROVE  LET d == Swapped(c, i, j) IN
         /\ Rearranged(d, c, n, S)
         /\ d[i] = c[j] /\ d[j] = c[i]
         /\ \A k \in 0..(n - 1) : k \notin {i, j} => d[k] = c[k]
<1> DEFINE d == Swapped(c, i, j)
<1>1. /\ Vector(d, n, S)
      /\ DOMAIN d = 0..(n - 1) /\ DOMAIN c = 0..(n - 1)
      /\ d[i] = c[j] /\ d[j] = c[i]
      /\ \A k \in 0..(n - 1) : k \notin {i, j} => d[k] = c[k]
  BY DEF Swapped, Vector
<1> HIDE DEF d
<1>2. Elements(d) = Elements(c)
  BY <1>1 DEF Elements
<1>3. IsInjective(c) => IsInjective(d)
  BY <1>1 DEF IsInjective
<1> QED
  BY <1>1, <1>2, <1>3 DEF d, Rearranged

\* The order of the sorter is transitive and total.
LEMMA OrderFacts ==
  ASSUME NEW S, NEW n, NEW c, Vector(c, n, S), NEW rank \in [S -> Int],
         NEW i \in 0..(n - 1), NEW j \in 0..(n - 1), NEW k \in 0..(n - 1)
  PROVE  /\ InOrder(c, rank, i, i)
         /\ InOrder(c, rank, i, j) /\ InOrder(c, rank, j, k) => InOrder(c, rank, i, k)
         /\ Precedes(rank, c[i], c[j]) => InOrder(c, rank, i, j)
<1>1. rank[c[i]] \in Int /\ rank[c[j]] \in Int /\ rank[c[k]] \in Int
  BY DEF Vector
<1> QED
  BY <1>1 DEF InOrder, Precedes

\* In an ordered heap nothing precedes the first element: the least index of
\* an element that did would have a parent that did not.
LEMMA RootFirst ==
  ASSUME NEW S, NEW n, NEW c, Vector(c, n, S), NEW rank \in [S -> Int],
         Ordered(c, n, rank), NEW i \in 0..(n - 1)
  PROVE  InOrder(c, rank, 0, i)
<1> DEFINE Bad == {j \in 0..(n - 1) : ~InOrder(c, rank, 0, j)}
<1>1. SUFFICES ASSUME i \in Bad PROVE FALSE
  OBVIOUS
<1>2. n \in Nat /\ 0 \in 0..(n - 1) /\ Bad \in SUBSET Nat
  BY DEF Vector
<1>3. PICK m \in Bad : \A x \in Bad : m <= x
  BY <1>1, <1>2, Least
<1>4. m # 0
  BY <1>2, <1>3, OrderFacts
<1>5. Parent(m) \in 0..(n - 1) /\ Parent(m) < m /\ m \in 1..(n - 1)
  BY <1>2, <1>3, <1>4, ParentFacts
<1>6. InOrder(c, rank, Parent(m), m)
  BY <1>5 DEF Ordered
<1>7. InOrder(c, rank, 0, Parent(m))
  BY <1>2, <1>3, <1>5
<1> QED
  BY <1>2, <1>3, <1>5, <1>6, <1>7, OrderFacts

-----------------------------------------------------------------------------
(* One iteration of each loop, and its end. *)

LEMMA UpEnd ==
  ASSUME NEW S, NEW n, NEW c, Vector(c, n, S), NEW rank \in [S -> Int],
         NEW x, RisingAt(c, n, rank, x), ~Rises(c, x, rank)
  PROVE  Ordered(c, n, rank)
BY DEF RisingAt, Rises, InOrder, Ordered

LEMMA UpStep ==
  ASSUME NEW S, NEW n, NEW c, Vector(c, n, S), NEW rank \in [S -> Int],
         NEW x \in 0..(n - 1), Rises(c, x, rank)
  PROVE  LET d == Swapped(c, x, Parent(x)) IN
         /\ Rearranged(d, c, n, S)
         /\ Parent(x) \in 0..(n - 1)
         /\ Parent(x) < x
         /\ RisingAt(c, n, rank, x) => RisingAt(d, n, rank, Parent(x))
<1>0. n \in Nat /\ x \in 1..(n - 1)
  BY DEF Vector, Rises
<1>1. PICK up : up = Parent(x)
  OBVIOUS
<1>2. \A i \in 1..(n - 1) : Parent(i) \in 0..(n - 1) /\ Parent(i) < i
  BY <1>0, ParentFacts
<1>3. up \in 0..(n - 1) /\ up < x /\ x \in 0..(n - 1) /\ Precedes(rank, c[x], c[up])
  BY <1>0, <1>1, <1>2 DEF Rises
<1>4. PICK d : d = Swapped(c, x, up)
  OBVIOUS
<1>5. /\ Rearranged(d, c, n, S)
      /\ d[x] = c[up]
      /\ d[up] = c[x]
      /\ \A k \in 0..(n - 1) : k \notin {x, up} => d[k] = c[k]
  BY <1>3, <1>4, SwappedFacts
<1>6. ASSUME RisingAt(c, n, rank, x)
      PROVE  RisingAt(d, n, rank, up)
  <2>1. \A i \in 1..(n - 1) : i = x \/ InOrder(c, rank, Parent(i), i)
    BY <1>6 DEF RisingAt
  <2>2. \A i \in 1..(n - 1) : Parent(i) = x => InOrder(c, rank, up, i)
    BY <1>0, <1>1, <1>6 DEF RisingAt, Bridged
  <2>3. InOrder(c, rank, x, up)
    BY <1>3, OrderFacts
  <2>4. ASSUME NEW i \in 1..(n - 1), i # up
        PROVE  InOrder(d, rank, Parent(i), i)
    <3>1. CASE i = x
      BY <1>1, <1>5, <2>3, <3>1 DEF InOrder
    <3>2. CASE i # x /\ Parent(i) = x
      <4>1. InOrder(c, rank, up, i)
        BY <2>2, <3>2
      <4> QED
        BY <1>5, <2>4, <3>2, <4>1 DEF InOrder
    <3>3. CASE i # x /\ Parent(i) = up
      <4>1. InOrder(c, rank, up, i)
        BY <2>1, <3>3
      <4>2. InOrder(c, rank, x, i)
        BY <1>3, <2>3, <4>1, OrderFacts
      <4> QED
        BY <1>5, <2>4, <3>3, <4>2 DEF InOrder
    <3>4. CASE i # x /\ Parent(i) \notin {x, up}
      <4>1. InOrder(c, rank, Parent(i), i)
        BY <2>1, <3>4
      <4> QED
        BY <1>2, <1>5, <2>4, <3>4, <4>1 DEF InOrder
    <3> QED
      BY <3>1, <3>2, <3>3, <3>4
  <2>5. ASSUME NEW i \in 1..(n - 1), Parent(i) = up, up > 0
        PROVE  InOrder(d, rank, Parent(up), i)
    <3>1. up \in 1..(n - 1) /\ InOrder(c, rank, Parent(up), up)
      BY <1>3, <2>1, <2>5
    <3>2. Parent(up) \in 0..(n - 1) /\ Parent(up) < up
      BY <1>2, <3>1
    <3>3. d[Parent(up)] = c[Parent(up)]
      BY <1>3, <1>5, <3>2
    <3>4. CASE i = x
      BY <1>5, <3>1, <3>3, <3>4 DEF InOrder
    <3>5. CASE i # x
      <4>1. InOrder(c, rank, up, i)
        BY <2>1, <2>5, <3>5
      <4>2. InOrder(c, rank, Parent(up), i)
        BY <1>3, <3>1, <3>2, <4>1, OrderFacts
      <4>3. i # up
        BY <1>2, <2>5
      <4> QED
        BY <1>5, <3>3, <3>5, <4>2, <4>3 DEF InOrder
    <3> QED
      BY <3>4, <3>5
  <2> QED
    BY <1>3, <2>4, <2>5 DEF RisingAt, Bridged
<1> QED
  BY <1>1, <1>3, <1>4, <1>5, <1>6

LEMMA DownEnd ==
  ASSUME NEW S, NEW n, NEW c, Vector(c, n, S), NEW rank \in [S -> Int],
         NEW x, SinkingAt(c, n, rank, x), ~Sinks(c, n, x, rank)
  PROVE  Ordered(c, n, rank)
<1>0. n \in Nat /\ x \in Nat
  BY DEF Vector, SinkingAt
<1> SUFFICES ASSUME NEW i \in 1..(n - 1)
             PROVE  InOrder(c, rank, Parent(i), i)
  BY DEF Ordered
<1>1. CASE Parent(i) = x
  <2> DEFINE k == PreferredChild(c, n, x, rank)
  <2>1. i = 2 * x + 1 \/ i = 2 * x + 2
    BY <1>0, <1>1, ParentOf
  <2>2. x < n \div 2 /\ x \in 0..(n - 1)
    BY <1>0, <2>1, LeafFacts
  <2>3. k \in 0..(n - 1) /\ InOrder(c, rank, k, i)
    BY <1>0, <1>1, <2>2, ChildFacts
  <2>4. InOrder(c, rank, x, k)
    BY <2>2 DEF Sinks, InOrder
  <2> HIDE DEF k
  <2>5. InOrder(c, rank, x, i)
    BY <1>0, <2>2, <2>3, <2>4, OrderFacts
  <2> QED
    BY <1>1, <2>5
<1>2. CASE Parent(i) # x
  BY <1>2 DEF SinkingAt
<1> QED
  BY <1>1, <1>2

LEMMA DownStep ==
  ASSUME NEW S, NEW n, NEW c, Vector(c, n, S), NEW rank \in [S -> Int],
         NEW x \in Nat, Sinks(c, n, x, rank)
  PROVE  LET k == PreferredChild(c, n, x, rank)
             d == Swapped(c, x, k)
         IN  /\ Rearranged(d, c, n, S)
             /\ k \in Nat /\ x < k /\ k < n
             /\ SinkingAt(c, n, rank, x) => SinkingAt(d, n, rank, k)
<1>0. n \in Nat /\ x < n \div 2
  BY DEF Vector, Sinks
<1>1. PICK child : child = PreferredChild(c, n, x, rank)
  OBVIOUS
<1>2. \A i \in 1..(n - 1) : Parent(i) \in 0..(n - 1) /\ Parent(i) < i
  BY <1>0, ParentFacts
<1>3. /\ child \in 1..(n - 1) /\ Parent(child) = x /\ x < child
      /\ \A i \in 1..(n - 1) : Parent(i) = x => InOrder(c, rank, child, i)
      /\ Precedes(rank, c[child], c[x])
  BY <1>0, <1>1, ChildFacts DEF Sinks
<1>4. child \in 0..(n - 1) /\ x \in 0..(n - 1)
  BY <1>0, <1>3
<1>5. PICK d : d = Swapped(c, x, child)
  OBVIOUS
<1>6. /\ Rearranged(d, c, n, S)
      /\ d[x] = c[child]
      /\ d[child] = c[x]
      /\ \A k \in 0..(n - 1) : k \notin {x, child} => d[k] = c[k]
  BY <1>3, <1>4, <1>5, SwappedFacts
<1>7. ASSUME SinkingAt(c, n, rank, x)
      PROVE  SinkingAt(d, n, rank, child)
  <2>1. \A i \in 1..(n - 1) : Parent(i) = x \/ InOrder(c, rank, Parent(i), i)
    BY <1>7 DEF SinkingAt
  <2>2. \A i \in 1..(n - 1) :
          Parent(i) = x /\ x > 0 => InOrder(c, rank, Parent(x), i)
    BY <1>7 DEF SinkingAt, Bridged
  <2>3. InOrder(c, rank, child, x)
    BY <1>3, <1>4, OrderFacts
  <2>5. ASSUME NEW i \in 1..(n - 1), Parent(i) # child
        PROVE  InOrder(d, rank, Parent(i), i)
    <3>1. CASE i = child
      BY <1>3, <1>6, <2>3, <3>1 DEF InOrder
    <3>2. CASE i # child /\ Parent(i) = x
      <4>1. i # x
        BY <1>2, <3>2
      <4>2. InOrder(c, rank, child, i)
        BY <1>3, <3>2
      <4> QED
        BY <1>6, <3>2, <4>1, <4>2 DEF InOrder
    <3>3. CASE i = x
      <4>1. InOrder(c, rank, Parent(x), child)
        BY <1>0, <1>3, <2>2, <3>3
      <4>2. Parent(i) \in 0..(n - 1) /\ Parent(i) # x
        BY <1>2, <3>3
      <4> QED
        BY <1>6, <2>5, <3>3, <4>1, <4>2 DEF InOrder
    <3>4. CASE i \notin {x, child} /\ Parent(i) # x
      <4>1. InOrder(c, rank, Parent(i), i)
        BY <2>1, <3>4
      <4> QED
        BY <1>2, <1>6, <2>5, <3>4, <4>1 DEF InOrder
    <3> QED
      BY <3>1, <3>2, <3>3, <3>4
  <2>6. ASSUME NEW i \in 1..(n - 1), Parent(i) = child
        PROVE  InOrder(d, rank, Parent(child), i)
    <3>1. InOrder(c, rank, child, i)
      BY <1>0, <2>1, <1>3, <2>6
    <3>2. i > child
      BY <1>2, <2>6
    <3> QED
      BY <1>3, <1>6, <3>1, <3>2 DEF InOrder
  <2> QED
    BY <1>0, <1>3, <2>5, <2>6 DEF SinkingAt, Bridged
<1> QED
  BY <1>0, <1>1, <1>3, <1>5, <1>6, <1>7

-----------------------------------------------------------------------------
(* The loops, run to their end.                                            *)

LEMMA PermutedFacts ==
  ASSUME NEW S, NEW n, NEW c, Vector(c, n, S), NEW d \in Permuted(c)
  PROVE  /\ Vector(d, n, S)
         /\ DOMAIN c = 0..(n - 1) /\ n \in Nat
         /\ \A e : Rearranged(e, d, n, S) => e \in Permuted(c)
<1>1. /\ n \in Nat /\ DOMAIN c = 0..(n - 1) /\ Elements(c) \subseteq S
      /\ d \in [0..(n - 1) -> Elements(c)]
  BY DEF Vector, Elements, Permuted
<1>2. Vector(d, n, S) /\ Elements(d) \subseteq Elements(c)
  <2>1. Vector(d, n, S)
    BY <1>1 DEF Vector
  <2>2. Elements(d) \subseteq Elements(c)
    BY <1>1 DEF Elements
  <2> QED  BY <2>1, <2>2
<1>3. ASSUME NEW e, Rearranged(e, d, n, S) PROVE e \in Permuted(c)
  <2>1. e \in [0..(n - 1) -> S] /\ Elements(e) \subseteq Elements(c)
    BY <1>2, <1>3 DEF Rearranged, Vector
  <2>2. \A i \in 0..(n - 1) : e[i] \in Elements(c)
    BY <2>1 DEF Elements
  <2> QED  BY <1>1, <2>1, <2>2 DEF Permuted
<1> QED  BY <1>1, <1>2, <1>3

LEMMA RearrangedAgain ==
  ASSUME NEW S, NEW n, NEW c, NEW d, NEW e,
         Rearranged(d, c, n, S), Rearranged(e, d, n, S)
  PROVE  Rearranged(e, c, n, S)
BY DEF Rearranged

\* pushLastUp restores the order when only the last element violates it.
LEMMA PushLastUpEffect ==
  ASSUME NEW S, NEW n, NEW c, Vector(c, n, S), n > 0, NEW rank \in [S -> Int]
  PROVE  LET d == PushLastUp(c, n, rank) IN
         /\ Rearranged(d, c, n, S)
         /\ RisingAt(c, n, rank, n - 1) => Ordered(d, n, rank)
<1> DEFINE D == Permuted(c) \X DOMAIN c
           stop == {s \in D : ~Rises(s[1], s[2], rank)}
           step == [s \in D |-> <<Swapped(s[1], s[2], Parent(s[2])), Parent(s[2])>>]
           out == [s \in D |-> s[1]]
           m == [s \in D |-> s[2]]
           I == {s \in D : /\ Rearranged(s[1], c, n, S)
                           /\ RisingAt(c, n, rank, n - 1) => RisingAt(s[1], n, rank, s[2])}
           up == CHOOSE f : f = [s \in D |->
                   IF Rises(s[1], s[2], rank)
                   THEN f[<<Swapped(s[1], s[2], Parent(s[2])), Parent(s[2])>>]
                   ELSE s[1]]
<1>0. n \in Nat /\ DOMAIN c = 0..(n - 1) /\ c \in Permuted(c)
  BY DEF Vector, Permuted, Elements
<1>1. ASSUME NEW s \in D \ stop
      PROVE  /\ step[s] \in D /\ m[step[s]] < m[s]
             /\ s \in I => step[s] \in I
  <2> DEFINE x == s[2]
             d == Swapped(s[1], x, Parent(x))
  <2>1. /\ s \in D /\ s[1] \in Permuted(c) /\ x \in 0..(n - 1)
        /\ Rises(s[1], x, rank)
    BY <1>0
  <2>2. Vector(s[1], n, S)
    BY <2>1, PermutedFacts
  <2>3. /\ Rearranged(d, s[1], n, S)
        /\ Parent(x) \in 0..(n - 1)
        /\ Parent(x) < x
        /\ RisingAt(s[1], n, rank, x) => RisingAt(d, n, rank, Parent(x))
    BY <2>1, <2>2, UpStep
  <2>4. d \in Permuted(c)
    BY <2>1, <2>3, PermutedFacts
  <2>5. Rearranged(s[1], c, n, S) => Rearranged(d, c, n, S)
    BY <2>3, RearrangedAgain
  <2> HIDE DEF d
  <2>6. step[s] = <<d, Parent(x)>>
    BY <2>1 DEF d
  <2>7. <<d, Parent(x)>> \in D
    BY <1>0, <2>3, <2>4
  <2> QED
    BY <2>1, <2>3, <2>5, <2>6, <2>7
<1>2. Goes(D, stop, step) /\ Keeps(I, stop, step)
  BY <1>1 DEF Goes, Keeps
<1>3. \A f : IsLoop(f, D, stop, step, out)
               <=> f = [s \in D |->
                    IF Rises(s[1], s[2], rank)
                    THEN f[<<Swapped(s[1], s[2], Parent(s[2])), Parent(s[2])>>]
                    ELSE s[1]]
  BY DEF IsLoop
<1>4. IsLoop(up, D, stop, step, out)
  <2> HIDE DEF D, stop, step, out
  <2>1. PICK f : IsLoop(f, D, stop, step, out)
    BY <1>2, LoopExists
  <2>2. up = [s \in D |->
                IF Rises(s[1], s[2], rank)
                THEN up[<<Swapped(s[1], s[2], Parent(s[2])), Parent(s[2])>>]
                ELSE s[1]]
    BY <1>3, <2>1
  <2> QED
    BY <1>3, <2>2
<1>5. PushLastUp(c, n, rank) = up[<<c, n - 1>>]
  BY DEF PushLastUp
<1>6. <<c, n - 1>> \in I
  BY <1>0 DEF Rearranged
<1>7. m \in [D -> Nat] /\ I \in SUBSET D
  BY <1>0
<1> HIDE DEF up, step, D, stop, m, out, I
<1>8. PICK t \in I \cap stop : up[<<c, n - 1>>] = out[t]
  BY <1>1, <1>2, <1>4, <1>6, <1>7, LoopRule
<1> USE DEF D, stop, out, I
<1>9. /\ out[t] = t[1] /\ Rearranged(t[1], c, n, S) /\ ~Rises(t[1], t[2], rank)
      /\ RisingAt(c, n, rank, n - 1) => RisingAt(t[1], n, rank, t[2])
  BY <1>8
<1>10. Rearranged(t[1], c, n, S) => Vector(t[1], n, S)
  BY DEF Rearranged
<1> QED
  BY <1>5, <1>8, <1>9, <1>10, UpEnd

\* pushElmDown: restores the order when only the children of x violate it.
LEMMA PushElmDownEffect ==
  ASSUME NEW S, NEW n, NEW c, Vector(c, n, S), NEW rank \in [S -> Int], NEW y \in Nat
  PROVE  LET d == PushElmDown(c, n, y, rank) IN
         /\ Rearranged(d, c, n, S)
         /\ SinkingAt(c, n, rank, y) => Ordered(d, n, rank)
<1> DEFINE D == Permuted(c) \X Nat
           child(s) == PreferredChild(s[1], n, s[2], rank)
           stop == {s \in D : ~Sinks(s[1], n, s[2], rank)}
           step == [s \in D |-> <<Swapped(s[1], s[2], child(s)), child(s)>>]
           out == [s \in D |-> s[1]]
           m == [s \in D |-> IF s[2] < n THEN n - s[2] ELSE 0]
           I == {s \in D : /\ Rearranged(s[1], c, n, S)
                           /\ SinkingAt(c, n, rank, y) => SinkingAt(s[1], n, rank, s[2])}
           down == CHOOSE f : f = [s \in D |->
                     IF Sinks(s[1], n, s[2], rank)
                     THEN f[<<Swapped(s[1], s[2], child(s)), child(s)>>]
                     ELSE s[1]]
<1>0. n \in Nat /\ DOMAIN c = 0..(n - 1) /\ c \in Permuted(c)
  BY DEF Vector, Permuted, Elements
<1>1. ASSUME NEW s \in D \ stop
      PROVE  /\ step[s] \in D /\ m[step[s]] < m[s]
             /\ s \in I => step[s] \in I
  <2> DEFINE x == s[2]
             k == child(s)
             d == Swapped(s[1], x, k)
  <2>1. /\ s \in D /\ s[1] \in Permuted(c) /\ x \in Nat
        /\ Sinks(s[1], n, x, rank)
    BY <1>0
  <2>2. Vector(s[1], n, S)
    BY <2>1, PermutedFacts
  <2>3. /\ Rearranged(d, s[1], n, S)
        /\ k \in Nat /\ x < k /\ k < n
        /\ SinkingAt(s[1], n, rank, x) => SinkingAt(d, n, rank, k)
    BY <2>1, <2>2, DownStep
  <2>4. d \in Permuted(c)
    BY <2>1, <2>3, PermutedFacts
  <2>5. Rearranged(s[1], c, n, S) => Rearranged(d, c, n, S)
    BY <2>3, RearrangedAgain
  <2> HIDE DEF d, k
  <2>6. step[s] = <<d, k>>
    BY <2>1 DEF d, k
  <2>7. <<d, k>> \in D
    BY <1>0, <2>3, <2>4
  <2> QED
    BY <1>0, <2>1, <2>3, <2>5, <2>6, <2>7
<1>2. Goes(D, stop, step) /\ Keeps(I, stop, step)
  BY <1>1 DEF Goes, Keeps
<1>3. \A f : IsLoop(f, D, stop, step, out)
               <=> f = [s \in D |->
                     IF Sinks(s[1], n, s[2], rank)
                     THEN f[<<Swapped(s[1], s[2], child(s)), child(s)>>]
                     ELSE s[1]]
  BY DEF IsLoop
<1>4. IsLoop(down, D, stop, step, out)
  <2> HIDE DEF D, stop, step, out
  <2>1. PICK f : IsLoop(f, D, stop, step, out)
    BY <1>2, LoopExists
  <2>2. down = [s \in D |->
                  IF Sinks(s[1], n, s[2], rank)
                  THEN down[<<Swapped(s[1], s[2], child(s)), child(s)>>]
                  ELSE s[1]]
    BY <1>3, <2>1
  <2> QED
    BY <1>3, <2>2
<1>5. PushElmDown(c, n, y, rank) = down[<<c, y>>]
  BY DEF PushElmDown
<1>6. <<c, y>> \in I
  BY <1>0 DEF Rearranged
<1>7. m \in [D -> Nat] /\ I \in SUBSET D
  BY <1>0
<1> HIDE DEF down, step, D, stop, m, out, I
<1>8. PICK t \in I \cap stop : down[<<c, y>>] = out[t]
  BY <1>1, <1>2, <1>4, <1>6, <1>7, LoopRule
<1> USE DEF D, stop, out, I
<1>9. /\ out[t] = t[1] /\ Rearranged(t[1], c, n, S) /\ ~Sinks(t[1], n, t[2], rank)
      /\ SinkingAt(c, n, rank, y) => SinkingAt(t[1], n, rank, t[2])
  BY <1>8
<1>10. Rearranged(t[1], c, n, S) => Vector(t[1], n, S)
  BY DEF Rearranged
<1> QED
  BY <1>5, <1>8, <1>9, <1>10, DownEnd

-----------------------------------------------------------------------------
(* What add:, removeAtIndex: and remove: do. *)

\* The last element may be put at i: it does not precede the parent of i.
Fits(c, n, rank, i) == i = 0 \/ InOrder(c, rank, Parent(i), n - 1)

LEMMA ExtendedFacts ==
  ASSUME NEW S, NEW n, NEW c, Vector(c, n, S), NEW e \in S, NEW rank
  PROVE  LET d == Extended(c, n, e) IN
         /\ Vector(d, n + 1, S)
         /\ Elements(d) = Elements(c) \cup {e}
         /\ IsInjective(c) /\ e \notin Elements(c) => IsInjective(d)
         /\ Ordered(c, n, rank) => RisingAt(d, n + 1, rank, n)
<1> DEFINE d == Extended(c, n, e)
<1>1. n \in Nat /\ DOMAIN c = 0..(n - 1) /\ c \in [0..(n - 1) -> S]
  BY DEF Vector
<1>2. /\ DOMAIN d = 0..n /\ d[n] = e
      /\ \A k \in 0..(n - 1) : d[k] = c[k]
      /\ Vector(d, n + 1, S)
  BY <1>1 DEF Extended, Vector
<1> HIDE DEF d
<1>3. Elements(d) = Elements(c) \cup {e}
  BY <1>1, <1>2 DEF Elements
<1>4. IsInjective(c) /\ e \notin Elements(c) => IsInjective(d)
  BY <1>1, <1>2 DEF IsInjective, Elements
<1>5. ASSUME Ordered(c, n, rank) PROVE RisingAt(d, n + 1, rank, n)
  <2>1. ASSUME NEW i \in 1..n, i # n
        PROVE  InOrder(d, rank, Parent(i), i)
    <3>1. i \in 1..(n - 1) /\ Parent(i) \in 0..(n - 1)
      BY <1>1, <2>1, ParentFacts
    <3>2. InOrder(c, rank, Parent(i), i)
      BY <1>5, <3>1 DEF Ordered
    <3> QED
      BY <1>2, <3>1, <3>2 DEF InOrder
  <2>2. \A i \in 1..n : Parent(i) # n
    BY <1>1, ParentFacts
  <2> QED
    BY <1>1, <2>1, <2>2 DEF RisingAt, Bridged
<1> QED
  BY <1>2, <1>3, <1>4, <1>5 DEF d

LEMMA ShrunkFacts ==
  ASSUME NEW S, NEW n, NEW c, Vector(c, n, S), NEW rank \in [S -> Int],
         NEW x \in 0..(n - 1)
  PROVE  LET d == Shrunk(c, n, x) IN
         /\ Vector(d, n - 1, S)
         /\ Elements(c) \ {c[x]} \subseteq Elements(d)
         /\ IsInjective(c) => IsInjective(d) /\ Elements(d) = Elements(c) \ {c[x]}
         /\ Ordered(c, n, rank) /\ Fits(c, n, rank, x) => SinkingAt(d, n - 1, rank, x)
<1> DEFINE d == Shrunk(c, n, x)
<1>1. n \in Nat /\ DOMAIN c = 0..(n - 1) /\ c \in [0..(n - 1) -> S]
  BY DEF Vector
<1>2. /\ DOMAIN d = 0..(n - 2)
      /\ \A k \in 0..(n - 2) : d[k] = IF k = x THEN c[n - 1] ELSE c[k]
      /\ Vector(d, n - 1, S)
  BY <1>1 DEF Shrunk, Vector
<1> HIDE DEF d
<1>3. IsInjective(c) => IsInjective(d)
  BY <1>1, <1>2 DEF IsInjective
<1>4. Elements(c) \ {c[x]} \subseteq Elements(d)
  <2> SUFFICES ASSUME NEW k \in 0..(n - 1), c[k] # c[x]
               PROVE  \E j \in 0..(n - 2) : d[j] = c[k]
    BY <1>1, <1>2 DEF Elements
  <2>1. CASE k = n - 1
    <3>1. x \in 0..(n - 2) /\ d[x] = c[k]
      BY <1>1, <1>2, <2>1
    <3> QED  BY <3>1
  <2>2. CASE k # n - 1
    <3>1. k \in 0..(n - 2) /\ d[k] = c[k]
      BY <1>1, <1>2, <2>2
    <3> QED  BY <3>1
  <2> QED  BY <2>1, <2>2
<1>5. ASSUME IsInjective(c) PROVE Elements(d) = Elements(c) \ {c[x]}
  <2>1. ASSUME NEW k \in 0..(n - 2) PROVE d[k] \in Elements(c) \ {c[x]}
    BY <1>1, <1>2, <1>5 DEF IsInjective, Elements
  <2> QED
    BY <1>1, <1>2, <1>4, <2>1 DEF Elements
<1>6. ASSUME Ordered(c, n, rank), Fits(c, n, rank, x)
      PROVE  SinkingAt(d, n - 1, rank, x)
  <2>0. \A i \in 1..(n - 2) : Parent(i) \in 0..(n - 2) /\ Parent(i) < i /\ i \in 1..(n - 1)
    BY <1>1, ParentFacts
  <2>1. ASSUME NEW i \in 1..(n - 2), Parent(i) # x
        PROVE  InOrder(d, rank, Parent(i), i)
    <3>1. /\ Parent(i) \in 0..(n - 2) /\ d[Parent(i)] = c[Parent(i)]
          /\ i \in 0..(n - 2) /\ i # 0
      BY <1>1, <1>2, <2>0, <2>1
    <3>2. CASE i = x
      <4>1. d[i] = c[n - 1] /\ InOrder(c, rank, Parent(i), n - 1)
        BY <1>2, <1>6, <3>1, <3>2 DEF Fits
      <4> QED  BY <3>1, <4>1 DEF InOrder
    <3>3. CASE i # x
      <4>1. d[i] = c[i] /\ InOrder(c, rank, Parent(i), i)
        BY <1>2, <1>6, <2>0, <3>1, <3>3 DEF Ordered
      <4> QED  BY <3>1, <4>1 DEF InOrder
    <3> QED
      BY <3>2, <3>3
  <2>2. ASSUME NEW i \in 1..(n - 2), Parent(i) = x, x > 0
        PROVE  InOrder(d, rank, Parent(x), i)
    <3>1. x \in 1..(n - 2) /\ x < i /\ i \in 0..(n - 1)
      BY <1>1, <2>0, <2>2
    <3>2. Parent(x) \in 0..(n - 2) /\ Parent(x) < x /\ Parent(x) \in 0..(n - 1)
      BY <1>1, <2>0, <3>1
    <3>3. InOrder(c, rank, Parent(x), x) /\ InOrder(c, rank, x, i)
      BY <1>6, <2>0, <2>2, <3>1 DEF Ordered
    <3>4. InOrder(c, rank, Parent(x), i)
      BY <3>1, <3>2, <3>3, OrderFacts
    <3>5. Parent(x) # x /\ i # x /\ i \in 0..(n - 2)
      BY <1>1, <2>2, <3>1, <3>2
    <3>6. d[Parent(x)] = c[Parent(x)] /\ d[i] = c[i]
      BY <1>2, <3>2, <3>5
    <3> QED
      BY <3>4, <3>6 DEF InOrder
  <2> QED
    BY <1>1, <2>1, <2>2 DEF SinkingAt, Bridged
<1> QED
  BY <1>2, <1>3, <1>4, <1>5, <1>6 DEF d

LEMMA AddEffect ==
  ASSUME NEW S, NEW n, NEW c, Vector(c, n, S), NEW rank \in [S -> Int], NEW e \in S
  PROVE  LET d == Add(c, n, e, rank) IN
         /\ Vector(d, n + 1, S)
         /\ Elements(d) = Elements(c) \cup {e}
         /\ IsInjective(c) /\ e \notin Elements(c) => IsInjective(d)
         /\ Ordered(c, n, rank) => Ordered(d, n + 1, rank)
<1>1. PICK x : x = Extended(c, n, e)
  OBVIOUS
<1>2. /\ Vector(x, n + 1, S)
      /\ Elements(x) = Elements(c) \cup {e}
      /\ IsInjective(c) /\ e \notin Elements(c) => IsInjective(x)
      /\ Ordered(c, n, rank) => RisingAt(x, n + 1, rank, n)
  BY <1>1, ExtendedFacts
<1>3. n \in Nat /\ n + 1 > 0 /\ (n + 1) - 1 = n
  BY DEF Vector
<1>4. PICK d : d = PushLastUp(x, n + 1, rank)
  OBVIOUS
<1>5. /\ Rearranged(d, x, n + 1, S)
      /\ RisingAt(x, n + 1, rank, n) => Ordered(d, n + 1, rank)
  BY <1>2, <1>3, <1>4, PushLastUpEffect
<1>6. Add(c, n, e, rank) = d
  BY <1>1, <1>4 DEF Add
<1> QED
  BY <1>2, <1>5, <1>6 DEF Rearranged

LEMMA RemoveAtEffect ==
  ASSUME NEW S, NEW n, NEW c, Vector(c, n, S), NEW rank \in [S -> Int],
         NEW x \in 0..(n - 1)
  PROVE  LET d == RemoveAtIndex(c, n, x, rank) IN
         /\ Vector(d, n - 1, S)
         /\ Elements(c) \ {c[x]} \subseteq Elements(d)
         /\ IsInjective(c) => IsInjective(d) /\ Elements(d) = Elements(c) \ {c[x]}
         /\ Ordered(c, n, rank) /\ Fits(c, n, rank, x) => Ordered(d, n - 1, rank)
<1>1. PICK y : y = Shrunk(c, n, x)
  OBVIOUS
<1>2. /\ Vector(y, n - 1, S) /\ x \in Nat
      /\ Elements(c) \ {c[x]} \subseteq Elements(y)
      /\ IsInjective(c) => IsInjective(y) /\ Elements(y) = Elements(c) \ {c[x]}
      /\ Ordered(c, n, rank) /\ Fits(c, n, rank, x) => SinkingAt(y, n - 1, rank, x)
  BY <1>1, ShrunkFacts
<1>3. PICK d : d = PushElmDown(y, n - 1, x, rank)
  OBVIOUS
<1>4. /\ Rearranged(d, y, n - 1, S)
      /\ SinkingAt(y, n - 1, rank, x) => Ordered(d, n - 1, rank)
  BY <1>2, <1>3, PushElmDownEffect
<1>5. RemoveAtIndex(c, n, x, rank) = d
  BY <1>1, <1>3 DEF RemoveAtIndex
<1> QED
  BY <1>2, <1>4, <1>5 DEF Rearranged

\* remove: takes out no other element, in order or not.
LEMMA RemoveKeepsOthers ==
  ASSUME NEW S, NEW n, NEW c, Vector(c, n, S), NEW rank \in [S -> Int], NEW e
  PROVE  LET d == Remove(c, n, e, rank) IN
         /\ \E k \in Nat : Vector(d, k, S)
         /\ Elements(c) \ {e} \subseteq Elements(d)
<1>1. n \in Nat /\ DOMAIN c = 0..(n - 1)
  BY DEF Vector
<1>2. CASE ~Found(c, e, rank)
  BY <1>1, <1>2 DEF Remove
<1>3. CASE Found(c, e, rank)
  <2> DEFINE x == CHOOSE i \in DOMAIN c : c[i] = e
  <2>1. x \in 0..(n - 1) /\ c[x] = e /\ n - 1 \in Nat
    BY <1>1, <1>3 DEF Elements, Found
  <2>2. Remove(c, n, e, rank) = RemoveAtIndex(c, n, x, rank)
    BY <1>3 DEF Remove
  <2> HIDE DEF x
  <2> QED
    BY <2>1, <2>2, RemoveAtEffect
<1> QED
  BY <1>2, <1>3

\* remove: does not look for an element that precedes the first one: there is
\* none in an ordered heap.
LEMMA RemoveEffect ==
  ASSUME NEW S, NEW n, NEW c, Vector(c, n, S), NEW rank \in [S -> Int], IsInjective(c),
         Ordered(c, n, rank), NEW e \in S
  PROVE  LET d == Remove(c, n, e, rank) IN
         \E k \in Nat :
           /\ Vector(d, k, S)
           /\ Elements(d) = Elements(c) \ {e}
           /\ IsInjective(d)
           /\ (\A x \in 0..(n - 1) : c[x] = e => Fits(c, n, rank, x)) => Ordered(d, k, rank)
<1>1. n \in Nat /\ DOMAIN c = 0..(n - 1)
  BY DEF Vector
<1>2. Precedes(rank, e, c[0]) => e \notin Elements(c)
  BY <1>1, RootFirst DEF Elements, InOrder
<1>3. CASE e \notin Elements(c)
  <2>1. Remove(c, n, e, rank) = c
    BY <1>3 DEF Remove, Found
  <2> QED
    BY <1>1, <1>3, <2>1
<1>4. CASE e \in Elements(c)
  <2> DEFINE x == CHOOSE i \in DOMAIN c : c[i] = e
  <2>1. x \in 0..(n - 1) /\ c[x] = e /\ n - 1 \in Nat
    BY <1>1, <1>4 DEF Elements
  <2>2. Remove(c, n, e, rank) = RemoveAtIndex(c, n, x, rank)
    BY <1>2, <1>4 DEF Remove, Found
  <2> HIDE DEF x
  <2> QED
    BY <2>1, <2>2, RemoveAtEffect
<1> QED
  BY <1>3, <1>4

-----------------------------------------------------------------------------
(* Sizes, and other ranks. *)

LEMMA SizeFacts ==
  ASSUME NEW S, NEW n, NEW c, Vector(c, n, S)
  PROVE  /\ Size(c) = n
         /\ IsInjective(c) => Cardinality(Elements(c)) = n
<1>1. /\ n \in Nat /\ DOMAIN c = 0..(n - 1)
      /\ IsFiniteSet(DOMAIN c) /\ Cardinality(DOMAIN c) = n
  <2>1. n \in Nat /\ DOMAIN c = 0..(n - 1)
    BY DEF Vector
  <2>2. IsFiniteSet(0..(n - 1)) /\ Cardinality(0..(n - 1)) = IF 0 > n - 1 THEN 0 ELSE (n - 1) - 0 + 1
    BY <2>1, FS_Interval
  <2> QED
    BY <2>1, <2>2
<1>2. ASSUME IsInjective(c) PROVE Cardinality(Elements(c)) = n
  <2>1. c \in Surjection(DOMAIN c, Elements(c))
    BY <1>1 DEF Surjection, Elements, Vector
  <2>2. c \in Injection(DOMAIN c, Elements(c))
    BY <1>2, <2>1 DEF Injection, Surjection, IsInjective, IsInjective
  <2> QED
    BY <1>1, <2>1, <2>2, FS_Surjection
<1> QED
  BY <1>1, <1>2 DEF Size

LEMMA OtherRanks ==
  ASSUME NEW S, NEW n, NEW c, Vector(c, n, S), NEW r, NEW q,
         Ordered(c, n, r), \A e \in Elements(c) : r[e] = q[e]
  PROVE  Ordered(c, n, q)
<1> SUFFICES ASSUME NEW i \in 1..(n - 1)
             PROVE  InOrder(c, q, Parent(i), i)
  BY DEF Ordered
<1>1. DOMAIN c = 0..(n - 1) /\ n \in Nat
  BY DEF Vector
<1>2. Parent(i) \in DOMAIN c /\ i \in DOMAIN c
  BY <1>1, ParentFacts
<1> QED
  BY <1>2 DEF Ordered, InOrder, Precedes, Elements

-----------------------------------------------------------------------------
(* PriorityQueue. *)

LoopInv ==
  /\ loop = "none" => Ordered(contents, count, Rank)
  /\ loop = "up" => RisingAt(contents, count, Rank, index)
  /\ loop = "down" => /\ index \in 0..(count - 1)
                      /\ SinkingAt(contents, count, Rank, index)

HeapInv == TypeOK /\ LoopInv /\ IsInjective(contents)

LEMMA HeapInvInit == Init => HeapInv
<1> SUFFICES ASSUME Init PROVE HeapInv
  OBVIOUS
<1>1. count = 0 /\ loop = "none" /\ DOMAIN contents = {} /\ 0..(count - 1) = {}
  BY DEF Init
<1> QED
  BY <1>1 DEF Init, HeapInv, TypeOK, LoopInv, Ordered, IsInjective

LEMMA ContentsFacts ==
  ASSUME HeapInv
  PROVE  /\ Vector(contents, count, Items) /\ Rank \in [Items -> Int]
         /\ count \in Nat /\ DOMAIN contents = 0..(count - 1)
BY RankAssumption DEF HeapInv, TypeOK, Vector

\* What the steps do to the elements, apart from the order.
LEMMA AddStep ==
  ASSUME HeapInv, NEW e \in Items, AddElement(e)
  PROVE  HeapInv' /\ Abstract!Add(e)
<1>1. /\ count' = count + 1 /\ loop' = "up" /\ index' = count /\ loop = "none"
      /\ contents' = Extended(contents, count, e) /\ e \notin Elements(contents)
      /\ result' = result
  BY DEF AddElement, Start
<1>2. /\ Vector(contents', count', Items)
      /\ Elements(contents') = Elements(contents) \cup {e}
      /\ IsInjective(contents) => IsInjective(contents')
      /\ Ordered(contents, count, Rank) => RisingAt(contents', count', Rank, count)
  BY <1>1, ContentsFacts, ExtendedFacts
<1>3. TypeOK'
  BY <1>1, <1>2, ContentsFacts DEF HeapInv, TypeOK, Vector
<1>4. LoopInv' /\ IsInjective(contents)'
  BY <1>1, <1>2 DEF HeapInv, LoopInv
<1>5. Abstract!Add(e)
  BY <1>1, <1>2 DEF Abstract!Add
<1> QED
  BY <1>3, <1>4, <1>5 DEF HeapInv

LEMMA RemoveFirstStep ==
  ASSUME HeapInv, RemoveFirst
  PROVE  HeapInv' /\ Abstract!RemoveFirst
<1>1. /\ count > 0 /\ count' = count - 1 /\ loop = "none" /\ result' = contents[0]
      /\ contents' = Shrunk(contents, count, 0)
      /\ IF count = 1 THEN loop' = "none" /\ index' = 0 ELSE loop' = "down" /\ index' = 0
  BY ContentsFacts DEF RemoveFirst, RemoveIndex, Start, End
<1>2. 0 \in 0..(count - 1) /\ contents[0] \in Elements(contents)
  BY <1>1, ContentsFacts DEF Elements
<1>3. Ordered(contents, count, Rank) /\ IsInjective(contents)
  BY <1>1 DEF HeapInv, LoopInv
<1>4. /\ Vector(contents', count', Items)
      /\ IsInjective(contents')
      /\ Elements(contents') = Elements(contents) \ {contents[0]}
      /\ SinkingAt(contents', count', Rank, 0)
  BY <1>1, <1>2, <1>3, ContentsFacts, ShrunkFacts DEF Fits
<1>5. TypeOK'
  BY <1>1, <1>2, <1>4, ContentsFacts DEF HeapInv, TypeOK, Vector
<1>6. LoopInv'
  BY <1>1, <1>4, ContentsFacts DEF LoopInv, Ordered
<1>7. \A x \in Elements(contents) : Rank[contents[0]] <= Rank[x]
  <2> SUFFICES ASSUME NEW i \in 0..(count - 1)
               PROVE  Rank[contents[0]] <= Rank[contents[i]]
    BY ContentsFacts DEF Elements
  <2>1. InOrder(contents, Rank, 0, i)
    BY <1>3, ContentsFacts, RootFirst
  <2>2. Rank[contents[0]] \in Int /\ Rank[contents[i]] \in Int
    BY <1>2, ContentsFacts DEF Vector
  <2> QED
    BY <2>1, <2>2 DEF InOrder, Precedes
<1>8. Abstract!RemoveFirst
  BY <1>1, <1>2, <1>4, <1>7 DEF Abstract!RemoveFirst
<1> QED
  BY <1>4, <1>5, <1>6, <1>8 DEF HeapInv

LEMMA PushUpStep ==
  ASSUME HeapInv, PushUp
  PROVE  HeapInv' /\ Elements(contents)' = Elements(contents) /\ result' = result
<1>1. /\ loop = "up" /\ count' = count /\ result' = result
      /\ index \in 0..(count - 1) /\ RisingAt(contents, count, Rank, index)
  BY DEF PushUp, HeapInv, LoopInv, RisingAt
<1>2. CASE Rises(contents, index, Rank)
  <2>1. /\ contents' = Swapped(contents, index, Parent(index))
        /\ loop' = "up" /\ index' = Parent(index)
    BY <1>2 DEF PushUp, Start
  <2>2. /\ Rearranged(contents', contents, count, Items)
        /\ Parent(index) \in 0..(count - 1)
        /\ RisingAt(contents', count, Rank, Parent(index))
    BY <1>1, <1>2, <2>1, ContentsFacts, UpStep
  <2> QED
    BY <1>1, <2>1, <2>2, ContentsFacts DEF HeapInv, LoopInv, TypeOK, Rearranged, Vector
<1>3. CASE ~Rises(contents, index, Rank)
  <2>1. contents' = contents /\ loop' = "none" /\ index' = 0
    BY <1>3 DEF PushUp, End
  <2>2. Ordered(contents, count, Rank)
    BY <1>1, <1>3, ContentsFacts, UpEnd
  <2> QED
    BY <1>1, <2>1, <2>2, ContentsFacts DEF HeapInv, LoopInv, TypeOK
<1> QED
  BY <1>2, <1>3

LEMMA PushDownStep ==
  ASSUME HeapInv, PushDown
  PROVE  HeapInv' /\ Elements(contents)' = Elements(contents) /\ result' = result
<1> DEFINE k == PreferredChild(contents, count, index, Rank)
<1>1. /\ loop = "down" /\ count' = count /\ result' = result
      /\ index \in 0..(count - 1) /\ index \in Nat
      /\ SinkingAt(contents, count, Rank, index)
  BY DEF PushDown, HeapInv, LoopInv
<1>2. CASE Sinks(contents, count, index, Rank)
  <2>1. contents' = Swapped(contents, index, k) /\ loop' = "down" /\ index' = k
    BY <1>2 DEF PushDown, Start
  <2>2. /\ Rearranged(contents', contents, count, Items)
        /\ k \in Nat /\ k < count
        /\ SinkingAt(contents', count, Rank, k)
    BY <1>1, <1>2, <2>1, ContentsFacts, DownStep
  <2> HIDE DEF k
  <2> QED
    BY <1>1, <2>1, <2>2, ContentsFacts DEF HeapInv, LoopInv, TypeOK, Rearranged, Vector
<1>3. CASE ~Sinks(contents, count, index, Rank)
  <2>1. contents' = contents /\ loop' = "none" /\ index' = 0
    BY <1>3 DEF PushDown, End
  <2>2. Ordered(contents, count, Rank)
    BY <1>1, <1>3, ContentsFacts, DownEnd
  <2> QED
    BY <1>1, <2>1, <2>2, ContentsFacts DEF HeapInv, LoopInv, TypeOK
<1> QED
  BY <1>2, <1>3

LEMMA HeapInvStep ==
  HeapInv /\ [Next]_vars
    => HeapInv' /\ [Abstract!Next]_<<Elements(contents), result>>
<1> SUFFICES ASSUME HeapInv, [Next]_vars
             PROVE  HeapInv' /\ [Abstract!Next]_<<Elements(contents), result>>
  OBVIOUS
<1>1. CASE \E e \in Items : AddElement(e)
  BY <1>1, AddStep DEF Abstract!Next
<1>2. CASE RemoveFirst
  BY <1>2, RemoveFirstStep DEF Abstract!Next
<1>3. CASE PushUp \/ PushDown
  BY <1>3, PushUpStep, PushDownStep
<1>4. CASE UNCHANGED vars
  BY <1>4 DEF vars, HeapInv, TypeOK, LoopInv
<1> QED
  BY <1>1, <1>2, <1>3, <1>4 DEF Next

LEMMA HeapInvariance == Spec => []HeapInv
BY HeapInvInit, HeapInvStep, PTL DEF Spec

\* The types of the variables are kept, whatever is added and removed.
THEOREM TypeCorrect == Spec => []TypeOK
BY HeapInvariance, PTL DEF HeapInv

\* Whenever no loop is running, no element precedes its parent
\* (priorityQueue.self:79), for every number of elements.
THEOREM HeapOrdered == Spec => []HeapOrder
<1>1. HeapInv => HeapOrder
  BY DEF HeapInv, LoopInv, Ordered, InOrder, HeapOrder
<1> QED
  BY <1>1, HeapInvariance, PTL

LEMMA RefinesInit == Init => Abstract!Init
BY DEF Init, Abstract!Init, Elements

\* Clients that only add elements and remove the first one see a priority
\* queue: removeFirst always returns an element that no other one in the queue
\* precedes, and none is lost or duplicated (priorityQueue.self:101-102).
THEOREM PriorityQueueCorrect == Spec => IsPriorityQueue
BY HeapInvariance, RefinesInit, HeapInvStep, PTL
   DEF Spec, IsPriorityQueue, Abstract!Spec

-----------------------------------------------------------------------------
(* The readyQ and the timerWaiters: heaps c of the elements s, each of them *)
(* a member of S, from which an element is removed wherever it is.          *)

HeapOf(c, S, s) ==
  Vector(c, Size(c), S) /\ IsInjective(c) /\ Elements(c) = s

InHeapOrder(c, rank) == Ordered(c, Size(c), rank)

Few(S) == IsFiniteSet(S) /\ Cardinality(S) <= 5

\* remove: keeps the order of a heap of five elements: the last one, which
\* takes the place of the removed one, is below the same parent or the first.
LEMMA FiveFit ==
  ASSUME NEW S, NEW n, NEW c, Vector(c, n, S), NEW rank \in [S -> Int],
         Ordered(c, n, rank), n <= 5, NEW x \in 0..(n - 1)
  PROVE  Fits(c, n, rank, x)
<1>1. n \in 0..5 /\ n - 1 \in 0..(n - 1)
  BY DEF Vector
<1>2. CASE x \in {1, 2}
  <2>1. Parent(x) = 0
    BY <1>2 DEF Parent
  <2> QED
    BY <1>1, <2>1, RootFirst DEF Fits
<1>3. CASE x \in {3, 4}
  <2>1. Parent(x) = 1 /\ n - 1 \in {3, 4} /\ Parent(n - 1) = 1
    BY <1>1, <1>3 DEF Parent
  <2> QED
    BY <1>1, <2>1 DEF Fits, Ordered
<1> QED
  BY <1>1, <1>2, <1>3 DEF Fits

LEMMA EmptyHeap ==
  ASSUME NEW S, NEW c, c \in [{} -> S], NEW rank
  PROVE  HeapOf(c, S, {}) /\ InHeapOrder(c, rank)
<1>1. Vector(c, 0, S)
  BY DEF Vector
<1>2. Size(c) = 0
  BY <1>1, SizeFacts
<1> QED
  BY <1>1, <1>2 DEF HeapOf, InHeapOrder, Ordered, IsInjective, Elements

LEMMA HeapSize ==
  ASSUME NEW S, NEW s, NEW c, HeapOf(c, S, s)
  PROVE  /\ Size(c) \in Nat /\ s \subseteq S
         /\ Size(c) = Cardinality(s)
         /\ Size(c) = 0 <=> s = {}
         /\ Size(c) > 0 => c[0] \in s
         /\ Few(S) => Size(c) <= 5
<1>1. /\ Size(c) \in Nat /\ DOMAIN c = 0..(Size(c) - 1)
      /\ c \in [0..(Size(c) - 1) -> S] /\ s = {c[i] : i \in 0..(Size(c) - 1)}
  BY DEF HeapOf, Vector, Elements
<1>2. Size(c) = Cardinality(s)
  BY SizeFacts DEF HeapOf
<1>3. s \subseteq S
  BY <1>1
<1>4. Size(c) > 0 => c[0] \in s
  <2>1. Size(c) > 0 => 0 \in 0..(Size(c) - 1)
    BY <1>1
  <2> QED
    BY <1>1, <2>1
<1>5. Size(c) = 0 <=> s = {}
  <2>1. Size(c) = 0 => 0..(Size(c) - 1) = {}
    OBVIOUS
  <2> QED
    BY <1>1, <1>4, <2>1
<1>6. ASSUME Few(S) PROVE Size(c) <= 5
  <2>1. Cardinality(s) <= Cardinality(S) /\ Cardinality(S) \in Nat
    BY <1>3, <1>6, FS_Subset, FS_CardinalityType DEF Few
  <2> QED
    BY <1>1, <1>2, <1>6, <2>1 DEF Few
<1> QED
  BY <1>1, <1>2, <1>3, <1>4, <1>5, <1>6

LEMMA HeapFirst ==
  ASSUME NEW S, NEW s, NEW c, HeapOf(c, S, s), NEW rank \in [S -> Int],
         InHeapOrder(c, rank), NEW e \in s
  PROVE  rank[c[0]] <= rank[e]
<1>1. PICK i \in 0..(Size(c) - 1) : e = c[i]
  BY DEF HeapOf, Vector, Elements
<1>2. InOrder(c, rank, 0, i)
  BY RootFirst DEF HeapOf, InHeapOrder
<1>3. rank[c[0]] \in Int /\ rank[e] \in Int
  BY <1>1 DEF HeapOf, Vector
<1> QED
  BY <1>1, <1>2, <1>3 DEF InOrder, Precedes

LEMMA HeapAdd ==
  ASSUME NEW S, NEW s, NEW c, HeapOf(c, S, s), NEW rank \in [S -> Int],
         NEW e \in S \ s
  PROVE  LET d == Add(c, Size(c), e, rank) IN
         /\ HeapOf(d, S, s \cup {e})
         /\ InHeapOrder(c, rank) => InHeapOrder(d, rank)
<1>1. PICK d : d = Add(c, Size(c), e, rank)
  OBVIOUS
<1>2. /\ Vector(d, Size(c) + 1, S)
      /\ Elements(d) = s \cup {e}
      /\ IsInjective(d)
      /\ InHeapOrder(c, rank) => Ordered(d, Size(c) + 1, rank)
  BY <1>1, AddEffect DEF HeapOf, InHeapOrder
<1>3. Size(d) = Size(c) + 1
  BY <1>2, SizeFacts
<1> QED
  BY <1>1, <1>2, <1>3 DEF HeapOf, InHeapOrder

LEMMA HeapRemoveFirst ==
  ASSUME NEW S, NEW s, NEW c, HeapOf(c, S, s), NEW rank \in [S -> Int], Size(c) > 0
  PROVE  LET d == RemoveAtIndex(c, Size(c), 0, rank) IN
         /\ HeapOf(d, S, s \ {c[0]})
         /\ InHeapOrder(c, rank) => InHeapOrder(d, rank)
<1>1. PICK d : d = RemoveAtIndex(c, Size(c), 0, rank)
  OBVIOUS
<1>2. 0 \in 0..(Size(c) - 1)
  BY HeapSize
<1>3. /\ Vector(d, Size(c) - 1, S)
      /\ Elements(d) = s \ {c[0]}
      /\ IsInjective(d)
      /\ InHeapOrder(c, rank) => Ordered(d, Size(c) - 1, rank)
  BY <1>1, <1>2, RemoveAtEffect DEF HeapOf, InHeapOrder, Fits
<1>4. Size(d) = Size(c) - 1
  BY <1>3, SizeFacts
<1> QED
  BY <1>1, <1>3, <1>4 DEF HeapOf, InHeapOrder

LEMMA HeapRemove ==
  ASSUME NEW S, NEW s, NEW c, HeapOf(c, S, s), NEW rank \in [S -> Int],
         InHeapOrder(c, rank), NEW e \in S
  PROVE  LET d == Remove(c, Size(c), e, rank) IN
         /\ HeapOf(d, S, s \ {e})
         /\ Size(c) <= 5 => InHeapOrder(d, rank)
<1>1. PICK d : d = Remove(c, Size(c), e, rank)
  OBVIOUS
<1>2. /\ Vector(c, Size(c), S) /\ IsInjective(c) /\ Ordered(c, Size(c), rank)
      /\ Elements(c) = s
  BY DEF HeapOf, InHeapOrder
<1>3. PICK k \in Nat :
        /\ Vector(d, k, S)
        /\ Elements(d) = s \ {e}
        /\ IsInjective(d)
        /\ (\A x \in 0..(Size(c) - 1) : c[x] = e => Fits(c, Size(c), rank, x))
             => Ordered(d, k, rank)
  BY <1>1, <1>2, RemoveEffect
<1>4. Size(d) = k
  BY <1>3, SizeFacts
<1>5. Size(c) <= 5 => \A x \in 0..(Size(c) - 1) : Fits(c, Size(c), rank, x)
  BY <1>2, FiveFit
<1> QED
  BY <1>1, <1>3, <1>4, <1>5 DEF HeapOf, InHeapOrder

-----------------------------------------------------------------------------
(* PriorityQueue with remove:, for up to five elements. *)

LEMMA RemoveElementStep ==
  ASSUME HeapInv, Few(Items), NEW e \in Items, RemoveElement(e)
  PROVE  HeapInv' /\ Abstract!Remove(e)
<1>1. PICK i \in DOMAIN contents : contents[i] = e /\ RemoveIndex(i)
  BY DEF RemoveElement
<1>2. /\ loop = "none" /\ result' = result /\ count' = count - 1
      /\ contents' = Shrunk(contents, count, i)
      /\ IF i = count - 1 THEN loop' = "none" /\ index' = 0 ELSE loop' = "down" /\ index' = i
  BY <1>1 DEF RemoveElement, RemoveIndex, Start, End
<1>3. /\ i \in 0..(count - 1) /\ count \in Nat
      /\ Ordered(contents, count, Rank) /\ IsInjective(contents)
  BY <1>2, ContentsFacts DEF HeapInv, LoopInv
<1>4. count <= 5
  <2>1. Size(contents) = count
    BY ContentsFacts, SizeFacts
  <2>2. HeapOf(contents, Items, Elements(contents))
    BY <1>3, <2>1, ContentsFacts DEF HeapOf
  <2> QED
    BY <2>1, <2>2, HeapSize
<1>5. Fits(contents, count, Rank, i)
  BY <1>3, <1>4, ContentsFacts, FiveFit
<1>6. /\ Vector(contents', count', Items)
      /\ IsInjective(contents')
      /\ Elements(contents') = Elements(contents) \ {e}
      /\ SinkingAt(contents', count', Rank, i)
  BY <1>1, <1>2, <1>3, <1>5, ContentsFacts, ShrunkFacts
<1>7. TypeOK'
  BY <1>2, <1>3, <1>6, ContentsFacts DEF HeapInv, TypeOK, Vector
<1>8. LoopInv'
  <2>1. CASE i = count - 1
    <3>1. ~Sinks(contents', count', i, Rank)
      BY <1>2, <1>3, <2>1 DEF Sinks
    <3>2. Ordered(contents', count', Rank)
      BY <1>6, <3>1, ContentsFacts, DownEnd
    <3> QED
      BY <1>2, <2>1, <3>2 DEF LoopInv
  <2>2. CASE i # count - 1
    BY <1>2, <1>3, <1>6, <2>2 DEF LoopInv
  <2> QED
    BY <2>1, <2>2
<1> QED
  BY <1>2, <1>6, <1>7, <1>8 DEF HeapInv, Abstract!Remove

\* Up to five elements may also be removed from anywhere: what the client sees
\* is a priority queue.  Six may not (HeapOrder is violated).
THEOREM FewPriorityQueueCorrect == Few(Items) => (SpecRemove => IsPriorityQueue)
<1> SUFFICES ASSUME Few(Items) PROVE SpecRemove => IsPriorityQueue
  OBVIOUS
<1>1. HeapInv /\ [NextRemove]_vars
        => HeapInv' /\ [Abstract!Next]_<<Elements(contents), result>>
  BY HeapInvStep, RemoveElementStep DEF NextRemove, Abstract!Next
<1> QED
  BY <1>1, HeapInvInit, RefinesInit, PTL DEF SpecRemove, IsPriorityQueue, Abstract!Spec

-----------------------------------------------------------------------------
(* ReadyQueue. *)

ReadyInv ==
  /\ priority \in [Procs -> Priorities]
  /\ running \in Procs \cup {nil}
  /\ HeapOf(readyQ, Procs, onReadyQ)

ReadyOrdered == InHeapOrder(readyQ, ByPriority(priority))

LEMMA RanksByPriority ==
  ASSUME NEW pri \in [Procs -> Priorities]
  PROVE  /\ ByPriority(pri) \in [Procs -> Int]
         /\ \A p \in Procs : pri[p] \in Int /\ ByPriority(pri)[p] = -pri[p]
<1>1. \A p \in Procs : pri[p] \in Int
  BY PriorityAssumption
<1>2. \A p \in Procs : -pri[p] \in Int
  BY <1>1
<1> QED
  BY <1>1, <1>2 DEF ByPriority

LEMMA ReadyInvInit == ReadyInit => ReadyInv /\ ReadyOrdered
<1> SUFFICES ASSUME ReadyInit PROVE ReadyInv /\ ReadyOrdered
  OBVIOUS
<1>1. readyQ \in [{} -> Procs]
  BY DEF ReadyInit
<1> QED
  BY <1>1, EmptyHeap DEF ReadyInit, ReadyInv, ReadyOrdered

\* Changing the priority of a process that is not in a heap keeps its order.
LEMMA OtherPriority ==
  ASSUME NEW s, NEW c, HeapOf(c, Procs, s), NEW p \in Procs \ s,
         priority \in [Procs -> Priorities], NEW new \in Priorities,
         InHeapOrder(c, ByPriority(priority))
  PROVE  InHeapOrder(c, ByPriority([priority EXCEPT ![p] = new]))
<1> DEFINE r == ByPriority(priority)
           q == ByPriority([priority EXCEPT ![p] = new])
<1>1. \A e \in s : r[e] = q[e]
  BY HeapSize DEF ByPriority
<1> HIDE DEF r, q
<1>2. Vector(c, Size(c), Procs) /\ Elements(c) = s
  BY DEF HeapOf
<1>3. InHeapOrder(c, r) => InHeapOrder(c, q)
  BY <1>1, <1>2, OtherRanks DEF InHeapOrder
<1> QED
  BY <1>3 DEF r, q

LEMMA ReadyInvStep ==
  ASSUME ReadyInv, ReadyOrdered, [ReadyNext]_readyVars
  PROVE  /\ ReadyInv'
         /\ Size(readyQ) <= 5 => ReadyOrdered'
<1> DEFINE r == ByPriority(priority)
<1>0. /\ r \in [Procs -> Int] /\ HeapOf(readyQ, Procs, onReadyQ)
      /\ InHeapOrder(readyQ, r)
      /\ onReadyQ \subseteq Procs
  BY RanksByPriority, HeapSize DEF ReadyInv, ReadyOrdered
<1> HIDE DEF r
<1> USE DEF ReadyInv, ReadyOrdered
<1>1. CASE Schedule
  <2>1. PICK p, rest : p = readyQ[0] /\ rest = RemoveAtIndex(readyQ, Size(readyQ), 0, r)
    OBVIOUS
  <2>2. /\ Size(readyQ) > 0 /\ running' = p /\ priority' = priority /\ onReadyQ' = onReadyQ
        /\ readyQ' = Add(rest, Size(rest), p, r)
    BY <1>1, <2>1 DEF Schedule, Added, r
  <2>3. p \in onReadyQ /\ p \in Procs \ (onReadyQ \ {p})
    BY <1>0, <2>1, <2>2, HeapSize
  <2>4. HeapOf(rest, Procs, onReadyQ \ {p}) /\ InHeapOrder(rest, r)
    BY <1>0, <2>1, <2>2, HeapRemoveFirst
  <2>5. HeapOf(readyQ', Procs, (onReadyQ \ {p}) \cup {p}) /\ InHeapOrder(readyQ', r)
    BY <1>0, <2>2, <2>3, <2>4, HeapAdd
  <2>6. (onReadyQ \ {p}) \cup {p} = onReadyQ
    BY <2>3
  <2> QED
    BY <2>2, <2>3, <2>5, <2>6 DEF r
<1>2. CASE Preempt
  BY <1>2 DEF Preempt
<1>3. ASSUME NEW p \in Procs, Leave(p)
      PROVE  ReadyInv' /\ (Size(readyQ) <= 5 => ReadyOrdered')
  <2>1. /\ readyQ' = Remove(readyQ, Size(readyQ), p, r) /\ onReadyQ' = onReadyQ \ {p}
        /\ running' = nil /\ priority' = priority
    BY <1>3 DEF Leave, Removed, r
  <2>2. /\ HeapOf(readyQ', Procs, onReadyQ \ {p})
        /\ Size(readyQ) <= 5 => InHeapOrder(readyQ', r)
    BY <1>0, <2>1, HeapRemove
  <2> QED
    BY <2>1, <2>2 DEF r
<1>4. ASSUME NEW p \in Procs, BecomeReady(p)
      PROVE  ReadyInv' /\ ReadyOrdered'
  <2>1. /\ readyQ' = Add(readyQ, Size(readyQ), p, r) /\ onReadyQ' = onReadyQ \cup {p}
        /\ running' = nil /\ priority' = priority /\ p \in Procs \ onReadyQ
    BY <1>4 DEF BecomeReady, Added, r
  <2>2. HeapOf(readyQ', Procs, onReadyQ \cup {p}) /\ InHeapOrder(readyQ', r)
    BY <1>0, <2>1, HeapAdd
  <2> QED
    BY <2>1, <2>2 DEF r
<1>5. ASSUME NEW p \in Procs, NEW new \in Priorities, ChangePriority(p, new)
      PROVE  ReadyInv' /\ (Size(readyQ) <= 5 => ReadyOrdered')
  <2> DEFINE changed == [priority EXCEPT ![p] = new]
             q == ByPriority(changed)
             lost == p \in onReadyQ /\ ~Found(readyQ, p, r)
  <2>0. CASE lost
    <3>1. UNCHANGED <<readyQ, priority, onReadyQ>> /\ running' = nil
      BY <1>5, <2>0 DEF ChangePriority, r
    <3> QED
      BY <3>1
  <2> SUFFICES ASSUME ~lost PROVE ReadyInv' /\ (Size(readyQ) <= 5 => ReadyOrdered')
    BY <2>0
  <2>1. /\ priority' = changed /\ changed \in [Procs -> Priorities]
        /\ onReadyQ' = onReadyQ /\ running' = nil
    BY <1>5 DEF ChangePriority, r
  <2>2. q \in [Procs -> Int]
    BY <2>1, RanksByPriority
  <2>3. CASE p \notin onReadyQ
    <3>1. readyQ' = readyQ
      BY <1>5, <2>3 DEF ChangePriority, r
    <3>2. InHeapOrder(readyQ, q)
      BY <1>0, <2>3, OtherPriority DEF r
    <3> QED
      BY <2>1, <3>1, <3>2
  <2>4. CASE p \in onReadyQ
    <3>1. PICK rest : rest = Remove(readyQ, Size(readyQ), p, r)
      OBVIOUS
    <3>2. readyQ' = Add(rest, Size(rest), p, q)
      BY <1>5, <2>4, <3>1 DEF ChangePriority, Added, Removed, r
    <3>3. /\ HeapOf(rest, Procs, onReadyQ \ {p})
          /\ Size(readyQ) <= 5 => InHeapOrder(rest, r)
      BY <1>0, <3>1, HeapRemove
    <3>4. InHeapOrder(rest, r) => InHeapOrder(rest, q)
      <4>1. p \in Procs \ (onReadyQ \ {p})
        OBVIOUS
      <4> QED
        BY <3>3, <4>1, OtherPriority DEF r
    <3> HIDE DEF q
    <3>5. /\ HeapOf(readyQ', Procs, (onReadyQ \ {p}) \cup {p})
          /\ InHeapOrder(rest, q) => InHeapOrder(readyQ', q)
      BY <2>2, <3>2, <3>3, HeapAdd
    <3>6. (onReadyQ \ {p}) \cup {p} = onReadyQ
      BY <2>4
    <3> QED
      BY <2>1, <3>3, <3>4, <3>5, <3>6 DEF q
  <2> QED
    BY <2>3, <2>4
<1>6. CASE UNCHANGED readyVars
  BY <1>6 DEF readyVars
<1> QED
  BY <1>1, <1>2, <1>3, <1>4, <1>5, <1>6 DEF ReadyNext

LEMMA ReadyInvAgrees == ReadyInv => ReadyQAgrees
BY HeapSize DEF ReadyInv, HeapOf, ReadyQAgrees

LEMMA ScheduleHighest ==
  ASSUME ReadyInv, ReadyOrdered, [ReadyNext]_readyVars, running' # running, running' # nil,
         NEW q \in onReadyQ
  PROVE  priority[q] <= priority[running']
<1>1. Schedule
  BY DEF ReadyNext, Preempt, Leave, BecomeReady, ChangePriority, readyVars
<1>2. running' = readyQ[0] /\ Size(readyQ) > 0
  BY <1>1 DEF Schedule
<1>3. q \in Procs /\ readyQ[0] \in Procs
  BY <1>2, HeapSize DEF ReadyInv
<1>4. ByPriority(priority)[readyQ[0]] <= ByPriority(priority)[q]
  BY RanksByPriority, HeapFirst DEF ReadyInv, ReadyOrdered
<1> QED
  BY <1>2, <1>3, <1>4, RanksByPriority DEF ReadyInv

ReadyComplete ==
  /\ priority \in [Procs -> Priorities]
  /\ Vector(readyQ, Size(readyQ), Procs)
  /\ onReadyQ \subseteq Elements(readyQ)

LEMMA ReadyCompleteStep ==
  ASSUME ReadyComplete, [ReadyNext]_readyVars
  PROVE  ReadyComplete'
<1> USE DEF ReadyComplete
<1>a. \A c, k : Vector(c, k, Procs) => Vector(c, Size(c), Procs)
  BY SizeFacts
<1>0. \A pri \in [Procs -> Priorities] : ByPriority(pri) \in [Procs -> Int]
  BY RanksByPriority
<1>1. CASE Schedule
  <2>1. PICK r : r = ByPriority(priority)
    OBVIOUS
  <2>2. PICK p, rest : p = readyQ[0] /\ rest = RemoveAtIndex(readyQ, Size(readyQ), 0, r)
    OBVIOUS
  <2>3. /\ Size(readyQ) > 0 /\ priority' = priority /\ onReadyQ' = onReadyQ
        /\ readyQ' = Add(rest, Size(rest), p, r)
    BY <1>1, <2>1, <2>2 DEF Schedule, Added
  <2>4. 0 \in 0..(Size(readyQ) - 1) /\ p \in Procs /\ r \in [Procs -> Int]
    BY <1>0, <2>1, <2>2, <2>3 DEF Vector
  <2>5. /\ Vector(rest, Size(readyQ) - 1, Procs)
        /\ Elements(readyQ) \ {p} \subseteq Elements(rest)
    BY <2>2, <2>4, RemoveAtEffect
  <2>6. /\ Vector(readyQ', Size(rest) + 1, Procs)
        /\ Elements(readyQ') = Elements(rest) \cup {p}
    BY <1>a, <2>3, <2>4, <2>5, AddEffect
  <2> QED
    BY <1>a, <2>3, <2>5, <2>6
<1>2. CASE Preempt
  BY <1>2 DEF Preempt
<1>3. ASSUME NEW p \in Procs, Leave(p) PROVE ReadyComplete'
  <2>1. /\ readyQ' = Remove(readyQ, Size(readyQ), p, ByPriority(priority))
        /\ onReadyQ' = onReadyQ \ {p} /\ priority' = priority
    BY <1>3 DEF Leave, Removed
  <2> QED
    BY <1>a, <1>0, <2>1, RemoveKeepsOthers
<1>4. ASSUME NEW p \in Procs, BecomeReady(p) PROVE ReadyComplete'
  <2>1. /\ readyQ' = Add(readyQ, Size(readyQ), p, ByPriority(priority))
        /\ onReadyQ' = onReadyQ \cup {p} /\ priority' = priority
    BY <1>4 DEF BecomeReady, Added
  <2> QED
    BY <1>a, <1>0, <2>1, AddEffect
<1>5. ASSUME NEW p \in Procs, NEW new \in Priorities, ChangePriority(p, new)
      PROVE  ReadyComplete'
  <2> DEFINE changed == [priority EXCEPT ![p] = new]
             lost == p \in onReadyQ /\ ~Found(readyQ, p, ByPriority(priority))
  <2>0. CASE lost
    BY <1>5, <2>0 DEF ChangePriority
  <2> SUFFICES ASSUME ~lost PROVE ReadyComplete'
    BY <2>0
  <2>1. priority' = changed /\ changed \in [Procs -> Priorities] /\ onReadyQ' = onReadyQ
    BY <1>5 DEF ChangePriority
  <2>2. CASE p \notin onReadyQ
    BY <1>5, <2>1, <2>2 DEF ChangePriority
  <2>3. CASE p \in onReadyQ
    <3>1. PICK rest : rest = Remove(readyQ, Size(readyQ), p, ByPriority(priority))
      OBVIOUS
    <3>2. readyQ' = Add(rest, Size(rest), p, ByPriority(changed))
      BY <1>5, <2>3, <3>1 DEF ChangePriority, Added, Removed
    <3>3. /\ Vector(rest, Size(rest), Procs)
          /\ Elements(readyQ) \ {p} \subseteq Elements(rest)
      <4>1. ByPriority(priority) \in [Procs -> Int]
        BY <1>0
      <4>2. /\ \E k \in Nat : Vector(rest, k, Procs)
            /\ Elements(readyQ) \ {p} \subseteq Elements(rest)
        BY <3>1, <4>1, RemoveKeepsOthers
      <4> QED
        BY <1>a, <4>2
    <3>4. /\ Vector(readyQ', Size(rest) + 1, Procs)
          /\ Elements(readyQ') = Elements(rest) \cup {p}
      <4>1. ByPriority(changed) \in [Procs -> Int]
        BY <1>0, <2>1
      <4> HIDE DEF changed
      <4> QED
        BY <3>2, <3>3, <4>1, AddEffect
    <3> QED
      BY <1>a, <2>1, <3>3, <3>4
  <2> QED
    BY <2>2, <2>3
<1>6. CASE UNCHANGED readyVars
  BY <1>6 DEF readyVars
<1> QED
  BY <1>1, <1>2, <1>3, <1>4, <1>5, <1>6 DEF ReadyNext

\* No ready process is lost from the readyQ, however many there are and even
\* when the readyQ is not in order: what can go wrong is that a process that
\* has left is still there.
THEOREM NoReadyProcessLost == ReadySpec => [](onReadyQ \subseteq Elements(readyQ))
<1>1. ReadyInit => ReadyComplete
  BY ReadyInvInit DEF ReadyInit, ReadyComplete, ReadyInv, HeapOf
<1>2. ReadyComplete /\ [ReadyNext]_readyVars => ReadyComplete'
  BY ReadyCompleteStep
<1>3. ReadyComplete => onReadyQ \subseteq Elements(readyQ)
  BY DEF ReadyComplete
<1> QED
  BY <1>1, <1>2, <1>3, PTL DEF ReadySpec

\* However many processes there are, as long as the readyQ is in the order of
\* a heap no process is lost from it, left on it or twice on it.
THEOREM OrderedReadyQAgrees == ReadySpec /\ []ReadyOrdered => []ReadyQAgrees
<1>1. ReadyInv /\ ReadyOrdered /\ [ReadyNext]_readyVars => ReadyInv'
  BY ReadyInvStep
<1> QED
  BY <1>1, ReadyInvInit, ReadyInvAgrees, PTL DEF ReadySpec

\* As long as the readyQ is in the order of a heap, the process that gets the
\* CPU is one of the highest priority.
THEOREM OrderedHighestFirst == ReadySpec /\ []ReadyOrdered => HighestFirst
<1>1. ReadyInv /\ ReadyOrdered /\ [ReadyNext]_readyVars => ReadyInv'
  BY ReadyInvStep
<1>2. ReadyInv /\ ReadyOrdered /\ [ReadyNext]_readyVars =>
        [running' # running /\ running' # nil =>
           \A q \in onReadyQ : priority[q] <= priority[running']]_readyVars
  BY ScheduleHighest
<1> QED
  BY <1>1, <1>2, ReadyInvInit, PTL DEF ReadySpec, HighestFirst

\* Up to five processes cannot disturb the order.
LEMMA FewStayOrdered == Few(Procs) => (ReadySpec => []ReadyOrdered)
<1> SUFFICES ASSUME Few(Procs) PROVE ReadySpec => []ReadyOrdered
  OBVIOUS
<1>1. ReadyInv /\ ReadyOrdered /\ [ReadyNext]_readyVars => ReadyInv' /\ ReadyOrdered'
  BY ReadyInvStep, HeapSize DEF ReadyInv
<1> QED
  BY <1>1, ReadyInvInit, PTL DEF ReadySpec

\* Whatever up to five processes do, changes of priority included
\* (scheduler.self:266), the readyQ holds those that believe to be on it.
THEOREM ReadyQCorrect == Few(Procs) => (ReadySpec => []ReadyQAgrees)
BY FewStayOrdered, OrderedReadyQAgrees, PTL

\* Of up to five processes the ones of the highest priority run first.
THEOREM HighestFirstCorrect == Few(Procs) => (ReadySpec => HighestFirst)
BY FewStayOrdered, OrderedHighestFirst, PTL

-----------------------------------------------------------------------------
(* TimerWaiters. *)

TimersInv ==
  /\ now \in Nat
  /\ wakeTime \in [Sleepers -> Nat]
  /\ realTimer \in Nat \cup {off}
  /\ handling \in BOOLEAN
  /\ HeapOf(timers, Sleepers, waiting)

TimersOrdered == InHeapOrder(timers, wakeTime)

LEMMA TimersInvInit == TimersInit => TimersInv /\ TimersOrdered /\ Armed
<1> SUFFICES ASSUME TimersInit PROVE TimersInv /\ TimersOrdered /\ Armed
  OBVIOUS
<1>1. timers \in [{} -> Sleepers]
  BY DEF TimersInit
<1> QED
  BY <1>1, EmptyHeap DEF TimersInit, TimersInv, TimersOrdered, Armed

\* addToTimerWaiters:For: sets the real timer for the first process.
LEMMA AddTimerStep ==
  ASSUME TimersInv, TimersOrdered, NEW p \in Sleepers, NEW ms \in Delays,
         AddToTimerWaiters(p, ms)
  PROVE  TimersInv' /\ TimersOrdered' /\ (Armed => Armed')
<1> DEFINE wake == now + Larger(MinDelay, ms)
<1>1. wake \in Nat
  BY TimeAssumption DEF TimersInv, Larger, MinDelay
<1> HIDE DEF wake
<1>2. /\ ~handling /\ p \notin waiting /\ waiting' = waiting \cup {p}
      /\ wakeTime' = [wakeTime EXCEPT ![p] = wake]
      /\ timers' = Add(timers, Size(timers), p, wakeTime')
      /\ realTimer' = IF timers'[0] = p THEN wake ELSE realTimer
      /\ now' = now /\ handling' = handling
  BY DEF AddToTimerWaiters, wake
<1>3. /\ wakeTime' \in [Sleepers -> Nat] /\ wakeTime' \in [Sleepers -> Int]
      /\ wakeTime'[p] = wake
      /\ \A q \in waiting : wakeTime'[q] = wakeTime[q]
  BY <1>1, <1>2, HeapSize DEF TimersInv
<1>4. InHeapOrder(timers, wakeTime')
  BY <1>3, OtherRanks DEF TimersInv, HeapOf, TimersOrdered, InHeapOrder
<1>5. HeapOf(timers', Sleepers, waiting') /\ InHeapOrder(timers', wakeTime')
  BY <1>2, <1>3, <1>4, HeapAdd DEF TimersInv
<1>6. ASSUME Armed PROVE Armed'
  <2>1. timers'[0] \in waiting'
    BY <1>2, <1>5, HeapSize
  <2>2. \A q \in waiting' : wakeTime'[timers'[0]] <= wakeTime'[q]
    BY <1>3, <1>5, HeapFirst
  <2>3. \A q \in waiting' : wakeTime'[q] \in Nat
    BY <1>3, <1>5, HeapSize
  <2>4. CASE timers'[0] = p
    BY <1>1, <1>2, <1>3, <2>2, <2>4, TimeAssumption DEF Armed
  <2>5. CASE timers'[0] # p
    <3>1. timers'[0] \in waiting /\ realTimer' = realTimer
      BY <1>2, <2>1, <2>5
    <3>2. realTimer # off /\ realTimer <= wakeTime'[timers'[0]]
      BY <1>2, <1>3, <1>6, <3>1 DEF Armed
    <3>3. realTimer \in Nat
      BY <3>2 DEF TimersInv
    <3> QED
      BY <2>1, <2>2, <2>3, <3>1, <3>2, <3>3 DEF Armed
  <2> QED
    BY <2>4, <2>5
<1> QED
  BY <1>2, <1>3, <1>5, <1>6 DEF TimersInv, TimersOrdered

LEMMA TimersInvStep ==
  ASSUME TimersInv, TimersOrdered, [TimersNext]_timerVars
  PROVE  /\ TimersInv'
         /\ Size(timers) <= 5 => TimersOrdered'
         /\ Armed => Armed'
         /\ handling /\ ~handling' => \A p \in waiting' : wakeTime[p] > now
<1>0. /\ wakeTime \in [Sleepers -> Nat] /\ wakeTime \in [Sleepers -> Int]
      /\ HeapOf(timers, Sleepers, waiting) /\ InHeapOrder(timers, wakeTime)
      /\ waiting \subseteq Sleepers
  BY HeapSize DEF TimersInv, TimersOrdered
<1>1. ASSUME NEW p \in Sleepers, NEW ms \in Delays, AddToTimerWaiters(p, ms)
      PROVE  TimersInv' /\ TimersOrdered' /\ (Armed => Armed') /\ ~handling
  BY <1>1, AddTimerStep DEF AddToTimerWaiters
<1>2. ASSUME NEW p \in Sleepers, StopWaiting(p)
      PROVE  TimersInv' /\ (Size(timers) <= 5 => TimersOrdered') /\ (Armed => Armed') /\ ~handling
  <2>1. /\ ~handling /\ handling' = handling /\ waiting' = waiting \ {p}
        /\ timers' = Remove(timers, Size(timers), p, wakeTime)
        /\ now' = now /\ wakeTime' = wakeTime /\ realTimer' = realTimer
    BY <1>2 DEF StopWaiting
  <2>2. /\ HeapOf(timers', Sleepers, waiting')
        /\ Size(timers) <= 5 => InHeapOrder(timers', wakeTime)
    BY <1>0, <2>1, HeapRemove
  <2> QED
    BY <2>1, <2>2 DEF TimersInv, TimersOrdered, Armed
<1>3. CASE Alarm
  BY <1>3 DEF Alarm, TimersInv, TimersOrdered, Armed
<1>4. CASE Tick
  BY <1>4 DEF Tick, TimersInv, TimersOrdered, Armed
<1>5. CASE WakeFirst
  <2>1. /\ Size(timers) > 0 /\ waiting' = waiting \ {timers[0]} /\ handling' = handling
        /\ timers' = RemoveAtIndex(timers, Size(timers), 0, wakeTime) /\ handling
        /\ now' = now /\ wakeTime' = wakeTime /\ realTimer' = realTimer
    BY <1>5 DEF WakeFirst
  <2>2. HeapOf(timers', Sleepers, waiting') /\ InHeapOrder(timers', wakeTime)
    BY <1>0, <2>1, HeapRemoveFirst
  <2> QED
    BY <2>1, <2>2 DEF TimersInv, TimersOrdered, Armed
<1>6. CASE EndAlarm
  <2>1. /\ handling /\ handling' = FALSE /\ waiting' = waiting /\ timers' = timers
        /\ now' = now /\ wakeTime' = wakeTime
        /\ \/ Size(timers) = 0 /\ realTimer' = off
           \/ /\ Size(timers) > 0 /\ now < wakeTime[timers[0]]
              /\ realTimer' = wakeTime[timers[0]]
    BY <1>6 DEF EndAlarm
  <2>2. CASE Size(timers) = 0
    <3>1. waiting = {}
      BY <1>0, <2>2, HeapSize
    <3>2. realTimer' = off
      BY <2>1, <2>2
    <3> QED
      BY <2>1, <3>1, <3>2 DEF TimersInv, TimersOrdered, Armed
  <2>3. CASE Size(timers) > 0
    <3>1. timers[0] \in Sleepers
      BY <1>0, <2>3, HeapSize
    <3>2. \A q \in waiting : wakeTime[timers[0]] <= wakeTime[q]
      BY <1>0, HeapFirst
    <3>3. wakeTime[timers[0]] \in Nat /\ \A q \in waiting : wakeTime[q] \in Nat
      BY <1>0, <3>1
    <3>4. /\ realTimer' = wakeTime[timers[0]] /\ now < wakeTime[timers[0]]
          /\ realTimer' # off
      BY <2>1, <2>3, <3>3, TimeAssumption
    <3>5. Armed' /\ \A q \in waiting' : wakeTime[q] > now
      BY <2>1, <3>2, <3>3, <3>4 DEF Armed, TimersInv
    <3> QED
      BY <2>1, <3>3, <3>4, <3>5 DEF TimersInv, TimersOrdered
  <2> QED
    BY <2>1, <2>2, <2>3
<1>7. CASE UNCHANGED timerVars
  BY <1>7 DEF timerVars, TimersInv, TimersOrdered, Armed
<1>8. Alarm \/ Tick \/ WakeFirst \/ UNCHANGED timerVars => ~(handling /\ ~handling')
  BY DEF Alarm, Tick, WakeFirst, timerVars
<1> QED
  BY <1>1, <1>2, <1>3, <1>4, <1>5, <1>6, <1>7, <1>8 DEF TimersNext

LEMMA TimersInvAgree == TimersInv => TimersAgree
BY DEF TimersInv, HeapOf, TimersAgree

TimersComplete ==
  /\ now \in Nat
  /\ wakeTime \in [Sleepers -> Nat]
  /\ Vector(timers, Size(timers), Sleepers)
  /\ waiting \subseteq Elements(timers)

LEMMA TimersCompleteStep ==
  ASSUME TimersComplete, [TimersNext]_timerVars
  PROVE  TimersComplete'
<1> USE DEF TimersComplete
<1>a. \A c, k : Vector(c, k, Sleepers) => Vector(c, Size(c), Sleepers)
  BY SizeFacts
<1>0. \A w \in [Sleepers -> Nat] : w \in [Sleepers -> Int]
  OBVIOUS
<1>1. ASSUME NEW p \in Sleepers, NEW ms \in Delays, AddToTimerWaiters(p, ms)
      PROVE  TimersComplete'
  <2>1. now + Larger(MinDelay, ms) \in Nat
    BY TimeAssumption DEF Larger, MinDelay
  <2>2. /\ wakeTime' \in [Sleepers -> Nat] /\ now' = now
        /\ waiting' = waiting \cup {p}
        /\ timers' = Add(timers, Size(timers), p, wakeTime')
    BY <1>1, <2>1 DEF AddToTimerWaiters
  <2>3. /\ Vector(timers', Size(timers) + 1, Sleepers)
        /\ Elements(timers') = Elements(timers) \cup {p}
    BY <1>0, <2>2, AddEffect
  <2> QED
    BY <1>a, <2>2, <2>3
<1>2. ASSUME NEW p \in Sleepers, StopWaiting(p) PROVE TimersComplete'
  <2>1. /\ timers' = Remove(timers, Size(timers), p, wakeTime)
        /\ waiting' = waiting \ {p} /\ wakeTime' = wakeTime /\ now' = now
    BY <1>2 DEF StopWaiting
  <2> QED
    BY <1>a, <1>0, <2>1, RemoveKeepsOthers
<1>3. CASE WakeFirst
  <2>1. /\ timers' = RemoveAtIndex(timers, Size(timers), 0, wakeTime) /\ Size(timers) > 0
        /\ waiting' = waiting \ {timers[0]} /\ wakeTime' = wakeTime /\ now' = now
    BY <1>3 DEF WakeFirst
  <2>2. 0 \in 0..(Size(timers) - 1)
    BY <2>1 DEF Vector
  <2>3. /\ Vector(timers', Size(timers) - 1, Sleepers)
        /\ Elements(timers) \ {timers[0]} \subseteq Elements(timers')
    BY <1>0, <2>1, <2>2, RemoveAtEffect
  <2> QED
    BY <1>a, <2>1, <2>3
<1>4. CASE Alarm \/ EndAlarm \/ Tick \/ UNCHANGED timerVars
  BY <1>4 DEF Alarm, EndAlarm, Tick, timerVars
<1> QED
  BY <1>1, <1>2, <1>3, <1>4 DEF TimersNext

\* No process that waits with a time-out is lost from the timerWaiters, however
\* many there are and even when the heap is not in order: what can go wrong is
\* that one is woken late, or timed out when it no longer waits.
THEOREM NoSleeperLost == TimersSpec => [](waiting \subseteq Elements(timers))
<1>1. TimersInit => TimersComplete
  BY TimersInvInit DEF TimersInit, TimersComplete, TimersInv, HeapOf
<1>2. TimersComplete /\ [TimersNext]_timerVars => TimersComplete'
  BY TimersCompleteStep
<1>3. TimersComplete => waiting \subseteq Elements(timers)
  BY DEF TimersComplete
<1> QED
  BY <1>1, <1>2, <1>3, PTL DEF TimersSpec

\* As long as the timerWaiters are in the order of a heap, they are the
\* processes that wait with a time-out, however many there are.
THEOREM OrderedTimersAgree == TimersSpec /\ []TimersOrdered => []TimersAgree
<1>1. TimersInv /\ TimersOrdered /\ [TimersNext]_timerVars => TimersInv'
  BY TimersInvStep
<1> QED
  BY <1>1, TimersInvInit, TimersInvAgree, PTL DEF TimersSpec

\* As long as they are, the real timer is set early enough for each of them.
THEOREM OrderedArmed == TimersSpec /\ []TimersOrdered => []Armed
<1>1. TimersInv /\ Armed /\ TimersOrdered /\ [TimersNext]_timerVars => TimersInv' /\ Armed'
  BY TimersInvStep
<1> QED
  BY <1>1, TimersInvInit, PTL DEF TimersSpec

\* As long as they are, sigrealtimer leaves no process asleep whose time has come.
THEOREM OrderedNoneOverdue == TimersSpec /\ []TimersOrdered => NoneOverdue
<1>1. TimersInv /\ TimersOrdered /\ [TimersNext]_timerVars =>
        /\ TimersInv'
        /\ [handling /\ ~handling' => \A p \in waiting' : wakeTime[p] > now]_timerVars
  BY TimersInvStep
<1> QED
  BY <1>1, TimersInvInit, PTL DEF TimersSpec, NoneOverdue

\* Up to five processes cannot disturb the order.
LEMMA FewTimersStayOrdered == Few(Sleepers) => (TimersSpec => []TimersOrdered)
<1> SUFFICES ASSUME Few(Sleepers) PROVE TimersSpec => []TimersOrdered
  OBVIOUS
<1>1. TimersInv /\ TimersOrdered /\ [TimersNext]_timerVars => TimersInv' /\ TimersOrdered'
  BY TimersInvStep, HeapSize DEF TimersInv
<1> QED
  BY <1>1, TimersInvInit, PTL DEF TimersSpec

\* Whatever up to five processes do, a process is in the timerWaiters exactly
\* while it waits with a time-out (process.self:1026-1028).
THEOREM TimersCorrect == Few(Sleepers) => (TimersSpec => []TimersAgree)
BY FewTimersStayOrdered, OrderedTimersAgree, PTL

\* Whatever up to five processes do, none of them waits with a time-out that
\* no signal will report.
THEOREM ArmedCorrect == Few(Sleepers) => (TimersSpec => []Armed)
BY FewTimersStayOrdered, OrderedArmed, PTL

\* Of up to five processes none sleeps on when sigrealtimer has returned.
THEOREM NoneOverdueCorrect == Few(Sleepers) => (TimersSpec => NoneOverdue)
BY FewTimersStayOrdered, OrderedNoneOverdue, PTL
=============================================================================
