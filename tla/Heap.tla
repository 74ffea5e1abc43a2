-------------------------------- MODULE Heap ----------------------------------
(***************************************************************************)
(* The array algorithms of objects/core/priorityQueue.self: what the loops *)
(* that restore the order of a binary heap do in one iteration, and the    *)
(* operations run to their end.                                            *)
(*                                                                         *)
(* c is the used part of the vector contents, a function on 0 .. n - 1     *)
(* where n is count; rank gives the elements the order of the sorter: of   *)
(* two elements the one of lower rank precedes the other.                  *)
(***************************************************************************)
EXTENDS Integers, FiniteSets

\* sortObj element: x Precedes: y
Precedes(rank, x, y) == rank[x] < rank[y]

Size(c) == Cardinality(DOMAIN c)

Parent(i) == (i - 1) \div 2

Elements(c) == {c[i] : i \in DOMAIN c}

Swapped(c, i, j) == [c EXCEPT ![i] = c[j], ![j] = c[i]]

\* Mutant: the child that its sibling precedes.
WorseChild(c, n, i, rank) ==
  LET left  == 2 * i + 1
      right == left + 1
  IN  IF right = n \/ Precedes(rank, c[right], c[left]) THEN left ELSE right

\* The child that precedes its sibling, or the only child.
PreferredChild(c, n, i, rank) ==
  LET left  == 2 * i + 1
      right == left + 1
  IN  IF right = n \/ Precedes(rank, c[left], c[right]) THEN left ELSE right

\* pushLastUp goes on: the element at i precedes its parent.
Rises(c, i, rank) == i # 0 /\ Precedes(rank, c[i], c[Parent(i)])

\* pushElmDown: goes on: a child precedes the element at i.
Sinks(c, n, i, rank) ==
  /\ i < n \div 2
  /\ Precedes(rank, c[PreferredChild(c, n, i, rank)], c[i])

\* e added after the end; the element at i replaced by the last one.
Extended(c, n, e) == [k \in 0..n |-> IF k = n THEN e ELSE c[k]]
Shrunk(c, n, i) == [k \in 0..(n - 2) |-> IF k = i THEN c[n - 1] ELSE c[k]]

Permuted(c) == [DOMAIN c -> Elements(c)]

\* The states of the two loops are pairs: the vector and the index.
PushLastUp(c, n, rank) ==
  LET up[s \in Permuted(c) \X DOMAIN c] ==
        IF Rises(s[1], s[2], rank)
        THEN up[<<Swapped(s[1], s[2], Parent(s[2])), Parent(s[2])>>]
        ELSE s[1]
  IN  up[<<c, n - 1>>]

PushElmDown(c, n, idx, rank) ==
  LET down[s \in Permuted(c) \X Nat] ==
        LET k == PreferredChild(s[1], n, s[2], rank) IN
        IF Sinks(s[1], n, s[2], rank) THEN down[<<Swapped(s[1], s[2], k), k>>] ELSE s[1]
  IN  down[<<c, idx>>]

\* add: e and removeAtIndex: i, run to their end.
Add(c, n, e, rank) == PushLastUp(Extended(c, n, e), n + 1, rank)

\* Mutant: removeAtIndex: without pushElmDown:.
RemoveAtIndexUnordered(c, n, i, rank) == Shrunk(c, n, i)

RemoveAtIndex(c, n, i, rank) == PushElmDown(Shrunk(c, n, i), n - 1, i, rank)

\* remove: takes what precedes the first to be absent.
Found(c, e, rank) == e \in Elements(c) /\ ~Precedes(rank, e, c[0])

\* remove: e IfAbsent: []
Remove(c, n, e, rank) ==
  IF Found(c, e, rank)
  THEN RemoveAtIndex(c, n, CHOOSE i \in DOMAIN c : c[i] = e, rank)
  ELSE c
=============================================================================
