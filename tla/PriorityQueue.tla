---------------------------- MODULE PriorityQueue -----------------------------
(***************************************************************************)
(* objects/core/priorityQueue.self: a priority queue kept as a binary heap *)
(* in a vector.  The readyQ and the timerWaiters of the scheduler are two  *)
(* of them; sortedBy:Do: of all collections is a third client, which uses  *)
(* add: and removeFirst only (Spec; SpecRemove adds remove:).              *)
(*                                                                         *)
(* Each iteration of the loops in pushLastUp and pushElmDown: is a step.   *)
(* The unused end of the vector, and its growth, is left out.              *)
(***************************************************************************)
EXTENDS Heap

CONSTANTS
  Items,   \* the elements, each of them at most once in the queue
  Rank,    \* the order of the sorter
  none     \* no element

ASSUME RankAssumption == Rank \in [Items -> Int] /\ none \notin Items

VARIABLES
  contents,  \* priorityQueue.self: contents
  count,     \* priorityQueue.self: count
  loop,      \* the loop that is being executed, "up", "down" or "none"
  index,     \* its childIndex or parentIndex
  result     \* what removeFirst has returned last

vars == <<contents, count, loop, index, result>>

\* pushLastUp and pushElmDown: start at i, or end.
Start(l, i) == loop' = l /\ index' = i
End == loop' = "none" /\ index' = 0

\* Mutant: add: without pushLastUp.
AddElementAtEnd(e) ==
  /\ loop = "none"
  /\ e \notin Elements(contents)
  /\ contents' = Extended(contents, count, e)
  /\ count' = count + 1
  /\ End
  /\ UNCHANGED result

\* add: newElement, up to pushLastUp.
AddElement(e) ==
  /\ loop = "none"
  /\ e \notin Elements(contents)
  /\ contents' = Extended(contents, count, e)
  /\ count' = count + 1
  /\ Start("up", count)
  /\ UNCHANGED result

\* Mutant: removeAtIndex: that does not count the element as removed.
RemoveIndexUncounted(i) ==
  /\ contents' = Shrunk(contents, count, i)
  /\ UNCHANGED count
  /\ IF i = count - 1 THEN End ELSE Start("down", i)

\* removeAtIndex: i, up to pushElmDown: i.
RemoveIndex(i) ==
  /\ contents' = Shrunk(contents, count, i)
  /\ count' = count - 1
  /\ IF i = count - 1 THEN End ELSE Start("down", i)

RemoveFirst ==
  /\ loop = "none"
  /\ count > 0
  /\ result' = contents[0]
  /\ RemoveIndex(0)

\* remove: e IfAbsent: []; one that precedes the first is taken to be absent.
RemoveElement(e) ==
  /\ loop = "none"
  /\ e \in Elements(contents)
  /\ ~Precedes(Rank, e, contents[0])
  /\ \E i \in DOMAIN contents : contents[i] = e /\ RemoveIndex(i)
  /\ UNCHANGED result

\* An iteration of pushLastUp.
PushUp ==
  /\ loop = "up"
  /\ IF Rises(contents, index, Rank)
     THEN /\ contents' = Swapped(contents, index, Parent(index))
          /\ Start("up", Parent(index))
     ELSE End /\ UNCHANGED contents
  /\ UNCHANGED <<count, result>>

\* Mutant: pushElmDown: that always takes the left child.
PushDownLeft ==
  LET child == 2 * index + 1 IN
  /\ loop = "down"
  /\ IF index < count \div 2 /\ Precedes(Rank, contents[child], contents[index])
     THEN /\ contents' = Swapped(contents, index, child)
          /\ Start("down", child)
     ELSE End /\ UNCHANGED contents
  /\ UNCHANGED <<count, result>>

\* An iteration of pushElmDown:.
PushDown ==
  LET child == PreferredChild(contents, count, index, Rank) IN
  /\ loop = "down"
  /\ IF Sinks(contents, count, index, Rank)
     THEN /\ contents' = Swapped(contents, index, child)
          /\ Start("down", child)
     ELSE End /\ UNCHANGED contents
  /\ UNCHANGED <<count, result>>

-----------------------------------------------------------------------------
Init ==
  /\ contents = [i \in {} |-> none]
  /\ count = 0
  /\ loop = "none"
  /\ index = 0
  /\ result = none

Next ==
  \/ \E e \in Items : AddElement(e)
  \/ RemoveFirst \/ PushUp \/ PushDown

Spec == Init /\ [][Next]_vars

NextRemove == Next \/ \E e \in Items : RemoveElement(e)

SpecRemove == Init /\ [][NextRemove]_vars

-----------------------------------------------------------------------------
(* Properties. *)

TypeOK ==
  /\ count \in Nat
  /\ contents \in [0..(count - 1) -> Items]
  /\ loop \in {"none", "up", "down"}
  /\ index \in 0..count
  /\ result \in Items \cup {none}

\* Between two operations no element precedes its parent: the invariant that
\* the prototype's comment states (priorityQueue.self:79), after add: and
\* removeFirst have broken and restored it along a path of the tree.
HeapOrder ==
  loop = "none" =>
    \A i \in 1..(count - 1) : ~Precedes(Rank, contents[i], contents[Parent(i)])

\* The heap is a priority queue: removeFirst returns an element that none of
\* the others precedes, and no element is lost or duplicated on the way
\* (priorityQueue.self:101-102).
Abstract == INSTANCE AbstractPriorityQueue WITH items <- Elements(contents)
IsPriorityQueue == Abstract!Spec
=============================================================================
