----------------------- MODULE AbstractPriorityQueue --------------------------
(***************************************************************************)
(* What a priority queue promises its clients (the comment of the traits   *)
(* object in objects/core/priorityQueue.self): it keeps what was added,    *)
(* removeFirst takes out an element that no other one precedes, remove:    *)
(* takes out the element it is given.                                      *)
(***************************************************************************)
EXTENDS Integers

CONSTANTS
  Items,   \* what may be in the queue
  Rank,    \* the order of the sorter
  none     \* no item

VARIABLES
  items,   \* the items in the queue
  result   \* the last item that removeFirst has returned

Init == items = {} /\ result = none

Add(e) ==
  /\ e \notin items
  /\ items' = items \cup {e}
  /\ UNCHANGED result

RemoveFirst ==
  \E e \in items :
    /\ \A x \in items : Rank[e] <= Rank[x]
    /\ items' = items \ {e}
    /\ result' = e

Remove(e) == items' = items \ {e} /\ UNCHANGED result

Next == RemoveFirst \/ \E e \in Items : Add(e) \/ Remove(e)

Spec == Init /\ [][Next]_<<items, result>>
=============================================================================
