---------------------------- MODULE AbstractQueue -----------------------------
(***************************************************************************)
(* What a shared queue promises its clients (objects/core/sharedQueue.self *)
(* and the list under it): elements leave it in the order in which they    *)
(* came, each to one process.                                              *)
(***************************************************************************)
EXTENDS Sequences

CONSTANTS
  Elements,  \* what may be in the queue
  Takers,    \* the processes that remove elements
  none       \* no element

VARIABLES
  items,     \* what is in the queue
  taken      \* what each taker has taken and not yet done with

Init ==
  /\ items = <<>>
  /\ taken = [p \in Takers |-> none]

Add(e) == items' = Append(items, e) /\ UNCHANGED taken

RemoveFirst(p) ==
  /\ items # <<>>
  /\ taken[p] = none
  /\ taken' = [taken EXCEPT ![p] = Head(items)]
  /\ items' = Tail(items)

Done(p) == taken' = [taken EXCEPT ![p] = none] /\ UNCHANGED items

Next == (\E e \in Elements : Add(e)) \/ \E p \in Takers : RemoveFirst(p) \/ Done(p)

Spec == Init /\ [][Next]_<<items, taken>>
=============================================================================
