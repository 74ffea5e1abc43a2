---------------------------- MODULE AbstractHeap ----------------------------
(***************************************************************************)
(* What a heap of the code zone promises to those who store objects in it. *)
(***************************************************************************)
EXTENDS Integers, FiniteSets

CONSTANTS N, Objects, Sizes

VARIABLES
  place,   \* the first block and the number of blocks of each object, if it
            \* is stored
  inUse,   \* the blocks in use
  full     \* the last request failed

vars == <<place, inUse, full>>

Stored == {x \in Objects : place[x] # <<>>}
BlocksOf(p) == p[1]..(p[1] + p[2] - 1)
Taken == UNION {BlocksOf(place[x]) : x \in Stored}
Fits(p) == BlocksOf(p) \subseteq (0..(N - 1)) \ Taken

Store(x, n) ==
  /\ x \notin Stored
  /\ \E c \in 0..(N - n) :
       /\ Fits(<<c, n>>)
       /\ place' = [place EXCEPT ![x] = <<c, n>>]
  /\ inUse' = inUse + n
  /\ full' = FALSE

Refuse(n) ==
  /\ \A c \in 0..(N - n) : ~Fits(<<c, n>>)
  /\ full' = TRUE
  /\ UNCHANGED <<place, inUse>>

Discard(x) ==
  /\ x \in Stored
  /\ place' = [place EXCEPT ![x] = <<>>]
  /\ inUse' = inUse - place[x][2]
  /\ full' = FALSE

\* Afterwards the blocks in use are the first ones.
Compact ==
  LET Below(x) == {b \in Taken : b < place[x][1]} IN
  /\ place' = [x \in Objects |-> IF x \in Stored
                                 THEN <<Cardinality(Below(x)), place[x][2]>>
                                 ELSE <<>>]
  /\ full' = FALSE
  /\ UNCHANGED inUse

Forget == full' = FALSE /\ UNCHANGED <<place, inUse>>

Init == place = [x \in Objects |-> <<>>] /\ inUse = 0 /\ full = FALSE

Next ==
  \/ \E x \in Objects : Discard(x) \/ \E n \in Sizes : Store(x, n)
  \/ \E n \in Sizes : Refuse(n)
  \/ Compact \/ Forget

Spec == Init /\ [][Next]_vars
=============================================================================
