------------------------------ MODULE MCCleanup -------------------------------
(***************************************************************************)
(* Instances of Cleanup for TLC.                                           *)
(***************************************************************************)
EXTENDS Cleanup, TLC

CONSTANTS p1, p2, p3, l1, e1

\* Time-outs that clients pass: none.
MCTimeouts == {timeoutInfinity}

\* Two processes use a lock, one that is born later a file's semaphore.
MCUsers == [s \in Semas |-> IF s = l1 THEN {p1, p2} ELSE {p3}]

\* The two that use the lock are alike.
MCSymmetry == Permutations({p1, p2})
=============================================================================
