----------------------------- MODULE MCScheduler -----------------------------
(***************************************************************************)
(* Instances of Scheduler for TLC.                                         *)
(***************************************************************************)
EXTENDS Scheduler, TLC

CONSTANTS p1, p2, p3, l1, e1

\* Time-outs that clients pass: a real one and none.
MCTimeouts == {5, timeoutInfinity}

\* Everyone uses every semaphore.
MCUsers == [s \in Semas |-> Procs]

MCSymmetry == Permutations({p1, p2})
=============================================================================
