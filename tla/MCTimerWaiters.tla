--------------------------- MODULE MCTimerWaiters -----------------------------
(***************************************************************************)
(* Instances of TimerWaiters for TLC.  The processes are interchangeable,  *)
(* and the properties are safety properties, so the symmetry is sound.     *)
(***************************************************************************)
EXTENDS TimerWaiters, TLC

Symmetry == Permutations(Sleepers)
=============================================================================
