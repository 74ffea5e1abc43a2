------------------------------ MODULE MCMonitor ------------------------------
(***************************************************************************)
(* Instances of Monitor for TLC.                                           *)
(***************************************************************************)
EXTENDS Monitor

CONSTANTS a, b, c

MCSemas == {"monitorSemaphore", "conditionSemaphore"}

\* The producer enters twice over.
MCNesting == [p \in Procs |-> IF p \in Producers THEN 2 ELSE 1]
=============================================================================
