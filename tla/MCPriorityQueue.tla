-------------------------- MODULE MCPriorityQueue -----------------------------
(***************************************************************************)
(* Instances of PriorityQueue for TLC.  The elements are numbers, ranked   *)
(* by themselves or, in TiedFive, in pairs of equal rank.                  *)
(***************************************************************************)
EXTENDS PriorityQueue

Five == 1..5
Six  == 1..6
TiedFive    == [i \in Five |-> i \div 2]
DistinctSix  == [i \in Six |-> i]
=============================================================================
