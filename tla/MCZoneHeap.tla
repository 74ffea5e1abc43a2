----------------------------- MODULE MCZoneHeap -----------------------------
(* A map of fifteen blocks, with sizes of one and of four bytes.           *)
EXTENDS ZoneHeap

CONSTANTS x1, x2, x3

MCObjects == {x1, x2, x3}
MCSizes == {1, 14}
MCNowhere == -2
MCUnknown == -3
=============================================================================
