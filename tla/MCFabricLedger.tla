--------------------------- MODULE MCFabricLedger ---------------------------
(* FabricLedger with two invocations in flight.  The clients' batches overlap in *)
(* one record and differ in another, so that invocations conflict and commute.   *)
EXTENDS FabricLedger, TLC

CONSTANTS r1, r2

OverlappingBatches == {{r1}, {r1, r2}}

Symmetry == Permutations(TxID) \cup Permutations(Slot)
=============================================================================
