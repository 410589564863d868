--------------------------- MODULE MCMemoryBudget ---------------------------
(* Small instances of MemoryBudget for TLC.                                *)
EXTENDS MemoryBudget

MCTargetLists == {<<1>>, <<2, 1>>}
MCCheckpointDeltas == {1}
=============================================================================
