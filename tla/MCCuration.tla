------------------------------ MODULE MCCuration ------------------------------
(* Instances of the memory curation for TLC.                                  *)
EXTENDS MemoryCuration

TwoMemories == 1 .. 2
=============================================================================
