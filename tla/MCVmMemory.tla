----------------------------- MODULE MCVmMemory ----------------------------
(* VmMemory for TLC: memories of 32 to 96 bytes, see VmMemory_*.cfg. *)
EXTENDS VmMemory
=============================================================================
