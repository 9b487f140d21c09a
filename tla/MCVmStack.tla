----------------------------- MODULE MCVmStack -----------------------------
(* VmStack for TLC: a stack of five words that starts with one. *)
EXTENDS VmStack
=============================================================================
