---------------------------- MODULE MCUnlambdaVm ---------------------------
(***************************************************************************)
(* UnlambdaVm for TLC.  A program pushes addresses of its own functions;   *)
(* OutsideMemory is an address that no memory of the runs reaches.         *)
(***************************************************************************)
EXTENDS UnlambdaVm

OutsideMemory == 1000

(* Functions of functions and saved states, in one program. *)
Functions ==
  {PushOf(ProgramStart), Op("POP"), Op("PCALL"), Op("RET"), Op("SWAP"),
   Op("MKS0"), OpOf("SAVE", 0), OpOf("SAVE", 1), OpOf("RESTORE", 0),
   OpOf("RESTORE", 1)}

(* Whatever needs memory, and what else a program may try. *)
Misuse ==
  {PushOf(ProgramStart), PushOf(OutsideMemory), Op("PCALL"), Op("RET"),
   Op("POP"), Op("DUP"), Op("MKK"), Op("MKS1"), Op("MKS2"), Op("MKD"),
   OpOf("SAVE", 0), OpOf("RESTORE", 1), Op("ILLEGAL"), Op("HALT"),
   Op("PANIC"), OpOf("PRINT", 65)}
=============================================================================
