------------------------------ MODULE MainLoop -----------------------------
(***************************************************************************)
(* Who drives the debugger.  The host "unl" is the loop of the main program*)
(* (mainLoop of src/src/unl.c) with a user at its prompt; the host "client"*)
(* is any other program that uses src/src/debug.h, and calls what it has to*)
(* offer in any order.                                                     *)
(***************************************************************************)
EXTENDS Debugger

CONSTANTS
  Host,           \* which of the two hosts there are
  Lines,          \* the command lines that a user may type
  Symbols,        \* the symbol table of the program
  Options,        \* the settings of the switches of the command line
  MaxCommands     \* how many lines are typed at most: a bound of the model

Switches == {"startInDebugger", "quitOnPanic", "debugOnHalt",
             "quitOnFatalError"}

ASSUME MainLoopAssumption ==
  /\ Host \subseteq {"unl", "client"}
  /\ Options \subseteq SUBSET Switches
  /\ MaxCommands \in Nat
  /\ \A line \in Lines : line # <<>> /\ Tail(line) \in Seq(ArgumentWords)
  /\ Symbols.size \in DOMAIN BucketSizes /\ ChainsSound(Symbols)
  /\ \A b \in DOMAIN Symbols.chains :
       Symbols.chains[b] \in Seq([name : Name, address : 0 .. MaxWord])

VARIABLES
  host,
  switches,        \* the switches that are set
  phase,           \* "check", "prompt", "step" or "exited"
  enterDebugger,
  resultCode,
  typed            \* the lines typed so far

loop == <<host, switches, phase, enterDebugger, resultCode, typed>>
vars == <<machine, loop>>

Init ==
  /\ DebuggerInit
  /\ host \in Host
  /\ switches \in IF host = "unl" THEN Options ELSE {{}}
  /\ phase = "check"
  /\ enterDebugger = ("startInDebugger" \in switches)
  /\ resultCode = 0
  /\ typed = 0

IsUnl(p) == host = "unl" /\ phase = p /\ crash = "none"

-----------------------------------------------------------------------------
(* The main loop *)

(* The head of the loop; enterDebugger keeps the debugger from being asked. *)
Check ==
  /\ IsUnl("check")
  /\ IF enterDebugger
     THEN UNCHANGED dbg /\ phase' = "prompt"
     ELSE /\ dbg' = AfterBreakCheck
          /\ phase' = IF ShouldBreakExecution THEN "prompt" ELSE "step"
  /\ UNCHANGED <<vm, crash, host, switches, enterDebugger, resultCode, typed>>

(* What the loop makes of the debugger's status, which a line that cannot be
   parsed leaves as the last command set it. *)
ActsOnStatus ==
  /\ phase' = CASE dbg'.status = "resume" -> "step"
                [] dbg'.status = "quit" -> "exited"
                [] OTHER -> "prompt"
  /\ resultCode' = IF dbg'.status = "quit" THEN 0 ELSE resultCode

Types ==
  /\ typed < MaxCommands
  /\ typed' = typed + 1
  /\ UNCHANGED <<host, switches, enterDebugger>>

TypeCommand ==
  /\ IsUnl("prompt")
  /\ Types
  /\ \E line \in Lines :
       LET cmd == ParseDebugCommand(Symbols, vm.pc, line)
       IN  /\ IF cmd.word = "parseError" THEN UNCHANGED machine
              ELSE ExecuteDebugCommand(cmd)
           /\ ActsOnStatus

(* A blank line or one that is too long is ignored, the end of the input is
   a blank line; the loop does not look at the status. *)
TypeNothing ==
  /\ IsUnl("prompt")
  /\ Types
  /\ UNCHANGED <<machine, phase, resultCode>>

(* There is no memory for the buffer of the line. *)
NoCommandBuffer ==
  /\ IsUnl("prompt")
  /\ phase' = "exited"
  /\ resultCode' = -3
  /\ UNCHANGED <<machine, host, switches, enterDebugger, typed>>

(* Whether the loop goes on after a step that failed; in the mutant the
   switch for a panic is taken the wrong way round. *)
ShouldRunMut(status) ==
  CASE status = "halted" -> "debugOnHalt" \in switches
    [] status = "panic"  -> "quitOnPanic" \in switches
    [] OTHER             -> "quitOnFatalError" \notin switches

ShouldRun(status) ==
  CASE status = "halted" -> "debugOnHalt" \in switches
    [] status = "panic"  -> "quitOnPanic" \notin switches
    [] OTHER             -> "quitOnFatalError" \notin switches

ResultOf(status) ==
  CASE status = "halted" -> 0 [] status = "panic" -> -1 [] OTHER -> -2

Step ==
  /\ IsUnl("step")
  /\ StepVm
  /\ IF vm'.failed
     THEN /\ enterDebugger' = ShouldRun(vm'.status)
          /\ resultCode' = ResultOf(vm'.status)
          /\ phase' = IF enterDebugger' THEN "check" ELSE "exited"
     ELSE /\ phase' = "check"
          /\ UNCHANGED <<enterDebugger, resultCode>>
  /\ UNCHANGED <<host, switches, typed>>

-----------------------------------------------------------------------------
(* Any client of the debugger *)

IsClient == host = "client" /\ crash = "none"

ClientChecks ==
  /\ IsClient
  /\ dbg' = AfterBreakCheck
  /\ UNCHANGED <<vm, crash, loop>>

ClientSteps == IsClient /\ StepVm /\ UNCHANGED loop

(* A client may run a command that could not be parsed, too. *)
ClientCommand ==
  /\ IsClient
  /\ Types
  /\ \E line \in Lines :
       ExecuteDebugCommand(ParseDebugCommand(Symbols, vm.pc, line))
  /\ UNCHANGED <<phase, resultCode>>

(* clearDebuggerTransientBreakpoints, which the main program never calls, and
   clearDebuggerStatus. *)
ClientClears ==
  /\ IsClient
  /\ \/ dbg' = [dbg EXCEPT !.temporary = ClearBreakpoints(@)]
     \/ dbg' = [dbg EXCEPT !.status = "ok"]
  /\ UNCHANGED <<vm, crash, loop>>

Next ==
  \/ Check \/ TypeCommand \/ TypeNothing \/ NoCommandBuffer \/ Step
  \/ ClientChecks \/ ClientSteps \/ ClientCommand \/ ClientClears

(* The loop goes on by itself except at the prompt, where it waits for the
   user, who owes it nothing. *)
Spec == Init /\ [][Next]_vars /\ WF_vars(Check) /\ WF_vars(Step)

-----------------------------------------------------------------------------
(* Properties *)

Word == 0 .. MaxWord
StackOfWords(s) == s.items \in Seq(Word) /\ s.status \in StackStatuses

BreakpointList(b) ==
  /\ Breakpoints(b) \in Seq(Word) /\ b.lastPC \in Word
  /\ b.current \in 0 .. Len(Breakpoints(b))
  /\ b.status \in BreakpointStatuses

(* The types; above all, the index of the next breakpoint stays within the
   list as the list changes. *)
TypeOK ==
  /\ vm.pc \in Word /\ vm.state \in {"ready", "halted", "panic"}
  /\ vm.memory \in [0 .. Len(Memory) - 1 -> 0 .. 255]
  /\ StackOfWords(vm.calls) /\ StackOfWords(vm.addresses)
  /\ vm.status \in {"ok", "halted", "panic", "error"}
  /\ vm.failed \in BOOLEAN
  /\ BreakpointList(dbg.persistent) /\ BreakpointList(dbg.temporary)
  /\ dbg.breakOnNext \in BOOLEAN /\ dbg.status \in DebuggerStatuses
  /\ crash \in {"none", "nullPointer", "strayHeader", "assertion"}
  /\ phase \in {"check", "prompt", "step", "exited"}
  /\ enterDebugger \in BOOLEAN /\ resultCode \in {0, -1, -2, -3}
  /\ typed \in 0 .. MaxCommands

(* Whatever was added and removed, and however the PC jumped between the
   checks and past the ones that || or an s command skipped, isAtBreakpoint
   answers at every address as a search of the whole list would.  The address
   it was last asked about is left out: the breakpoint there may or may not
   be found a second time, as the list has changed since or not. *)
BreakpointNeverMissed ==
  \A b \in {dbg.persistent, dbg.temporary} :
    \A a \in 0 .. Len(Memory) :
      \/ a = b.lastPC
      \/ IsAtBreakpoint(b, a) = (a \in Range(Breakpoints(b)))

(* The lists are in ascending order without duplicates, within the memory
   that was allocated, and the index of the next breakpoint agrees with the
   address they were last asked about. *)
BreakpointListsSound ==
  \A b \in {dbg.persistent, dbg.temporary} :
    /\ \A i, j \in DOMAIN Breakpoints(b) :
         i < j => Breakpoints(b)[i] < Breakpoints(b)[j]
    /\ ArraySound(b.array)
    /\ CandidateSound(b)

(* pcs, ppcs and wcs leave whole frames on the call stack, with the half
   that pcs has pushed when the memory for the other half is missing. *)
CallStackInFrames == Len(vm.calls.items) % 2 = 0

(* The debugger brings the process down in two ways only: ss at a PC that
   isValidVmmAddress lets pass and that has no pointer, and hd where the
   memory does not hold a heap from its start to its end.  In particular the
   word that PCALL puts back always fits, and so does the one that ppcs does. *)
CrashOnlyInTwoWays ==
  \/ crash = "none"
  \/ /\ crash = "nullPointer"
     /\ IsValidVmmAddress(vm.pc) /\ ~HasPointer(vm.pc)
  \/ crash = "strayHeader" /\ HeapDumpStrays

(* unl.c: "Whether a PANIC instruction enters the debugger (0) or causes the
   VM to quit (1)", and likewise for the others. *)
EntersDebugger(status, set) ==
  \/ status = "halted" /\ "debugOnHalt" \in set
  \/ status = "panic" /\ "quitOnPanic" \notin set
  \/ status = "error" /\ "quitOnFatalError" \notin set

AtPromptOrExited == phase \in {"prompt", "exited"} \/ crash # "none"

(* When the program halts, panics or fails, the main program quits with the
   code for it or ends up at the prompt, as the comments on the switches in
   VmCmdLineArgs say. *)
FailuresHandledAsAsked ==
  \A status \in {"halted", "panic", "error"} :
    host = "unl" /\ vm.failed /\ vm.status = status
      ~> IF EntersDebugger(status, switches) THEN AtPromptOrExited
         ELSE phase = "exited" /\ resultCode = ResultOf(status)

(* Without the debugger the main program runs its program to the end, and
   asks the user nothing. *)
BatchRunEnds ==
  host = "unl" /\ switches = {"quitOnPanic", "quitOnFatalError"}
    => <>(phase = "exited")
=============================================================================
