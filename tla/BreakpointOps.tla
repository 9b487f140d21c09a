--------------------------- MODULE BreakpointOps ---------------------------
(***************************************************************************)
(* A list of breakpoints (src/src/brkpt.c) as a value: a record            *)
(*   array    the addresses, in an array                                   *)
(*   current  the index, from 0, of the breakpoint to be met next          *)
(*   lastPC   the address that the list was last asked about               *)
(*   status   the outcome of the last change                               *)
(* So that a program that runs forward never searches the list, a check    *)
(* starts at current, and restarts only when the address went backwards.   *)
(***************************************************************************)
EXTENDS ArrayOps, SequencesExt

BreakpointStatuses == {"ok", "full", "noMemory", "other"}

CreatedBreakpointList(max) ==
  [array |-> CreatedArray(8, 8 * max), current |-> 0, lastPC |-> 0,
   status |-> "ok"]

Breakpoints(b) == b.array.items

(* The index of the first breakpoint that Test holds of, or their number. *)
FirstIndex(b, Test(_)) ==
  LET i == SelectInSeq(Breakpoints(b), Test)
  IN  IF i = 0 THEN Len(Breakpoints(b)) ELSE i - 1

FindBreakpointAtOrAfter(b, a) == FirstIndex(b, LAMBDA p : p >= a)
FindBreakpointAfter(b, a)     == FirstIndex(b, LAMBDA p : p > a)

IsBreakpointAt(b, i, a) ==
  i < Len(Breakpoints(b)) /\ Breakpoints(b)[i + 1] = a

(* The index at which isAtBreakpoint stops.  In the mutant it is never moved
   back. *)
CandidateMut(b, pc) == Max({b.current, FindBreakpointAtOrAfter(b, pc)})

Candidate(b, pc) ==
  IF pc < b.lastPC THEN FindBreakpointAtOrAfter(b, pc)
  ELSE Max({b.current, FindBreakpointAtOrAfter(b, pc)})

CheckBreakpoint(b, pc) ==
  [b EXCEPT !.current = Candidate(b, pc), !.lastPC = pc]

IsAtBreakpoint(b, pc) == IsBreakpointAt(b, Candidate(b, pc), pc)

(* The list after a change: the next breakpoint is looked for again.  In the
   mutant the index is left as it was. *)
WithNewCandidateMut(b) == [b EXCEPT !.status = "ok"]
WithNewCandidate(b) ==
  [b EXCEPT !.current = FindBreakpointAfter(b, b.lastPC), !.status = "ok"]

(* addBreakpointToList; a breakpoint that is there already is a success.  In
   the mutant it goes behind the next one. *)
InsertionIndexMut(b, a) == Min({FindBreakpointAfter(b, a) + 1,
                                Len(Breakpoints(b))})
InsertionIndex(b, a) == FindBreakpointAtOrAfter(b, a)

AddBreakpoint(b, a, mem) ==
  LET n == FindBreakpointAtOrAfter(b, a)
      r == InsertIntoArray(b.array, InsertionIndex(b, a), <<a>>, mem)
  IN  IF IsBreakpointAt(b, n, a) THEN [b EXCEPT !.status = "ok"]
      ELSE IF ArrayOk(r) THEN WithNewCandidate([b EXCEPT !.array = r])
      ELSE [b EXCEPT !.status =
              IF r.status = "tooLong" THEN "full" ELSE "noMemory"]

RemoveBreakpoint(b, a) ==
  LET i == SelectInSeq(Breakpoints(b), LAMBDA p : p = a)
  IN  IF i = 0 THEN [b EXCEPT !.status = "ok"]
      ELSE WithNewCandidate(
             [b EXCEPT !.array = RemoveFromArray(@, i - 1, 1)])

(* clearBreakpointList leaves lastPC alone. *)
ClearBreakpoints(b) ==
  [b EXCEPT !.array = [@ EXCEPT !.items = <<>>, !.status = "ok"],
            !.current = 0, !.status = "ok"]

(* What the checks rely on: the breakpoints are in ascending order, those
   before current are at most lastPC, and the others at least lastPC. *)
CandidateSound(b) ==
  /\ b.current \in 0 .. Len(Breakpoints(b))
  /\ \A i \in 1 .. b.current : Breakpoints(b)[i] <= b.lastPC
  /\ \A i \in b.current + 1 .. Len(Breakpoints(b)) :
       Breakpoints(b)[i] >= b.lastPC
=============================================================================
