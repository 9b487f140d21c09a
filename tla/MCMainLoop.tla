---------------------------- MODULE MCMainLoop -----------------------------
(* MainLoop for TLC: a program that calls the procedure behind it and halts,
     0: PUSH 11    9: PCALL    10: HALT    11: RET
   with a heap of one free block of 16 bytes behind it,
   the lines a user may type to move its breakpoints, its PC, its stacks and
   its last instruction, and a line for each other command and each way of
   mistyping one. *)
EXTENDS MainLoop

N(n) == Number(n)
S(name, displacement) == SymbolWord(name, displacement)

Program == <<1, 11, 0, 0, 0, 0, 0, 0, 0, 5, 16, 6, 0, 0, 0, 0>>
FreeHeap == <<8, 0, 0, 0, 0, 0, 0, 0, 0, 0, 0, 0, 0, 0, 0, 0>>
ProgramAndHeap == Program \o FreeHeap
Codes == [n \in Name |-> IF n = "main" THEN 1 ELSE 2]
Sizes == <<2>>
ProgramSymbols ==
  FoldLeft(LAMBDA t, s : AddSymbol(t, s[1], s[2], Allocations),
           CreatedTable(2), <<<<"main", 0>>, <<"f", 11>>>>)

Changing ==
  {<<"ba", S("f", 0)>>, <<"ba", N(9)>>, <<"bd", N(9)>>, <<"bd", S("f", 0)>>,
   <<"r">>, <<"r", N(0)>>, <<"r", S("f", 0)>>, <<"r", N(240)>>,
   <<"rr">>, <<"s">>, <<"ss">>,
   <<"pcs", N(11), N(10)>>, <<"wcs", N(0), N(11), N(9)>>, <<"ppcs">>,
   <<"pas", N(99)>>, <<"was", N(0), S("main", 0)>>, <<"ppas">>,
   <<"w", S("f", 0), N(0)>>, <<"w", N(10), N(99), N(2)>>,
   <<"w", N(16), N(0)>>}

Answered ==
  {<<"l">>, <<"d", N(100)>>, <<"as">>, <<"cs">>, <<"b">>, <<"h">>, <<"q">>,
   <<"hd", Other>>, <<"sym", S("g", 0)>>, <<"w", N(11), N(1), N(1)>>,
   <<"r", N(100)>>}

Mistyped == {<<"x">>, <<"ba", N(255)>>, <<"bd", S("g", 0)>>}

AllLines == Changing \cup Answered \cup Mistyped

Settings ==
  {{}, {"startInDebugger"}, {"quitOnPanic", "quitOnFatalError"},
   {"startInDebugger", "quitOnPanic", "debugOnHalt"}}
=============================================================================
