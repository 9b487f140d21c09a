------------------------------ MODULE StackOps -----------------------------
(***************************************************************************)
(* A stack of the virtual machine (src/src/stack.c) as a value, and what   *)
(* each stack routine makes of it.                                         *)
(*                                                                         *)
(* A stack s is a record                                                   *)
(*   items    what is on the stack, as words of 8 bytes: every caller      *)
(*            pushes and pops whole words                                  *)
(*   end      the bytes allocated (s->end - s->data)                       *)
(*   max      the most it may allocate (s->maxSize)                        *)
(*   status   s->statusCode                                                *)
(*                                                                         *)
(* A routine takes a stack and returns it changed; it failed exactly when  *)
(* the status of the result is not "ok".  Its argument mem says whether    *)
(* malloc and realloc find memory.                                         *)
(***************************************************************************)
EXTENDS Integers, Sequences, FiniteSetsExt

WordSize == 8

(* How often one stack can double: a bound of the model (64 in the code). *)
StackDoublings == 8

StackStatuses == {"ok", "overflow", "noMemory", "underflow",
                  "invalidArgument"}

Bytes(items) == WordSize * Len(items)
StackSize(s) == Bytes(s.items)

StackDone(s)          == [s EXCEPT !.status = "ok"]
StackFailed(s, error) == [s EXCEPT !.status = error]

StackOk(s) == s.status = "ok"

(* createStack; it returns NULL unless the sizes are those of CanCreate. *)
CanCreateStack(initial, max) == max > 0 /\ initial <= max
CreatedStack(initial, max) ==
  [items |-> <<>>, end |-> initial, max |-> max, status |-> "ok"]

-----------------------------------------------------------------------------
(***************************************************************************)
(* increaseStackSize.  The size is doubled, from 16 bytes if it is 0, until*)
(* there is room for n more bytes, and cut off at the maximum.  It starts  *)
(* from the bytes in use, not from the bytes allocated.                    *)
(***************************************************************************)
GrowthSizes(s) ==
  LET base == IF s.items = <<>> THEN WordSize ELSE StackSize(s)
  IN  {m \in 1 .. s.max :
         m = s.max \/ \E k \in 1 .. StackDoublings : m = base * 2^k}

(* Mutant: realloc gets the bytes that are needed now, and no more. *)
IncreasedEndMut(s, n) == StackSize(s) + n

IncreasedEnd(s, n) == Min({m \in GrowthSizes(s) : m >= StackSize(s) + n})

ExceedsMax(s, n) == StackSize(s) + n > s.max

IncreaseStackSize(s, n, mem) ==
  IF ExceedsMax(s, n) THEN StackFailed(s, "overflow")
  ELSE IF mem THEN [s EXCEPT !.end = IncreasedEnd(s, n), !.status = "ok"]
  ELSE StackFailed(s, "noMemory")

(* Mutants: the new bytes are forgotten; one byte must stay free; the guard
   is dropped. *)
ForgetsBytesMut(s, n, mem) ==
  IF StackSize(s) > s.end THEN IncreaseStackSize(s, n, mem) ELSE StackDone(s)
LeavesByteMut(s, n, mem) ==
  IF StackSize(s) + n >= s.end THEN IncreaseStackSize(s, n, mem)
  ELSE StackDone(s)
AlwaysReallocsMut(s, n, mem) == IncreaseStackSize(s, n, mem)

(* The stack with room for n more bytes. *)
WithRoom(s, n, mem) ==
  IF StackSize(s) + n > s.end THEN IncreaseStackSize(s, n, mem)
  ELSE StackDone(s)

-----------------------------------------------------------------------------
(* The routines *)

(* pushStack: whatever stops the growth is reported as an overflow. *)
PushStack(s, items, mem) ==
  LET r == WithRoom(s, Bytes(items), mem)
  IN  IF StackOk(r) THEN [r EXCEPT !.items = @ \o items]
      ELSE StackFailed(s, "overflow")

(* pushStack of NULL and readStackTop into NULL. *)
NullArgument(s) == StackFailed(s, "invalidArgument")

(* Mutant: the words are counted from the bottom. *)
TopItemsMut(s, k) == SubSeq(s.items, 1, k)

TopItems(s, k) == SubSeq(s.items, Len(s.items) - k + 1, Len(s.items))

HasWords(s, k) == k <= Len(s.items)

PopStack(s, k) ==
  IF HasWords(s, k)
  THEN [s EXCEPT !.items = SubSeq(@, 1, Len(@) - k), !.status = "ok"]
  ELSE StackFailed(s, "underflow")

ReadStackTop(s, k) ==
  IF HasWords(s, k) THEN StackDone(s) ELSE StackFailed(s, "underflow")

(* swapStackTop allocates a buffer for the words it swaps. *)
SwapStackTop(s, k, mem) ==
  IF ~HasWords(s, 2 * k) THEN StackFailed(s, "underflow")
  ELSE IF k > 0 /\ ~mem THEN StackFailed(s, "noMemory")
  ELSE LET rest == SubSeq(s.items, 1, Len(s.items) - 2 * k)
           next == SubSeq(TopItems(s, 2 * k), 1, k)
       IN  [s EXCEPT !.items = rest \o TopItems(s, k) \o next,
                     !.status = "ok"]

(* dupStackTop reports what stopped the growth. *)
DupStackTop(s, k, mem) ==
  LET r == WithRoom(s, WordSize * k, mem)
  IN  IF ~HasWords(s, k) THEN StackFailed(s, "underflow")
      ELSE IF StackOk(r) THEN [r EXCEPT !.items = @ \o TopItems(s, k)]
      ELSE r

ClearStack(s) == [s EXCEPT !.items = <<>>, !.status = "ok"]

(* setStack grows the stack as if the items came on top of those it has. *)
SetStack(s, items, mem) ==
  LET n == Bytes(items)
      r == IF n > s.end THEN IncreaseStackSize(s, n, mem) ELSE StackDone(s)
  IN  IF n > s.max THEN StackFailed(s, "overflow")
      ELSE IF StackOk(r) THEN [r EXCEPT !.items = items]
      ELSE r
=============================================================================
