----------------------------- MODULE ArrayOps ------------------------------
(***************************************************************************)
(* A growing array (src/src/array.c) as a value, and what its routines make*)
(* of it.  Its users store elements of one size in it, so an array a is a  *)
(* record                                                                  *)
(*   items      its elements                                               *)
(*   width      the bytes of an element                                    *)
(*   allocated  the bytes allocated (a->eos - a->data)                     *)
(*   max        the most bytes it may hold                                 *)
(*   status     the outcome of the last call                               *)
(* A location is an index in items, from 0.  mem says whether realloc finds*)
(* memory.  A routine failed exactly when the status is not "ok".          *)
(***************************************************************************)
EXTENDS Integers, Sequences, FiniteSetsExt

(* How often one array can double: a bound of the model (64 in the code). *)
ArrayDoublings == 8

ArrayStatuses == {"ok", "tooLong", "noMemory", "invalidArgument"}

ArraySize(a) == a.width * Len(a.items)

(* createArray with nothing in it. *)
CreatedArray(width, max) ==
  [items |-> <<>>, width |-> width, allocated |-> 0, max |-> max,
   status |-> "ok"]

ArrayDone(a)          == [a EXCEPT !.status = "ok"]
ArrayFailed(a, error) == [a EXCEPT !.status = error]
ArrayOk(a)            == a.status = "ok"

-----------------------------------------------------------------------------
(* nextSizeIncrement, again and again: 16 bytes, then twice as many each
   time, and the maximum instead of anything larger. *)
StorageSizes(a) ==
  LET first == IF a.allocated < 16 THEN 16 ELSE 2 * a.allocated
  IN  {m \in 1 .. a.max :
         m = a.max \/ \E k \in 0 .. ArrayDoublings : m = first * 2^k}

NextStorage(a, bytes) == Min({m \in StorageSizes(a) : m >= bytes})

TooLong(a, n) == ArraySize(a) + n * a.width > a.max

(* Mutant: there is room as long as the array is not over-full. *)
WithStorageMut(a, n, mem) ==
  LET bytes == ArraySize(a) + n * a.width
  IN  IF TooLong(a, n) THEN ArrayFailed(a, "tooLong")
      ELSE IF ArraySize(a) <= a.allocated THEN ArrayDone(a)
      ELSE IF mem THEN [a EXCEPT !.allocated = NextStorage(a, bytes),
                                 !.status = "ok"]
      ELSE ArrayFailed(a, "noMemory")

(* The array with room for n more elements. *)
WithStorage(a, n, mem) ==
  LET bytes == ArraySize(a) + n * a.width
  IN  IF TooLong(a, n) THEN ArrayFailed(a, "tooLong")
      ELSE IF bytes <= a.allocated THEN ArrayDone(a)
      ELSE IF mem THEN [a EXCEPT !.allocated = NextStorage(a, bytes),
                                 !.status = "ok"]
      ELSE ArrayFailed(a, "noMemory")

(* appendToArray and insertIntoArray; nothing to insert is a success that
   leaves even the status alone. *)
InsertIntoArray(a, location, seq, mem) ==
  LET r == WithStorage(a, Len(seq), mem)
  IN  IF location > Len(a.items) THEN ArrayFailed(a, "invalidArgument")
      ELSE IF seq = <<>> THEN a
      ELSE IF ArrayOk(r)
      THEN [r EXCEPT !.items = SubSeq(@, 1, location) \o seq
                               \o SubSeq(@, location + 1, Len(@))]
      ELSE r

AppendToArray(a, seq, mem) == InsertIntoArray(a, Len(a.items), seq, mem)

(* removeFromArray takes out what there is of n elements. *)
RemoveFromArray(a, location, n) ==
  LET size == Len(a.items)
      last == Min({location + n, size})
  IN  IF location > size THEN ArrayFailed(a, "invalidArgument")
      ELSE IF last = location THEN a
      ELSE [a EXCEPT !.items = SubSeq(@, 1, location)
                               \o SubSeq(@, last + 1, size),
                     !.status = "ok"]

(* The memory that the elements take was allocated. *)
ArraySound(a) == ArraySize(a) <= a.allocated /\ a.allocated <= a.max
=============================================================================
