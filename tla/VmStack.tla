------------------------------- MODULE VmStack -----------------------------
(***************************************************************************)
(* One stack, src/src/stack.c, under any sequence of calls.                *)
(***************************************************************************)
EXTENDS StackOps

CONSTANTS
  Word,          \* what a word on the stack may be
  InitialBytes,  \* initialSize of createStack
  MaxBytes,      \* maxSize of createStack
  MaxWords       \* bound on the words that one call moves

ASSUME VmStackAssumption ==
  /\ InitialBytes \in Nat /\ MaxBytes \in Nat \ {0}
  /\ CanCreateStack(InitialBytes, MaxBytes)
  /\ MaxWords \in Nat

VARIABLES
  stack,
  call      \* the routine called last, what it was given to push or set,
            \* and how many words it was to pop, read, swap or duplicate

vars == <<stack, call>>

Request(routine, items, count) ==
  [routine |-> routine, items |-> items, count |-> count]

Init ==
  /\ stack = CreatedStack(InitialBytes, MaxBytes)
  /\ call = Request("createStack", <<>>, 0)

Items == UNION {[1 .. n -> Word] : n \in 0 .. MaxWords}

Push(items) ==
  /\ \E mem \in BOOLEAN : stack' = PushStack(stack, items, mem)
  /\ call' = Request("pushStack", items, 0)

PassNull(k) ==
  /\ stack' = NullArgument(stack)
  /\ call' = Request("nullArgument", <<>>, k)

Pop(k) ==
  /\ stack' = PopStack(stack, k)
  /\ call' = Request("popStack", <<>>, k)

Read(k) ==
  /\ stack' = ReadStackTop(stack, k)
  /\ call' = Request("readStackTop", <<>>, k)

Swap(k) ==
  /\ \E mem \in BOOLEAN : stack' = SwapStackTop(stack, k, mem)
  /\ call' = Request("swapStackTop", <<>>, k)

Dup(k) ==
  /\ \E mem \in BOOLEAN : stack' = DupStackTop(stack, k, mem)
  /\ call' = Request("dupStackTop", <<>>, k)

Clear ==
  /\ stack' = ClearStack(stack)
  /\ call' = Request("clearStack", <<>>, 0)

Set(items) ==
  /\ \E mem \in BOOLEAN : stack' = SetStack(stack, items, mem)
  /\ call' = Request("setStack", items, 0)

Next ==
  \/ \E items \in Items : Push(items) \/ Set(items)
  \/ \E k \in 0 .. MaxWords : Pop(k) \/ Read(k) \/ Swap(k) \/ Dup(k)
  \/ \E k \in 1 .. MaxWords : PassNull(k)
  \/ Clear

Spec == Init /\ [][Next]_vars

-----------------------------------------------------------------------------
(* Properties *)

(* memcpy in pushStack, dupStackTop and setStack writes within the memory
   that malloc or realloc gave, and that is never more than the maximum. *)
WithinAllocation ==
  /\ stack = [items |-> stack.items, end |-> stack.end, max |-> MaxBytes,
              status |-> stack.status]
  /\ stack.items \in Seq(Word) /\ stack.end \in Nat
  /\ stack.status \in StackStatuses
  /\ StackSize(stack) <= stack.end /\ stack.end <= MaxBytes

(* The allocation never shrinks, although increaseStackSize computes the new
   size from the bytes in use: what fitted once fits again without realloc. *)
AllocationNeverShrinks == [][stack.end <= stack'.end]_vars

(* Every call does what stack.h says of it or leaves the words on the stack
   as they were, and fails only where stack.h lets it. *)
Promise == INSTANCE BoundedStack WITH
             Words <- Word, Capacity <- MaxBytes \div WordSize,
             content <- stack.items, failed <- stack.status # "ok"

ImplementsBoundedStack == Promise!ASpec

(* stack.h: setStack is the same as popping everything and pushing the new
   items, so that it overflows only when these exceed the maximum. *)
SetIsClearAndPush ==
  [][call'.routine = "setStack" /\ stack'.status = "overflow"
     => Bytes(call'.items) > MaxBytes]_vars
=============================================================================
