---------------------------- MODULE VmStackProofs --------------------------
(***************************************************************************)
(* A stack of stack.c stays within its allocation and implements           *)
(* BoundedStack, for every word, size and sequence of calls.               *)
(***************************************************************************)
EXTENDS VmStack, VmLemmas

(* The inductive invariant. *)
StackInv == SoundStack(stack, Word) /\ stack.max = MaxBytes

USE DEF StackInv

LEMMA ItemsAreWords == \A items \in Items : items \in Seq(Word)
BY VmStackAssumption DEF Items

LEMMA SoundInit == Init => StackInv
BY VmStackAssumption
DEF Init, CreatedStack, CanCreateStack, StackInv, SoundStack, StackStatuses,
    StackSize, Bytes, WordSize

(* Every call makes a sound stack of a sound stack, that has not shrunk. *)
LEMMA CallFollows ==
  ASSUME StackInv, Next
  PROVE  Follows(stack, stack', Word)
<1>1. ASSUME NEW items \in Items, Push(items) \/ Set(items)
      PROVE  Follows(stack, stack', Word)
  BY <1>1, ItemsAreWords, PushFacts, SetFacts DEF Push, Set
<1>2. MaxWords \in Nat /\ 0 .. MaxWords \subseteq Nat
  BY VmStackAssumption
<1>3. ASSUME NEW k \in 0 .. MaxWords, Pop(k) \/ Read(k)
      PROVE  Follows(stack, stack', Word)
  BY <1>2, <1>3, PopFacts, ReadFacts DEF Pop, Read
<1>4. ASSUME NEW k \in 0 .. MaxWords, Swap(k) \/ Dup(k)
      PROVE  Follows(stack, stack', Word)
  BY <1>2, <1>4, SwapFacts, DupFacts DEF Swap, Dup
<1>5. ASSUME NEW k \in 1 .. MaxWords, PassNull(k)
      PROVE  Follows(stack, stack', Word)
  BY <1>5, FailureRefuses DEF PassNull, NullArgument, StackStatuses
<1>6. ASSUME Clear PROVE Follows(stack, stack', Word)
  BY <1>6, ClearFacts DEF Clear
<1> QED BY <1>1, <1>3, <1>4, <1>5, <1>6 DEF Next

LEMMA SoundNext == StackInv /\ [Next]_vars => StackInv'
<1>1. CASE Next
  BY <1>1, CallFollows DEF Follows, SoundStack, StackSize
<1>2. CASE UNCHANGED vars
  BY <1>2 DEF vars, SoundStack, StackSize
<1> QED BY <1>1, <1>2

LEMMA Soundness == Spec => []StackInv
BY SoundInit, SoundNext, PTL DEF Spec

(* pushStack, dupStackTop and setStack never write past the allocation, and
   never allocate more than the maximum. *)
THEOREM AllocationTheorem == Spec => []WithinAllocation
<1>1. StackInv => WithinAllocation
  BY DEF SoundStack, WithinAllocation
<1> QED BY <1>1, Soundness, PTL

(* increaseStackSize never makes the allocation smaller. *)
THEOREM NoShrinkTheorem == Spec => AllocationNeverShrinks
<1>1. StackInv /\ [Next]_vars => [stack.end <= stack'.end]_vars
  <2>1. ASSUME StackInv, Next PROVE stack.end <= stack'.end
    BY <2>1, CallFollows DEF Follows
  <2> QED BY <2>1
<1> QED BY <1>1, Soundness, PTL DEF Spec, AllocationNeverShrinks

-----------------------------------------------------------------------------
(* The refinement of BoundedStack *)

Capacity == MaxBytes \div WordSize

LEMMA CapacityFacts ==
  ASSUME NEW s, SoundStack(s, Word), s.max = MaxBytes
  PROVE  /\ Capacity \in Nat /\ Len(s.items) \in Nat
         /\ Len(s.items) <= Capacity
<1>1. MaxBytes \in Nat
  BY VmStackAssumption
<1>2. Len(s.items) \in Nat /\ 8 * Len(s.items) <= MaxBytes
  BY <1>1, StackSizeNat DEF SoundStack
<1>3. ASSUME NEW n \in Nat, 8 * n <= MaxBytes
      PROVE  n <= MaxBytes \div 8
  BY <1>1, <1>3
<1> QED BY <1>1, <1>2, <1>3 DEF Capacity, WordSize

(* What the mapping makes of a call that is refused, and of one that is
   done. *)
LEMMA MappedOutcome ==
  /\ Refused(stack, stack') => Promise!Refuse
  /\ \A items : Done(stack', items) =>
       (stack.status # "ok")' = FALSE /\ (stack.items)' = items
BY DEF Refused, Done, Promise!Refuse

LEMMA PushStep ==
  ASSUME StackInv, StackInv', NEW items \in Seq(Word), Push(items)
  PROVE  Promise!APush(items)
<1>1. Promise!Asked("pushStack", items, 0)
  BY DEF Push, Request, Promise!Asked
<1>2. Done(stack', stack.items \o items) \/ Refused(stack, stack')
  BY PushFacts DEF Push
<1>3. CASE Done(stack', stack.items \o items)
  <2>1. stack.items \in Seq(Word)
    BY DEF SoundStack
  <2>2. Len(stack.items \o items) = Len(stack.items) + Len(items)
    BY <2>1, ConcatProperties
  <2>3. Len(stack.items) + Len(items) <= Capacity
    BY <1>3, <2>2, CapacityFacts DEF Done
  <2> QED BY <1>1, <1>3, <2>3, MappedOutcome DEF Promise!APush, Capacity
<1>4. CASE Refused(stack, stack')
  BY <1>1, <1>4, MappedOutcome DEF Promise!APush
<1> QED BY <1>2, <1>3, <1>4

LEMMA SetStep ==
  ASSUME StackInv, StackInv', NEW items \in Seq(Word), Set(items)
  PROVE  Promise!ASet(items)
<1>1. Promise!Asked("setStack", items, 0)
  BY DEF Set, Request, Promise!Asked
<1>2. Done(stack', items) \/ Refused(stack, stack')
  BY SetFacts DEF Set
<1>3. CASE Done(stack', items)
  <2>1. Len(items) <= Capacity
    BY <1>3, CapacityFacts DEF Done
  <2> QED BY <1>1, <1>3, <2>1, MappedOutcome DEF Promise!ASet, Capacity
<1>4. CASE Refused(stack, stack')
  BY <1>1, <1>4, MappedOutcome DEF Promise!ASet
<1> QED BY <1>2, <1>3, <1>4

LEMMA PopStep ==
  ASSUME StackInv, NEW k \in Nat, Pop(k)
  PROVE  Promise!APop(k)
<1>1. Promise!Asked("popStack", <<>>, k)
  BY DEF Pop, Request, Promise!Asked
<1>2. IF HasWords(stack, k)
      THEN Done(stack', SubSeq(stack.items, 1, Len(stack.items) - k))
      ELSE Refused(stack, stack')
  BY PopFacts DEF Pop
<1> QED BY <1>1, <1>2, MappedOutcome DEF Promise!APop, HasWords

LEMMA ReadStep ==
  ASSUME StackInv, NEW k \in Nat, Read(k)
  PROVE  Promise!ARead(k)
<1>1. Promise!Asked("readStackTop", <<>>, k)
  BY DEF Read, Request, Promise!Asked
<1>2. IF HasWords(stack, k)
      THEN Done(stack', stack.items) ELSE Refused(stack, stack')
  BY ReadFacts DEF Read
<1>3. CASE HasWords(stack, k)
  <2>1. (k > Len(stack.items)) = FALSE
    BY <1>3, CapacityFacts DEF HasWords
  <2> QED BY <1>1, <1>2, <1>3, <2>1, MappedOutcome DEF Promise!ARead
<1>4. CASE ~HasWords(stack, k)
  <2>1. (k > Len(stack.items)) = TRUE
    BY <1>4, CapacityFacts DEF HasWords
  <2>2. Promise!Refuse
    BY <1>2, <1>4, MappedOutcome
  <2> QED BY <1>1, <2>1, <2>2 DEF Promise!ARead, Promise!Refuse
<1> QED BY <1>3, <1>4

LEMMA SwapStep ==
  ASSUME StackInv, NEW k \in Nat, Swap(k)
  PROVE  Promise!ASwap(k)
<1>1. Promise!Asked("swapStackTop", <<>>, k)
  BY DEF Swap, Request, Promise!Asked
<1>2. \/ Refused(stack, stack')
      \/ HasWords(stack, 2 * k) /\ Done(stack', Swapped(stack, k))
  BY SwapFacts DEF Swap
<1>3. CASE Refused(stack, stack')
  BY <1>1, <1>3, MappedOutcome DEF Promise!ASwap
<1>4. CASE HasWords(stack, 2 * k) /\ Done(stack', Swapped(stack, k))
  BY <1>1, <1>4, MappedOutcome DEF Promise!ASwap, Swapped, HasWords
<1> QED BY <1>2, <1>3, <1>4

LEMMA DupStep ==
  ASSUME StackInv, StackInv', NEW k \in Nat, Dup(k)
  PROVE  Promise!ADup(k)
<1>1. Promise!Asked("dupStackTop", <<>>, k)
  BY DEF Dup, Request, Promise!Asked
<1>2. \/ Refused(stack, stack')
      \/ HasWords(stack, k) /\ Done(stack', Duplicated(stack, k))
  BY DupFacts DEF Dup
<1>3. CASE Refused(stack, stack')
  BY <1>1, <1>3, MappedOutcome DEF Promise!ADup
<1>4. CASE HasWords(stack, k) /\ Done(stack', Duplicated(stack, k))
  <2>1. Len(stack'.items) <= Capacity /\ stack'.items \in Seq(Word)
        /\ Len(stack.items) \in Nat
    BY CapacityFacts DEF SoundStack
  <2>2. DOMAIN stack'.items = 1 .. Len(stack.items) + k
    BY <1>4 DEF Done, Duplicated
  <2>3. DOMAIN stack'.items = 1 .. Len(stack'.items)
    BY <2>1, LenProperties
  <2>4. Len(stack.items) + k <= Capacity
    BY <2>1, <2>2, <2>3
  <2> QED BY <1>1, <1>4, <2>4, MappedOutcome
          DEF Promise!ADup, Duplicated, HasWords, Capacity
<1> QED BY <1>2, <1>3, <1>4

LEMMA CallRefines ==
  ASSUME StackInv, Next
  PROVE  Promise!ANext
<1>1. StackInv'
  BY CallFollows DEF Follows
<1>2. MaxWords \in Nat /\ \A k \in 0 .. MaxWords : k \in Nat
  BY VmStackAssumption
<1>3. ASSUME NEW items \in Items, Push(items) \/ Set(items)
      PROVE  Promise!ANext
  <2>1. Promise!APush(items) \/ Promise!ASet(items)
    BY <1>1, <1>3, ItemsAreWords, PushStep, SetStep
  <2>2. PICK n \in 0 .. MaxWords : items \in [1 .. n -> Word]
    BY DEF Items
  <2> QED BY <2>1, <2>2 DEF Promise!ANext
<1>4. ASSUME NEW k \in 0 .. MaxWords, Pop(k) \/ Read(k) \/ Swap(k) \/ Dup(k)
      PROVE  Promise!ANext
  <2>1. Promise!APop(k) \/ Promise!ARead(k) \/ Promise!ASwap(k)
        \/ Promise!ADup(k)
    BY <1>1, <1>2, <1>4, PopStep, ReadStep, SwapStep, DupStep
  <2> QED BY <2>1 DEF Promise!ANext
<1>5. ASSUME NEW k \in 1 .. MaxWords, PassNull(k) PROVE Promise!ANext
  <2>1. Refused(stack, stack')
    BY <1>5, FailureRefuses DEF PassNull, NullArgument, StackStatuses
  <2>2. Promise!Asked("nullArgument", <<>>, k)
    BY <1>5 DEF PassNull, Request, Promise!Asked
  <2>3. Promise!AReject(k)
    BY <2>1, <2>2, MappedOutcome DEF Promise!AReject
  <2>4. k \in 0 .. MaxWords
    BY <1>2
  <2> QED BY <2>3, <2>4 DEF Promise!ANext
<1>6. ASSUME Clear PROVE Promise!ANext
  <2>1. Done(stack', <<>>)
    BY <1>6, ClearFacts DEF Clear
  <2>2. Promise!Asked("clearStack", <<>>, 0)
    BY <1>6 DEF Clear, Request, Promise!Asked
  <2>3. Promise!AClear
    BY <2>1, <2>2, MappedOutcome DEF Promise!AClear
  <2> QED BY <2>3 DEF Promise!ANext
<1> QED BY <1>3, <1>4, <1>5, <1>6 DEF Next

(* Every call of stack.c does what stack.h says of it, or leaves the words of
   the stack as they were. *)
THEOREM RefinementTheorem == Spec => ImplementsBoundedStack
<1>1. Init => Promise!AInit
  BY DEF Init, CreatedStack, Request, Promise!AInit
<1>2. StackInv /\ [Next]_vars => [Promise!ANext]_(Promise!avars)
  <2>1. CASE StackInv /\ Next
    BY <2>1, CallRefines
  <2>2. CASE UNCHANGED vars
    BY <2>2 DEF vars, Promise!avars
  <2> QED BY <2>1, <2>2
<1> QED BY <1>1, <1>2, Soundness, PTL
    DEF Spec, ImplementsBoundedStack, Promise!ASpec
=============================================================================
