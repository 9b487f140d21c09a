---------------------------- MODULE BoundedStack ---------------------------
(***************************************************************************)
(* What stack.h promises: a stack of words whose operations either do all  *)
(* of what they say or nothing, and that never holds more than Capacity    *)
(* words.  An operation may give up when it would need memory, never when  *)
(* it takes words off or only reads them.                                  *)
(***************************************************************************)
EXTENDS Integers, Sequences

CONSTANTS
  Words,      \* what a word may be
  Capacity,   \* the most words the stack holds
  MaxWords    \* the most words one call names

VARIABLES
  content,    \* the words on the stack, the top last
  call,       \* the last call: routine, items it was given, words it names
  failed      \* it failed

avars == <<content, call, failed>>

Asked(routine, items, count) ==
  call' = [routine |-> routine, items |-> items, count |-> count]

AInit == content = <<>> /\ failed = FALSE /\ call.routine = "createStack"

Refuse == failed' = TRUE /\ UNCHANGED content

APush(w) ==
  /\ Asked("pushStack", w, 0)
  /\ \/ /\ Len(content) + Len(w) <= Capacity
        /\ content' = content \o w
        /\ failed' = FALSE
     \/ Refuse

APop(k) ==
  /\ Asked("popStack", <<>>, k)
  /\ IF k <= Len(content)
     THEN content' = SubSeq(content, 1, Len(content) - k) /\ failed' = FALSE
     ELSE Refuse

ARead(k) ==
  /\ Asked("readStackTop", <<>>, k)
  /\ failed' = (k > Len(content))
  /\ UNCHANGED content

(* The top k words change places with the k words below them. *)
ASwap(k) ==
  /\ Asked("swapStackTop", <<>>, k)
  /\ \/ /\ 2 * k <= Len(content)
        /\ failed' = FALSE
        /\ LET n == Len(content)
           IN  content' = [i \in 1 .. n |->
                             IF i > n - k THEN content[i - k]
                             ELSE IF i > n - 2 * k THEN content[i + k]
                             ELSE content[i]]
     \/ Refuse

ADup(k) ==
  /\ Asked("dupStackTop", <<>>, k)
  /\ \/ /\ k <= Len(content)
        /\ Len(content) + k <= Capacity
        /\ failed' = FALSE
        /\ LET n == Len(content)
           IN  content' = [i \in 1 .. n + k |->
                             IF i > n THEN content[i - k] ELSE content[i]]
     \/ Refuse

AClear == Asked("clearStack", <<>>, 0) /\ content' = <<>> /\ failed' = FALSE

ASet(w) ==
  /\ Asked("setStack", w, 0)
  /\ \/ Len(w) <= Capacity /\ content' = w /\ failed' = FALSE
     \/ Refuse

(* A call without a buffer. *)
AReject(k) == Asked("nullArgument", <<>>, k) /\ Refuse

ANext ==
  \/ \E n \in 0 .. MaxWords : \E w \in [1 .. n -> Words] : APush(w) \/ ASet(w)
  \/ \E k \in 0 .. MaxWords :
       APop(k) \/ ARead(k) \/ ASwap(k) \/ ADup(k) \/ AReject(k)
  \/ AClear

ASpec == AInit /\ [][ANext]_avars
=============================================================================
