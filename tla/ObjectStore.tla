---------------------------- MODULE ObjectStore ----------------------------
(***************************************************************************)
(* What the memory of the virtual machine promises its user, whatever the  *)
(* allocator and the collector do: an object is stored where no other      *)
(* object is, and stays there, unchanged, as long as it can be reached.    *)
(* VmMemory implements this specification.                                 *)
(***************************************************************************)
EXTENDS Integers

CONSTANT MemoryLimit    \* no object extends beyond this address

VARIABLES
  objects,   \* header address |-> [size, refs, ...], the objects in use
  roots,     \* the addresses the user holds
  lost       \* an undefined step was taken: nothing is promised any more

vars == <<objects, roots, lost>>

ObjectHeader == 8


Overlap(objs, a, b) == a < b + ObjectHeader + objs[b].size
                       /\ b < a + ObjectHeader + objs[a].size

Named(objs, R) == {a \in DOMAIN objs : a + ObjectHeader \in R}

ReachClosed(objs, R, S) ==
  /\ Named(objs, R) \subseteq S
  /\ \A a \in S : Named(objs, objs[a].refs) \subseteq S

(* The objects that following addresses leads to from R. *)
ReachableFrom(objs, R) ==
  LET closed == {S \in SUBSET DOMAIN objs : ReachClosed(objs, R, S)}
  IN  {a \in DOMAIN objs : \A S \in closed : a \in S}

Init == lost = FALSE /\ roots = {} /\ objects = [a \in {} |-> 0]

(* A new object, away from all others, that holds addresses of the user. *)
Store ==
  \E a \in DOMAIN objects' \ DOMAIN objects :
    /\ DOMAIN objects' = DOMAIN objects \cup {a}
    /\ \A b \in DOMAIN objects :
         objects'[b] = objects[b] /\ ~Overlap(objects', a, b)
    /\ a + ObjectHeader + objects'[a].size <= MemoryLimit
    /\ objects'[a].refs \subseteq roots
    /\ roots' = roots \cup {a + ObjectHeader}

(* Some objects go away, never one that is reachable. *)
Reclaim ==
  /\ ReachableFrom(objects, roots) \subseteq DOMAIN objects'
  /\ DOMAIN objects' \subseteq DOMAIN objects
  /\ \A a \in DOMAIN objects' : objects'[a] = objects[a]
  /\ UNCHANGED roots

(* The user forgets addresses, or reads them in what it can reach. *)
Access ==
  /\ roots' \subseteq
       roots \cup UNION {objects[a].refs : a \in ReachableFrom(objects, roots)}
  /\ UNCHANGED objects

Next ==
  /\ ~lost
  /\ \/ (Store \/ Reclaim \/ Access) /\ UNCHANGED lost
     \/ lost' = TRUE

Spec == Init /\ [][Next]_vars
=============================================================================
