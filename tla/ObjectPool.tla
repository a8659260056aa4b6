------------------------------ MODULE ObjectPool ----------------------------
(***************************************************************************)
(* What PTSMemoryAllocator promises for objects of one size: an allocation *)
(* returns an object that nobody holds, whichever thread frees it later.   *)
(*                                                                         *)
(* Says nothing of blocks, lists or threads; BlockAllocator implements it. *)
(***************************************************************************)
EXTENDS Naturals

CONSTANT Objects

VARIABLE held       \* how many times the program has each object: 0 or 1

Init == held = [o \in Objects |-> 0]

Alloc(o) == held[o] = 0 /\ held' = [held EXCEPT ![o] = 1]

Free(o) == held[o] = 1 /\ held' = [held EXCEPT ![o] = 0]

Next == \E o \in Objects : Alloc(o) \/ Free(o)

Spec == Init /\ [][Next]_held
=============================================================================
