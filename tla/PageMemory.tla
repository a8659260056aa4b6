----------------------------- MODULE PageMemory -----------------------------
(***************************************************************************)
(* What one page of device memory promises its clients, with no free list: *)
(* an allocation gets the lowest aligned range that no live allocation     *)
(* touches, and it fails only when there is no such range.                 *)
(* The abstract specification that SlobPage implements.                    *)
(***************************************************************************)
EXTENDS SlobBlocks

VARIABLES
    live,       \* the allocations not yet freed
    last        \* the last call of alloc and what it returned

vars == <<live, last>>

NoCall == [size |-> 0, align |-> 1, offset |-> Poison]

\* The aligned offsets where size bytes touch no live allocation.
Holes(size, align) ==
    {o \in 0 .. PageSize - size :
        o % align = 0 /\ Bytes(Block(o, size)) \cap BytesOf(live) = {}}

Init ==
    /\ live = {}
    /\ last = NoCall

AllocAt(size, align, o) ==
    /\ o \in Holes(size, align)
    /\ \A p \in Holes(size, align) : o <= p
    /\ live' = live \cup {Block(o, size)}
    /\ last' = [size |-> size, align |-> align, offset |-> o]

AllocFails(size, align) ==
    /\ Holes(size, align) = {}
    /\ last' = [size |-> size, align |-> align, offset |-> Poison]
    /\ UNCHANGED live

Free(b) ==
    /\ live' = live \ {b}
    /\ UNCHANGED last

Next ==
    \/ \E size \in Sizes, align \in Aligns :
          \/ \E o \in Holes(size, align) : AllocAt(size, align, o)
          \/ AllocFails(size, align)
    \/ \E b \in live : Free(b)

Spec == Init /\ [][Next]_vars
=============================================================================
