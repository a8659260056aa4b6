----------------------------- MODULE DeviceHeap -----------------------------
(***************************************************************************)
(* What gfx_malloc::slob promises the code that places buffers and images: *)
(* a heap of device pages that grows and shrinks by whole pages, whose     *)
(* allocations are aligned, inside a page the device still owns, and       *)
(* disjoint; a page goes back to the device only when nothing lives in it. *)
(* No lists, no free blocks: the abstract specification Slob implements.   *)
(***************************************************************************)
EXTENDS SlobBlocks

CONSTANT Handles

VARIABLES
    device,     \* the pages of device memory now allocated
    live        \* live[h]: the allocations placed in page h

vars == <<device, live>>

Init ==
    /\ device = {}
    /\ live = [h \in Handles |-> {}]

Grow(h) ==
    /\ h \notin device
    /\ device' = device \cup {h}
    /\ UNCHANGED live

Alloc(h, b, align) ==
    /\ h \in device
    /\ b.offset % align = 0
    /\ b.offset >= 0 /\ End(b) <= PageSize
    /\ Bytes(b) \cap BytesOf(live[h]) = {}
    /\ live' = [live EXCEPT ![h] = @ \cup {b}]
    /\ UNCHANGED device

Free(h, b) ==
    /\ b \in live[h]
    /\ live' = [live EXCEPT ![h] = @ \ {b}]
    /\ UNCHANGED device

Shrink(h) ==
    /\ h \in device /\ live[h] = {}
    /\ device' = device \ {h}
    /\ UNCHANGED live

Next ==
    \E h \in Handles :
        \/ Grow(h)
        \/ Shrink(h)
        \/ \E b \in live[h] : Free(h, b)
        \/ \E size \in Sizes, align \in Aligns, o \in 0 .. PageSize :
              Alloc(h, Block(o, size), align)

Spec == Init /\ [][Next]_vars
=============================================================================
