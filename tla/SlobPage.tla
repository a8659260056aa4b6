------------------------------ MODULE SlobPage ------------------------------
(***************************************************************************)
(* One slob_page (src/src/pt_gfx_malloc.cpp) and the clients that hold its *)
(* allocations.  Every operation runs with the slob's lock held, so each   *)
(* is one step.  The page starts as init_on_free_page_list leaves it.  The *)
(* free of the last live block destroys the page (slob::free); the model   *)
(* goes on with the next page object, which starts the same way.  What     *)
(* Slob also has is named here for the page.                               *)
(***************************************************************************)
EXTENDS SlobBlocks

VARIABLES
    pageFree,   \* m_free_block_list
    pageSum,    \* m_sum_free_size
    pageLive,   \* ghost: the blocks clients hold
    last        \* ghost: the last call of alloc and what it returned

pageVars == <<pageFree, pageSum, pageLive, last>>

NoCall == [size |-> 0, align |-> 1, offset |-> Poison]

\* init_on_free_page_list: one free block, the whole page.
PageInit ==
    /\ pageFree = {Block(0, PageSize)}
    /\ pageSum = PageSize
    /\ pageLive = {}
    /\ last = NoCall

-----------------------------------------------------------------------------

\* slob_page::alloc when a block fits.
Alloc(size, align) ==
    /\ FitsIn(pageFree, size, align) # {}
    /\ pageFree' = Carve(pageFree, size, align)
    /\ pageSum' = pageSum - size
    /\ LET o == AllocOffset(pageFree, size, align)
       IN  /\ pageLive' = pageLive \cup {Block(o, size)}
           /\ last' = [size |-> size, align |-> align, offset |-> o]

\* slob_page::alloc when none does: it returns SLOB_OFFSET_POISON.
AllocFails(size, align) ==
    /\ FitsIn(pageFree, size, align) = {}
    /\ last' = [size |-> size, align |-> align, offset |-> Poison]
    /\ UNCHANGED <<pageFree, pageSum, pageLive>>

\* A free that forgets m_sum_free_size.
FreeBlockKeepingSum(b) ==
    /\ pageSum + b.size < PageSize
    /\ pageFree' = Release(pageFree, b)
    /\ pageLive' = pageLive \ {b}
    /\ UNCHANGED <<pageSum, last>>

\* slob_page::free, for a block that is not the last one (slob::free).
FreeBlock(b) ==
    /\ pageSum + b.size < PageSize
    /\ pageFree' = Release(pageFree, b)
    /\ pageSum' = pageSum + b.size
    /\ pageLive' = pageLive \ {b}
    /\ UNCHANGED last

\* destroy_on_free_page_list for the last block, then a fresh page.
DestroyPage(b) ==
    /\ pageSum + b.size >= PageSize
    /\ pageFree' = {Block(0, PageSize)}
    /\ pageSum' = PageSize
    /\ pageLive' = pageLive \ {b}
    /\ UNCHANGED last

PageNext ==
    \/ \E size \in Sizes, align \in Aligns :
          Alloc(size, align) \/ AllocFails(size, align)
    \/ \E b \in pageLive : FreeBlock(b) \/ DestroyPage(b)

PageSpec == PageInit /\ [][PageNext]_pageVars

-----------------------------------------------------------------------------

(* The free list and the live blocks lie in the page, the sum is a byte    *)
(* count (fields of slob_page).                                            *)
PageTypeOK ==
    /\ pageFree \subseteq PageBlocks(PageSize)
    /\ pageLive \subseteq PageBlocks(PageSize)
    /\ pageSum \in 0 .. PageSize
    /\ last \in [size : Nat, align : Nat, offset : {Poison} \cup 0 .. PageSize]

(* No byte belongs to two live allocations: internal_alloc never hands out *)
(* memory a client still holds.                                            *)
NoOverlap ==
    \A b, c \in pageLive : b # c => Bytes(b) \cap Bytes(c) = {}

(* Every byte of the page is either free or live, never both: carving and  *)
(* coalescing (internal_alloc, internal_free) neither leak nor duplicate.  *)
Partition ==
    /\ BytesOf(pageFree) \cap BytesOf(pageLive) = {}
    /\ BytesOf(pageFree) \cup BytesOf(pageLive) = 0 .. PageSize - 1

(* validate_free_block_list holds whenever alloc or free is entered or     *)
(* left: the list is strictly coalesced and its sizes add up to            *)
(* m_sum_free_size.                                                        *)
ValidFreeBlockList ==
    /\ Coalesced(pageFree)
    /\ Cardinality(BytesOf(pageFree)) = pageSum

(* validate_is_last_free holds whenever destroy_on_free_page_list runs: a  *)
(* page is destroyed only for the block that is the only one live in it.   *)
DestroyOnlyLast ==
    \A b \in pageLive : pageSum + b.size >= PageSize =>
        pageLive = {b} /\ IsLastFree(pageFree, b, PageSize)

(* The free list of slob_page implements the page that has none: the       *)
(* lowest aligned hole is returned, and POISON only when there is no hole. *)
Memory == INSTANCE PageMemory WITH live <- pageLive, last <- last
ImplementsPageMemory == Memory!Spec
=============================================================================
