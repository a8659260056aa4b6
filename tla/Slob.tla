-------------------------------- MODULE Slob --------------------------------
(***************************************************************************)
(* gfx_malloc::slob (src/src/pt_gfx_malloc.cpp): pages of device memory on *)
(* small, medium, large and full page lists, and the callers that allocate *)
(* from them and free to them.                                             *)
(*                                                                         *)
(* alloc and free run with lock() held, except for the two callbacks into  *)
(* the device (slob_new_pages_callback, slob_free_pages_callback), which   *)
(* run outside it: a locked section is one step, and other callers'        *)
(* sections may come between it and the callback.  lock() only asserts     *)
(* that the callers take turns; see the README.                            *)
(*                                                                         *)
(* The model is of the release build: an assert of the debug build is an   *)
(* invariant here, not a guard.                                            *)
(***************************************************************************)
EXTENDS SlobBlocks, SequencesExt

CONSTANTS
    Callers,    \* threads that call alloc and free
    Handles,    \* page_memory_handle values (VkDeviceMemory)
    MaxLive     \* bound on the live allocations of the model

ASSUME SlobAssumption == MaxLive \in Nat

VARIABLES
    lists,      \* the four page lists, each front first
    home,       \* m_page_list of each page, None before and after its life
    freeBlocks, \* m_free_block_list of each page
    sumFree,    \* m_sum_free_size of each page
    live,       \* ghost: the allocations clients hold in each page
    device,     \* external: device memory allocated and not yet freed
    call        \* where each caller is, with its arguments

vars == <<lists, home, freeBlocks, sumFree, live, device, call>>

FreeLists == {"small", "medium", "large"}
ListNames == FreeLists \cup {"full"}
None == "none"

\* The initial page list values of the constructor: four empty lists.
EmptyLists == [l \in ListNames |-> <<>>]

\* slob::init: m_slob_break1 and m_slob_break2.
Break1 == PageSize \div 16
Break2 == PageSize \div 4

\* get_free_page_list
ClassOf(size) ==
    IF size < Break1 THEN "small" ELSE IF size < Break2 THEN "medium" ELSE "large"

\* m_is_on_free_page_list is written wherever m_page_list is, and says this.
IsOnFreePageList(h) == home[h] \in FreeLists

Idle == [at |-> "idle"]

Pages == {h \in Handles : home[h] # None}

NumLive == Cardinality(UNION {{h} \X live[h] : h \in Handles})

Init ==
    /\ lists = EmptyLists
    /\ home = [h \in Handles |-> None]
    /\ freeBlocks = [h \in Handles |-> {}]
    /\ sumFree = [h \in Handles |-> 0]
    /\ live = [h \in Handles |-> {}]
    /\ device = {}
    /\ call = [t \in Callers |-> Idle]

-----------------------------------------------------------------------------
(* The page lists                                                          *)

\* std::list::erase of h's node: unlinked from the list it is really on.
Unlink(ls, h) == [l \in ListNames |-> RemoveFirst(ls[l], h)]

\* A splice that links the node without unlinking it.
SpliceCopying(ls, to, h) == [ls EXCEPT ![to] = Cons(h, @)]

\* std::list::splice of h's node to the front of a list, from wherever it is.
Splice(ls, to, h) == [Unlink(ls, h) EXCEPT ![to] = Cons(h, @)]

\* The lists after alloc is served from h of class c: clear_on_free_page_list
\* when h is full; then, because begin() is not h's node, h is cycled to the
\* front of the class list, even when it has just been moved to the full list.
ListsAfterServe(ls, c, h, isFull) ==
    LET cleared == IF isFull THEN Splice(ls, "full", h) ELSE ls
    IN  IF cleared[c] # <<>> /\ Head(cleared[c]) = h THEN cleared
        ELSE Splice(cleared, c, h)

-----------------------------------------------------------------------------
(* slob::alloc                                                             *)

\* The pages of class c that the loop would take: enough bytes, and a block.
Serves(h, size, align) ==
    sumFree[h] >= size /\ FitsIn(freeBlocks[h], size, align) # {}

CanServe(size, align) ==
    {i \in DOMAIN lists[ClassOf(size)] : Serves(lists[ClassOf(size)][i], size, align)}

\* slob_page::alloc on page h, whose free blocks are B: it returns the block.
PageAlloc(h, B, sum, size, align) ==
    /\ freeBlocks' = [freeBlocks EXCEPT ![h] = Carve(B, size, align)]
    /\ sumFree' = [sumFree EXCEPT ![h] = sum - size]
    /\ live' = [live EXCEPT ![h] = @ \cup {Block(AllocOffset(B, size, align), size)}]

\* First locked section, when a page of the class has room: the first such page.
Serve(t, size, align) ==
    LET c == ClassOf(size) IN
    /\ call[t] = Idle
    /\ NumLive < MaxLive
    /\ \E i \in CanServe(size, align) :
          /\ \A j \in CanServe(size, align) : i <= j
          /\ LET h == lists[c][i]
                 isFull == sumFree[h] = size
             IN  /\ PageAlloc(h, freeBlocks[h], sumFree[h], size, align)
                 /\ home' = IF isFull THEN [home EXCEPT ![h] = "full"] ELSE home
                 /\ lists' = ListsAfterServe(lists, c, h, isFull)
    /\ UNCHANGED <<device, call>>

\* First locked section, when no page of the class has room.
Miss(t, size, align) ==
    /\ call[t] = Idle
    /\ NumLive < MaxLive
    /\ CanServe(size, align) = {}
    /\ call' = [call EXCEPT ![t] = [at |-> "new_pages", size |-> size, align |-> align]]
    /\ UNCHANGED <<lists, home, freeBlocks, sumFree, live, device>>

\* slob_new_pages_callback, outside the lock: device memory, or POISON.
NewPages(t) ==
    /\ call[t].at = "new_pages"
    /\ \/ \E h \in Handles \ device :
             /\ device' = device \cup {h}
             /\ call' = [call EXCEPT ![t] =
                    [at |-> "link", size |-> @.size, align |-> @.align, page |-> h]]
       \/ /\ call' = [call EXCEPT ![t] = Idle]
          /\ UNCHANGED device
    /\ UNCHANGED <<lists, home, freeBlocks, sumFree, live>>

\* Second locked section: init_on_free_page_list, then alloc on the new page.
LinkPage(t) ==
    /\ call[t].at = "link"
    /\ LET h == call[t].page
           size == call[t].size
           c == ClassOf(size)
       IN  /\ PageAlloc(h, {Block(0, PageSize)}, PageSize, size, call[t].align)
           /\ home' = [home EXCEPT ![h] = c]
           /\ lists' = [lists EXCEPT ![c] = Cons(h, @)]
    /\ call' = [call EXCEPT ![t] = Idle]
    /\ UNCHANGED device

-----------------------------------------------------------------------------
(* slob::free                                                              *)

\* A test that destroys a page one byte too early.
IsLastInTooEarly(h, b) == sumFree[h] + b.size >= PageSize - 1

\* The page would be wholly free: m_sum_free_size + size < m_page_size fails.
IsLastIn(h, b) == sumFree[h] + b.size >= PageSize

\* A free that leaves a full page on the full list.
FreeOnFullList(t, h, b) ==
    /\ call[t] = Idle
    /\ b \in live[h] /\ ~IsLastIn(h, b)
    /\ freeBlocks' = [freeBlocks EXCEPT ![h] = Release(@, b)]
    /\ sumFree' = [sumFree EXCEPT ![h] = @ + b.size]
    /\ live' = [live EXCEPT ![h] = @ \ {b}]
    /\ UNCHANGED <<lists, home, device, call>>

\* Locked section, when other allocations live in the page.  A full page goes
\* to the class of the size freed.
Free(t, h, b) ==
    /\ call[t] = Idle
    /\ b \in live[h] /\ ~IsLastIn(h, b)
    /\ freeBlocks' = [freeBlocks EXCEPT ![h] = Release(@, b)]
    /\ sumFree' = [sumFree EXCEPT ![h] = @ + b.size]
    /\ live' = [live EXCEPT ![h] = @ \ {b}]
    /\ IF IsOnFreePageList(h)
       THEN UNCHANGED <<home, lists>>
       ELSE /\ home' = [home EXCEPT ![h] = ClassOf(b.size)]
            /\ lists' = Splice(lists, ClassOf(b.size), h)
    /\ UNCHANGED <<device, call>>

\* Locked section, for the last allocation: destroy_on_free_page_list.
Destroy(t, h, b) ==
    /\ call[t] = Idle
    /\ b \in live[h] /\ IsLastIn(h, b)
    /\ lists' = Unlink(lists, h)
    /\ home' = [home EXCEPT ![h] = None]
    /\ freeBlocks' = [freeBlocks EXCEPT ![h] = {}]
    /\ sumFree' = [sumFree EXCEPT ![h] = 0]
    /\ live' = [live EXCEPT ![h] = @ \ {b}]
    /\ call' = [call EXCEPT ![t] = [at |-> "free_pages", page |-> h]]
    /\ UNCHANGED device

\* slob_free_pages_callback, outside the lock.
FreePages(t) ==
    /\ call[t].at = "free_pages"
    /\ device' = device \ {call[t].page}
    /\ call' = [call EXCEPT ![t] = Idle]
    /\ UNCHANGED <<lists, home, freeBlocks, sumFree, live>>

-----------------------------------------------------------------------------

Next ==
    \E t \in Callers :
        \/ \E size \in Sizes, align \in Aligns :
              Serve(t, size, align) \/ Miss(t, size, align)
        \/ NewPages(t)
        \/ LinkPage(t)
        \/ \E h \in Handles : \E b \in live[h] : Free(t, h, b) \/ Destroy(t, h, b)
        \/ FreePages(t)

Spec == Init /\ [][Next]_vars

-----------------------------------------------------------------------------

Calls ==
    {Idle}
    \cup [at : {"new_pages"}, size : Sizes, align : Aligns]
    \cup [at : {"link"}, size : Sizes, align : Aligns, page : Handles]
    \cup [at : {"free_pages"}, page : Handles]

(* The fields of slob and slob_page hold values of their types.            *)
TypeOK ==
    /\ lists \in [ListNames -> Seq(Handles)]
    /\ home \in [Handles -> ListNames \cup {None}]
    /\ freeBlocks \in [Handles -> SUBSET PageBlocks(PageSize)]
    /\ live \in [Handles -> SUBSET PageBlocks(PageSize)]
    /\ sumFree \in [Handles -> 0 .. PageSize]
    /\ device \subseteq Handles
    /\ call \in [Callers -> Calls]

\* The places of the four lists where h is linked.
Links(h) == UNION {{l} \X {i \in DOMAIN lists[l] : lists[l][i] = h} : l \in ListNames}

(* Every page is linked on exactly one of the lists, once, and nothing     *)
(* else is linked: splice and erase keep the intrusive iterators of        *)
(* slob_page sound although the page moves between lists.                  *)
EachPageLinkedOnce ==
    /\ TypeOK
    /\ \A h \in Handles : Cardinality(Links(h)) = IF home[h] = None THEN 0 ELSE 1

(* The bytes of every page are split between its free list and its live    *)
(* allocations, which are disjoint, and m_sum_free_size counts the former. *)
PagesPartitioned ==
    \A h \in Pages :
        /\ BytesOf(freeBlocks[h]) \cap BytesOf(live[h]) = {}
        /\ BytesOf(freeBlocks[h]) \cup BytesOf(live[h]) = 0 .. PageSize - 1
        /\ \A b, c \in live[h] : b # c => Bytes(b) \cap Bytes(c) = {}
        /\ sumFree[h] = Cardinality(BytesOf(freeBlocks[h]))

(* is_on_free_page_list's asserts: the flag says whether the page has any  *)
(* free block.                                                             *)
FlagMatchesBlocks ==
    \A h \in Pages : IsOnFreePageList(h) <=> freeBlocks[h] # {}

HeldBy(t) == IF call[t].at \in {"link", "free_pages"} THEN {call[t].page} ELSE {}

(* Device memory is accounted for: every handle the device gave is a page  *)
(* with something alive in it, or in the hands of exactly one call that    *)
(* links it or gives it back.  So when no allocation lives and no call is  *)
(* under way, slob holds no device memory.                                 *)
DeviceMemoryAccounted ==
    /\ device = Pages \cup UNION {HeldBy(t) : t \in Callers}
    /\ \A t \in Callers : HeldBy(t) \cap Pages = {}
    /\ \A t, u \in Callers : t # u => HeldBy(t) \cap HeldBy(u) = {}
    /\ \A h \in Handles : live[h] # {} <=> h \in Pages

(* slob implements the heap that has no lists: its allocations are         *)
(* aligned, disjoint and inside device memory that stays until they die.   *)
Heap == INSTANCE DeviceHeap
    WITH device <- Pages \cup UNION {HeldBy(t) : t \in Callers}, live <- live
ImplementsDeviceHeap == Heap!Spec
=============================================================================
