----------------------------- MODULE SlobBlocks -----------------------------
(***************************************************************************)
(* The free-block list of one slob page (gfx_malloc::slob_page in          *)
(* src/src/pt_gfx_malloc.cpp): the value-level part of internal_alloc and  *)
(* internal_free.  m_free_block_list is a std::set ordered by              *)
(* slob_block_list_comp, so it is modelled by a set of [offset, size]      *)
(* records; its order is the order of the offsets.                         *)
(***************************************************************************)
EXTENDS Integers, FiniteSets

CONSTANTS
    PageSize,   \* m_page_size
    Sizes,      \* sizes that are asked for: alloc returns NULL for >= m_page_size
    Aligns      \* VkMemoryRequirements::alignment of the requests

ASSUME SlobBlocksAssumption ==
    /\ PageSize \in Nat \ {0}
    /\ Sizes \subseteq 1 .. PageSize - 1
    /\ Aligns \subseteq Nat \ {0}

\* gfx_malloc::slob_block; an allocation handed to a client has the same shape.
Block(offset, size) == [offset |-> offset, size |-> size]

\* One past the last byte of b: m_offset + m_size.
End(b) == b.offset + b.size

\* The blocks of a page of n bytes.
PageBlocks(n) == {b \in [offset : 0 .. n, size : 0 .. n] : End(b) <= n}

\* SLOB_OFFSET_POISON: no uint64 offset of a page equals ~0ULL.
Poison == -1

\* The bytes b covers, and those a set of blocks covers.
Bytes(b) == b.offset .. End(b) - 1
BytesOf(B) == UNION {Bytes(b) : b \in B}

-----------------------------------------------------------------------------
(* internal_alloc: first fit                                               *)

\* mcrt_intrin_round_up(b.offset, align) - b.offset: what is skipped at the
\* front of b to reach an aligned offset.
Delta(b, align) == (-b.offset) % align

\* A fit that forgets the bytes skipped for alignment.
FitsIgnoringAlign(b, size, align) == b.size >= size

Fits(b, size, align) == b.size >= size + Delta(b, align)

FitsIn(B, size, align) == {b \in B : Fits(b, size, align)}

\* The first block in offset order that fits: the loop returns at it.
FirstFit(B, size, align) ==
    CHOOSE b \in FitsIn(B, size, align) :
        \A c \in FitsIn(B, size, align) : b.offset <= c.offset

\* The offset internal_alloc returns.
AllocOffset(B, size, align) ==
    IF FitsIn(B, size, align) = {} THEN Poison
    ELSE LET b == FirstFit(B, size, align) IN b.offset + Delta(b, align)

\* A carve that loses the bytes skipped for alignment.
CarveDroppingHead(B, size, align) ==
    LET b == FirstFit(B, size, align)
        o == b.offset + Delta(b, align)
    IN  (B \ {b}) \cup {r \in {Block(o + size, End(b) - o - size)} : r.size > 0}

\* What internal_alloc leaves of the list: the block that fits is replaced by
\* the bytes before and the bytes after the allocation, when there are any.
\* (Its merges with a neighbour that touches the block are dead code on a
\* coalesced list: see Coalesced.)
Carve(B, size, align) ==
    LET b == FirstFit(B, size, align)
        o == b.offset + Delta(b, align)
    IN  (B \ {b}) \cup
        {r \in {Block(b.offset, o - b.offset), Block(o + size, End(b) - o - size)} :
            r.size > 0}

-----------------------------------------------------------------------------
(* internal_free: insert and coalesce                                      *)

\* contiguous_with_prev and contiguous_with_next: the free block, if any, that
\* a returned block r touches on either side.
Pred(B, r) == {b \in B : End(b) = r.offset}
Succ(B, r) == {b \in B : b.offset = End(r)}

\* A release that merges with the previous block and never with the next.
MergePrevOnly(B, r) ==
    LET P  == Pred(B, r)
        lo == IF P = {} THEN r.offset ELSE (CHOOSE b \in P : TRUE).offset
    IN  (B \ P) \cup {Block(lo, End(r) - lo)}

\* The list after r is returned: r and the free blocks it touches become one
\* block (emplace_hint, merge_next, merge_prev, erase).
Release(B, r) ==
    LET P  == Pred(B, r)
        N  == Succ(B, r)
        lo == IF P = {} THEN r.offset ELSE (CHOOSE b \in P : TRUE).offset
        hi == IF N = {} THEN End(r) ELSE End(CHOOSE b \in N : TRUE)
    IN  (B \ (P \cup N)) \cup {Block(lo, hi - lo)}

-----------------------------------------------------------------------------
(* The debug validators                                                    *)

\* validate_free_block_list, first part: two neighbours neither overlap nor
\* touch ("We should merge when cur_offset + cur_size equals next_offset").
Coalesced(B) ==
    /\ \A b \in B : b.size > 0
    /\ \A b, c \in B : b # c => End(b) < c.offset \/ End(c) < b.offset

\* validate_is_last_free: the free blocks and r together are the whole page,
\* in one of the shapes [free][r][free], [free][r], [r][free].
IsLastFree(B, r, pageSize) ==
    \/ B = {Block(0, r.offset), Block(End(r), pageSize - End(r))}
    \/ B = {Block(0, r.offset)} /\ End(r) = pageSize
    \/ B = {Block(End(r), pageSize - End(r))} /\ r.offset = 0
=============================================================================
