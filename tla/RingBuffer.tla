----------------------------- MODULE RingBuffer -----------------------------
(***************************************************************************)
(* gfx_malloc::ring_buffer and a client that follows the scheme its header *)
(* names (fence-based resource management): ranges are allocated as frames *)
(* are recorded and freed in the same order as the device finishes them.   *)
(* The client asks for what sizes it likes.  Each operation runs between   *)
(* lock and unlock, so it is one step.                                     *)
(*                                                                         *)
(* With some sizes the code goes wrong.  The ghost overtaken remembers the *)
(* first request that it should have refused; what is promised up to it,   *)
(* and that nothing but such a request breaks the promise, are properties. *)
(***************************************************************************)
EXTENDS Ring, Sequences

CONSTANT
    Uses        \* [size, chunks, keep]: the size given to init, the sizes the
                \* client asks for, and how many ranges it keeps in flight

ASSUME RingBufferAssumption ==
    \A u \in Uses :
        /\ u.size \in Nat \ {0}
        /\ u.chunks \subseteq 1 .. u.size
        /\ u.keep \in Nat

VARIABLES
    use,        \* the element of Uses this behaviour is about
    ring,       \* the fields of ring_buffer
    taken,      \* ghost: the ranges the client holds, oldest first
    granted,    \* ghost: what the last call of alloc returned
    overtaken   \* ghost: alloc has granted a range over one in flight, or has
                \* skipped the end of the buffer with nothing in flight

vars == <<use, ring, taken, granted, overtaken>>

Init ==
    /\ use \in Uses
    /\ ring = NewRing(use.size)
    /\ taken = <<>>
    /\ granted = TRUE
    /\ overtaken = FALSE

\* The test of alloc counts the skipped bytes as if they were free at the front.
Overtakes(n) ==
    /\ Wraps(ring, n) /\ ring.begin < ring.size
    /\ taken # <<>> => Head(taken).offset < n

Alloc(n) ==
    /\ CanAlloc(ring, n)
    /\ ring' = AfterAlloc(ring, n)
    /\ taken' = Append(taken, [offset |-> OutOffset(ring, n), size |-> n])
    /\ granted' = TRUE
    /\ overtaken' = (overtaken \/ Overtakes(n))
    /\ UNCHANGED use

AllocFails(n) ==
    /\ ~CanAlloc(ring, n)
    /\ granted' = FALSE
    /\ UNCHANGED <<use, ring, taken, overtaken>>

\* In a build without asserts, a range that is not accepted is not returned.
Free ==
    /\ Len(taken) > use.keep
    /\ ring' = AfterFree(ring, Head(taken).offset, Head(taken).size)
    /\ taken' = Tail(taken)
    /\ UNCHANGED <<use, granted, overtaken>>

Next == (\E n \in use.chunks : Alloc(n) \/ AllocFails(n)) \/ Free

Spec == Init /\ [][Next]_vars

-----------------------------------------------------------------------------

Disjoint ==
    /\ \A i \in 1 .. Len(taken) : taken[i].offset + taken[i].size <= use.size
    /\ \A i, j \in 1 .. Len(taken) : i < j =>
          \/ taken[i].offset + taken[i].size <= taken[j].offset
          \/ taken[j].offset + taken[j].size <= taken[i].offset

Accepted == taken # <<>> => FreeAccepts(ring, Head(taken).offset)

(* The ranges in flight lie in the buffer and never overlap, until alloc   *)
(* is asked for one that overtakes: it does not hand out bytes that the    *)
(* device still reads, wrapped or not, whatever the sizes were before.     *)
NoOverlap == ~overtaken => Disjoint

(* Until then free never reaches its assert(0): the oldest range is always *)
(* the one that m_buffer_end says comes next, so no byte is lost.          *)
OldestIsAccepted == ~overtaken => Accepted

(* Such a request always does harm at once: its range overlaps the oldest, *)
(* or is itself the oldest and free will assert on it.  alloc (84-101)     *)
(* should have refused every one of them, and no other request.            *)
OvertakingBreaks == [][overtaken' # overtaken => ~Disjoint' \/ ~Accepted']_vars

(* A client that asks for one size is never granted such a request, if the *)
(* size divides the buffer or it always keeps a range in flight.           *)
OneSize ==
    \E c \in use.chunks : use.chunks = {c} /\ (use.keep > 0 \/ use.size % c = 0)
OneSizeIsSafe == OneSize => ~overtaken

(* Until then the ring implements a queue of ranges: alloc fails only when *)
(* the next place is not free, so bytes skipped by a wrap are recovered.   *)
Fifo == INSTANCE RangeFifo
ImplementsRangeFifo == Fifo!Spec
=============================================================================
