-------------------------------- MODULE Ring --------------------------------
(***************************************************************************)
(* gfx_malloc::ring_buffer (src/src/pt_gfx_malloc.cpp): its fields as a    *)
(* record and its operations as operators.  m_buffer_begin is where the    *)
(* next allocation goes; m_buffer_end is where the free bytes end, counted *)
(* past m_buffer_size when they wrap; m_buffer_remainder is what a wrap    *)
(* skipped at the end of the buffer.  The sums stay below twice the buffer *)
(* size plus a request, so 64-bit overflow is not modelled.                *)
(***************************************************************************)
EXTENDS Integers

\* ring_buffer::init
NewRing(size) == [size |-> size, begin |-> 0, end |-> size, rem |-> 0]

\* ring_buffer::validate_offset
ValidateOffset(ring, n) == ring.end >= ring.size => n + ring.begin <= ring.size

-----------------------------------------------------------------------------
(* ring_buffer::alloc                                                      *)

\* A test that forgets that free bytes may end before the buffer does.
AllocatesInBuffer(ring, n) == n + ring.begin <= ring.size

\* The request goes at m_buffer_begin.
AllocatesAtBegin(ring, n) ==
    IF ring.end >= ring.size THEN n + ring.begin <= ring.size
                             ELSE n + ring.begin <= ring.end

\* The request does not fit before the end of the buffer and goes at 0: the
\* test compares with the begin from before the wrap.
Wraps(ring, n) ==
    /\ ring.end >= ring.size
    /\ n + ring.begin > ring.size
    /\ n + ring.begin <= ring.end

CanAlloc(ring, n) == AllocatesAtBegin(ring, n) \/ Wraps(ring, n)

OutOffset(ring, n) == IF Wraps(ring, n) THEN 0 ELSE ring.begin

\* A wrap that forgets the bytes it skips.
AfterAllocDroppingRemainder(ring, n) ==
    IF Wraps(ring, n)
    THEN [ring EXCEPT !.begin = n, !.end = @ - ring.size]
    ELSE [ring EXCEPT !.begin = @ + n]

AfterAlloc(ring, n) ==
    IF Wraps(ring, n)
    THEN [ring EXCEPT !.rem = ring.size - ring.begin, !.begin = n, !.end = @ - ring.size]
    ELSE [ring EXCEPT !.begin = @ + n]

-----------------------------------------------------------------------------
(* ring_buffer::free                                                       *)

\* A check that the range is somewhere among those in flight.
FreeAcceptsAny(ring, offset) == offset <= ring.end

\* One of the first two branches is taken; the third is assert(0).
FreeAccepts(ring, offset) == offset = ring.end \/ ring.size + offset = ring.end

\* The range joins the free bytes, and so does the remainder of the last wrap
\* when it comes next.
AfterFree(ring, offset, n) ==
    LET lap    == IF ring.size + offset = ring.end THEN 2 * ring.size ELSE ring.size
        joined == [ring EXCEPT !.end = @ + n]
    IN  IF ~FreeAccepts(ring, offset) THEN ring
        ELSE IF ring.rem # 0 /\ ring.rem + joined.end = lap
             THEN [joined EXCEPT !.end = lap, !.rem = 0]
             ELSE joined
=============================================================================
