----------------------------- MODULE RangeFifo ------------------------------
(***************************************************************************)
(* What a ring buffer promises a client that asks for ranges of any sizes  *)
(* and returns them oldest first: a queue of ranges, each of them right    *)
(* after the one before or, if the buffer ends too soon for that, at its   *)
(* start.  It refuses only when the range is not free at that place.       *)
(*                                                                         *)
(* The promise has an end, which the code has too: a request that goes to  *)
(* the start although it overlaps the oldest range, or, with nothing in    *)
(* flight, although the end of the buffer is skipped.  From there on the   *)
(* queue promises nothing.  The abstract specification of RingBuffer.      *)
(***************************************************************************)
EXTENDS Integers, Sequences

VARIABLES
    use,        \* the buffer and how it is used; never changes
    taken,      \* the ranges in use, oldest first
    granted,    \* whether the last request was granted
    overtaken   \* the promise has ended

vars == <<use, taken, granted, overtaken>>

Init ==
    /\ taken = <<>>
    /\ granted = TRUE
    /\ overtaken = FALSE

Newest == taken[Len(taken)]
After == Newest.offset + Newest.size

\* With nothing in use, the queue may go on anywhere.
InTurn(at, n) ==
    taken # <<>> => at = (IF After + n <= use.size THEN After ELSE 0)

IsFree(at, n) ==
    /\ at + n <= use.size
    /\ \A i \in 1 .. Len(taken) :
          \/ taken[i].offset + taken[i].size <= at
          \/ at + n <= taken[i].offset

Take(n, at) ==
    /\ ~overtaken /\ InTurn(at, n) /\ IsFree(at, n)
    /\ taken' = Append(taken, [offset |-> at, size |-> n])
    /\ granted' = TRUE
    /\ UNCHANGED <<use, overtaken>>

Refuse(n) ==
    /\ ~overtaken /\ taken # <<>>
    /\ \A at \in 0 .. use.size : InTurn(at, n) => ~IsFree(at, n)
    /\ granted' = FALSE
    /\ UNCHANGED <<use, taken, overtaken>>

Return ==
    /\ ~overtaken /\ taken # <<>>
    /\ taken' = Tail(taken)
    /\ UNCHANGED <<use, granted, overtaken>>

Overtake(n) ==
    /\ ~overtaken /\ InTurn(0, n)
    /\ taken # <<>> => ~IsFree(0, n)
    /\ taken' = Append(taken, [offset |-> 0, size |-> n])
    /\ overtaken' = TRUE
    /\ granted' = TRUE
    /\ UNCHANGED use

Astray == overtaken /\ UNCHANGED <<use, overtaken>>

Next ==
    \/ \E n \in use.chunks :
          (\E at \in 0 .. use.size : Take(n, at)) \/ Refuse(n) \/ Overtake(n)
    \/ Return
    \/ Astray

Spec == Init /\ [][Next]_vars
=============================================================================
