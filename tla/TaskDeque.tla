------------------------------ MODULE TaskDeque -----------------------------
(***************************************************************************)
(* The task deque of one arena slot (PTSArenaSlot in                       *)
(* src/src/obsolete-private/McRT/PTSTaskSchedulerImpl.cpp): the owner of   *)
(* the slot pushes and pops at m_Tail, thieves take at m_Head.  Both       *)
(* indices live in one 64-bit word, count without end and are taken modulo *)
(* m_TaskDequeCapacity, which doubles when the deque is crowded.           *)
(*                                                                         *)
(* Pure operators; TaskScheduler says which of them are one atomic step.   *)
(***************************************************************************)
EXTENDS Integers

CONSTANTS
    FirstCapacity,  \* capacity after the first push: 64 in the code
    LastCapacity    \* the code asserts that it never grows beyond: 1024

ASSUME CapacityAssumption ==
    /\ FirstCapacity \in Nat \ {0}
    /\ LastCapacity \in Nat

\* What is read from an entry that was never written.
Garbage == -1

EmptyDeque == [head |-> 0, tail |-> 0, capacity |-> 0, entry |-> [k \in {} |-> Garbage]]

IsEmptyOffByOne(d) == d.head + 1 >= d.tail
IsEmpty(d) == d.head >= d.tail

IsCrowded(d) == d.tail - d.head + 1 >= d.capacity

\* The copy loop stores INTO the old half FROM the new one: a task whose index
\* moves to the new half is overwritten with what fresh memory holds.
Clobbered(d) ==
    {i % d.capacity : i \in {j \in d.head .. d.tail - 1 : j % (2 * d.capacity) >= d.capacity}}

Grow(d) ==
    LET new == IF d.capacity = 0 THEN FirstCapacity ELSE 2 * d.capacity
    IN  [d EXCEPT
            !.capacity = new,
            !.entry = [k \in 0 .. new - 1 |->
                IF k < d.capacity /\ k \notin Clobbered(d) THEN d.entry[k] ELSE Garbage]]

MayGrow(d) == IsCrowded(d) => d.capacity < LastCapacity

\* First half of TaskDeque_Push: look at both indices, make room.
MakeRoom(d) == IF IsCrowded(d) THEN Grow(d) ELSE d

\* Second half: store the task, then the tail; no thief sees it in between.
PushTail(d, t) ==
    [d EXCEPT !.entry[d.tail % d.capacity] = t, !.tail = d.tail + 1]

\* TaskDeque_Pop_Private on a deque that is not empty, and the reset on one
\* that is.
LastTask(d) == d.entry[(d.tail - 1) % d.capacity]
PopTail(d) == [d EXCEPT !.tail = d.tail - 1]
Reset(d) == [d EXCEPT !.head = 0, !.tail = 0]

\* TaskDeque_Pop_Public: what a thief remembers of a deque before its
\* compare-and-set, whether that succeeds, and what it does.
Glance(v, d) ==
    [victim |-> v, head |-> d.head, tail |-> d.tail, index |-> d.head % d.capacity]
UnchangedHeadOnly(d, g) == d.head = g.head
Unchanged(d, g) == d.head = g.head /\ d.tail = g.tail
PopHead(d, g) == [d EXCEPT !.head = g.head + 1]
=============================================================================
