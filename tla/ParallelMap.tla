----------------------------- MODULE ParallelMap ----------------------------
(***************************************************************************)
(* What PT_McRT_Parallel_Map promises the master thread that calls it: the *)
(* function is applied to every element exactly once between the call and  *)
(* its return, in any order, and the call returns.                         *)
(*                                                                         *)
(* Says nothing of tasks, deques or workers; TaskScheduler implements it.  *)
(***************************************************************************)
CONSTANT Elements

VARIABLES
    mapping,    \* whether a master is between its arrival and the return
    applied     \* the elements the present or last map has been applied to

vars == <<mapping, applied>>

Init == mapping = FALSE /\ applied = Elements

Start == ~mapping /\ mapping' = TRUE /\ applied' = {}

Apply(e) ==
    /\ mapping /\ e \notin applied
    /\ applied' = applied \cup {e}
    /\ UNCHANGED mapping

Return ==
    /\ mapping /\ applied = Elements
    /\ mapping' = FALSE
    /\ UNCHANGED applied

Progress == (\E e \in Elements : Apply(e)) \/ Return

Next == Start \/ Progress

Spec == Init /\ [][Next]_vars /\ WF_vars(Progress)
=============================================================================
