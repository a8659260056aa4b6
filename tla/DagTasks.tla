------------------------------- MODULE DagTasks -------------------------------
(***************************************************************************)
(* The acyclic graph of tasks of                                           *)
(* src/examples/mcrt/general_acyclic_graphs_of_tasks/main.cpp: an M x N    *)
(* grid in which a task runs when the tasks above it and to its left have, *)
(* and gives both its successors the sum of the values it got.  The tasks  *)
(* that are ready run on the workers of the mcrt scheduler (a wrapper of   *)
(* TBB, external): a pool of spawned tasks, and the task that execute      *)
(* returns, which its own worker runs next.                                *)
(***************************************************************************)
EXTENDS Integers, FiniteSets

CONSTANTS
    M, N,       \* rows and columns of the grid
    Workers     \* threads of the scheduler, main among them

ASSUME DagTasksAssumption == M \in Nat \ {0} /\ N \in Nat \ {0} /\ M + N > 2

VARIABLES
    refCount,   \* mcrt_task_ref_count of each task
    top, left,  \* m_value_top and m_value_left of each task
    pool,       \* tasks spawned and not yet taken by a worker
    task,       \* the task each worker executes, None between two
    at,         \* where in execute the worker is
    bypass,     \* its bypass_slot
    root,       \* real_root: its reference count and values
    handed      \* ghost: how often each task was spawned or bypassed

vars == <<refCount, top, left, pool, task, at, bypass, root, handed>>

Tasks == (0 .. M - 1) \X (0 .. N - 1)
None == <<-1, -1>>
Uninit == -1

First == <<0, 0>>
EndPoint == <<M - 1, N - 1>>

Bottom(x) == <<x[1] + 1, x[2]>>     \* m_successor_bottom, NULL outside the grid
Right(x) == <<x[1], x[2] + 1>>      \* m_successor_right

Predecessors(x) == {y \in Tasks : Bottom(y) = x \/ Right(y) = x}

\* main: every task allocated with its count of predecessors, the first spawned.
Init ==
    /\ refCount = [x \in Tasks |-> Cardinality(Predecessors(x))]
    /\ top = [x \in Tasks |-> Uninit]
    /\ left = [x \in Tasks |-> Uninit]
    /\ pool = {First}
    /\ task = [w \in Workers |-> None]
    /\ at = [w \in Workers |-> "idle"]
    /\ bypass = [w \in Workers |-> None]
    /\ root = [count |-> 2, top |-> Uninit, left |-> Uninit]
    /\ handed = [x \in Tasks |-> IF x = First THEN 1 ELSE 0]

-----------------------------------------------------------------------------
(* execute                                                                 *)

Take(w) ==
    /\ at[w] = "idle"
    /\ \E x \in pool :
          /\ pool' = pool \ {x}
          /\ task' = [task EXCEPT ![w] = x]
    /\ at' = [at EXCEPT ![w] = "execute"]
    /\ UNCHANGED <<refCount, top, left, bypass, root, handed>>

\* The edges of the grid have no predecessor to set these.
TopOf(x) == IF x = First THEN 1 ELSE IF x[1] = 0 THEN 0 ELSE top[x]
LeftOf(x) == IF x[2] = 0 THEN 0 ELSE left[x]

\* A task that is not the end point writes to its successors.
Execute(w) ==
    LET x == task[w]
        v == TopOf(x) + LeftOf(x)
    IN  /\ at[w] = "execute" /\ x # EndPoint
        /\ top' = [y \in Tasks |-> IF y = Bottom(x) THEN v
                                   ELSE IF y = x THEN TopOf(x) ELSE top[y]]
        /\ left' = [y \in Tasks |-> IF y = Right(x) THEN v
                                    ELSE IF y = x THEN LeftOf(x) ELSE left[y]]
        /\ at' = [at EXCEPT ![w] = "tally_bottom"]
        /\ UNCHANGED <<refCount, pool, task, bypass, root, handed>>

\* The end point copies its values to real_root.
ExecuteEnd(w) ==
    LET x == task[w] IN
    /\ at[w] = "execute" /\ x = EndPoint
    /\ root' = [root EXCEPT !.top = top[x], !.left = left[x]]
    /\ at' = [at EXCEPT ![w] = "return"]
    /\ UNCHANGED <<refCount, top, left, pool, task, bypass, handed>>

-----------------------------------------------------------------------------
(* tally_completion_of_predecessor, for the bottom and then the right      *)
(* successor                                                               *)

Successor(w) == IF at[w] \in {"tally_bottom", "last_bottom", "one_of_bottom"}
                THEN Bottom(task[w]) ELSE Right(task[w])

AfterTally(w) == IF at[w] \in {"tally_bottom", "last_bottom", "one_of_bottom"}
                 THEN "tally_right" ELSE "return"

\* The successor is NULL.
TallyNone(w) ==
    /\ at[w] \in {"tally_bottom", "tally_right"}
    /\ Successor(w) \notin Tasks
    /\ at' = [at EXCEPT ![w] = AfterTally(w)]
    /\ UNCHANGED <<refCount, top, left, pool, task, bypass, root, handed>>

\* A plain read of the count decides between a plain write and a decrement.
TallyRead(w) ==
    /\ at[w] \in {"tally_bottom", "tally_right"}
    /\ Successor(w) \in Tasks
    /\ at' = [at EXCEPT ![w] =
          IF at[w] = "tally_bottom"
          THEN IF refCount[Successor(w)] = 1 THEN "last_bottom" ELSE "one_of_bottom"
          ELSE IF refCount[Successor(w)] = 1 THEN "last_right" ELSE "one_of_right"]
    /\ UNCHANGED <<refCount, top, left, pool, task, bypass, root, handed>>

\* A tally that keeps only the bypass slot.
HandOffLosing(w, s) ==
    /\ handed' = [handed EXCEPT ![s] = @ + 1]
    /\ bypass' = [bypass EXCEPT ![w] = s]
    /\ UNCHANGED pool

\* The successor is ready: it goes into the bypass slot, or else is spawned.
HandOff(w, s) ==
    /\ handed' = [handed EXCEPT ![s] = @ + 1]
    /\ IF bypass[w] = None
       THEN bypass' = [bypass EXCEPT ![w] = s] /\ UNCHANGED pool
       ELSE pool' = pool \cup {s} /\ UNCHANGED bypass

\* It read 1: set_ref_count(s, 0).
TallyLast(w) ==
    /\ at[w] \in {"last_bottom", "last_right"}
    /\ refCount' = [refCount EXCEPT ![Successor(w)] = 0]
    /\ HandOff(w, Successor(w))
    /\ at' = [at EXCEPT ![w] = AfterTally(w)]
    /\ UNCHANGED <<top, left, task, root>>

\* A decrement that hands the successor over whatever is left.
TallyEager(w) ==
    /\ at[w] \in {"one_of_bottom", "one_of_right"}
    /\ refCount' = [refCount EXCEPT ![Successor(w)] = @ - 1]
    /\ HandOff(w, Successor(w))
    /\ at' = [at EXCEPT ![w] = AfterTally(w)]
    /\ UNCHANGED <<top, left, task, root>>

\* It read more: the decrement is atomic, and its result says who is last.
TallyDecrement(w) ==
    /\ at[w] \in {"one_of_bottom", "one_of_right"}
    /\ refCount' = [refCount EXCEPT ![Successor(w)] = @ - 1]
    /\ IF refCount[Successor(w)] - 1 > 0
       THEN UNCHANGED <<handed, bypass, pool>>
       ELSE HandOff(w, Successor(w))
    /\ at' = [at EXCEPT ![w] = AfterTally(w)]
    /\ UNCHANGED <<top, left, task, root>>

-----------------------------------------------------------------------------
(* The scheduler                                                           *)

\* execute returns: the bypassed task is next; a task with a parent counts
\* down its parent's references.
ReturnTask(w) ==
    /\ at[w] = "return"
    /\ task' = [task EXCEPT ![w] = bypass[w]]
    /\ at' = [at EXCEPT ![w] = IF bypass[w] = None THEN "idle" ELSE "execute"]
    /\ bypass' = [bypass EXCEPT ![w] = None]
    /\ root' = [root EXCEPT !.count = IF task[w] = EndPoint THEN @ - 1 ELSE @]
    /\ UNCHANGED <<refCount, top, left, pool, handed>>

\* spawn_and_wait_for_all returns in main: the count is 1, and becomes 0.
WaitReturns ==
    /\ root.count = 1
    /\ root' = [root EXCEPT !.count = 0]
    /\ UNCHANGED <<refCount, top, left, pool, task, at, bypass, handed>>

Run(w) ==
    \/ Take(w) \/ Execute(w) \/ ExecuteEnd(w)
    \/ TallyNone(w) \/ TallyRead(w) \/ TallyLast(w) \/ TallyDecrement(w)
    \/ ReturnTask(w)

Next == WaitReturns \/ \E w \in Workers : Run(w)

\* TBB keeps the workers running while there are tasks.
Spec == Init /\ [][Next]_vars /\ WF_vars(WaitReturns) /\ \A w \in Workers : WF_vars(Run(w))

-----------------------------------------------------------------------------

\* The numbers of the comment at the head of the file: the paths from First.
Up(x) == <<x[1] - 1, x[2]>>
Back(x) == <<x[1], x[2] - 1>>

Paths[x \in Tasks] ==
    IF x[1] = 0 \/ x[2] = 0 THEN 1 ELSE Paths[Up(x)] + Paths[Back(x)]

Places == {"idle", "execute", "tally_bottom", "last_bottom", "one_of_bottom",
           "tally_right", "last_right", "one_of_right", "return"}

(* Counts are those of a grid, workers execute tasks of it.                *)
TypeOK ==
    /\ refCount \in [Tasks -> 0 .. 2]
    /\ top \in [Tasks -> Int] /\ left \in [Tasks -> Int]
    /\ pool \subseteq Tasks
    /\ task \in [Workers -> Tasks \cup {None}]
    /\ at \in [Workers -> Places]
    /\ bypass \in [Workers -> Tasks \cup {None}]
    /\ root \in [count : 0 .. 2, top : Int, left : Int]
    /\ handed \in [Tasks -> Nat]
    /\ \A w \in Workers : at[w] = "idle" <=> task[w] = None

(* A task is handed to the scheduler once, whichever way its predecessors' *)
(* unsynchronized reads and atomic decrements interleave, so no two        *)
(* workers execute it.                                                     *)
HandedOnce ==
    /\ TypeOK
    /\ \A x \in Tasks : handed[x] <= 1
    /\ \A w, v \in Workers : w # v /\ task[w] # None => task[w] # task[v]

(* tally's assert, and main's test: when the wait returns, no task is      *)
(* left to run, every count is 0 and real_root holds the last two sums,    *)
(* although other workers may still be at the end of their execute.        *)
ResultComplete ==
    root.count = 0 =>
        /\ pool = {} /\ \A w \in Workers : bypass[w] = None /\ at[w] # "execute"
        /\ \A x \in Tasks : refCount[x] = 0 /\ handed[x] = 1
        /\ M > 1 => root.top = Paths[Up(EndPoint)]
        /\ N > 1 => root.left = Paths[Back(EndPoint)]

(* execute's asserts on its values: when a task begins, the tasks before   *)
(* it have written both of them, and nothing has written twice; and what   *)
(* main reads in the end is complete.                                      *)
InputsReady ==
    /\ \A w \in Workers : at[w] = "execute" =>
          LET x == task[w] IN
          /\ top[x] = IF x[1] = 0 THEN Uninit ELSE Paths[Up(x)]
          /\ left[x] = IF x[2] = 0 THEN Uninit ELSE Paths[Back(x)]
    /\ ResultComplete

(* The wait for real_root returns.                                         *)
WaitEnds == <>(root.count = 0)
=============================================================================
