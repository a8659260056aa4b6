---------------------------- MODULE TaskScheduler ---------------------------
(***************************************************************************)
(* The work-stealing task scheduler of                                     *)
(* src/src/obsolete-private/McRT/PTSTaskSchedulerImpl.cpp running the      *)
(* parallel map of src/src/obsolete-public/McRT/PT_McRT_Parallel_Map.h.    *)
(*                                                                         *)
(* Master threads come one after the other.  Each takes slot 0 of the      *)
(* arena, wakes the workers through the semaphore of the market, maps a    *)
(* function over Length elements, puts the workers back to sleep and        *)
(* releases its slot.  A woken worker takes another slot and steals until  *)
(* it has failed too often.  The map is a tree of tasks: a task of more    *)
(* than one element splits, keeps the left half, spawns the right one and  *)
(* leaves behind a continuation that runs when both halves are done.       *)
(*                                                                         *)
(* A step is one access to state that threads share, with the local work   *)
(* around it: each compare-and-set, each semaphore call, the read of a     *)
(* stolen entry.  The owner's read and compare-and-set of its own deque    *)
(* are one step: only a thief can come between, and then the code retries. *)
(***************************************************************************)
EXTENDS TaskDeque, FiniteSets, Functions

CONSTANTS
    Master,     \* the master thread: its successors are new threads
    Workers,    \* the threads of the market
    Capacity,   \* slots of the arena
    Length,     \* elements of each map
    Rounds      \* masters that come and go

ASSUME SchedulerAssumption ==
    /\ Master \notin Workers
    /\ Capacity \in Nat \ {0, 1}
    /\ Length \in Nat \ {0}
    /\ Rounds \in Nat

Threads == {Master} \cup Workers
Slots == 0 .. Capacity - 1
WorkerSlots == Slots \ {0}

\* Every map makes a wait, Length maps and Length - 1 continuations.
TaskIds == 1 .. 2 * Length
None == 0
NoSlot == -1
NoTask == [kind |-> "freed"]

VARIABLES
    round,      \* masters that have come so far
    semaphore,  \* m_Semaphore of the market
    acquired,   \* m_HasBeenAcquired of each slot
    mask,       \* m_SlotIndexAffinityMask
    deque,      \* the deque of each slot
    task,       \* the tasks, by address
    finished,   \* HasBeenFinished of the master's map
    calls,      \* how often the function was called for each element
    pc,         \* where each thread is
    slot,       \* m_Slot_Index of a thread, or NoSlot; always 0 for the master
    current,    \* pTaskExecuting
    glance,     \* what a thief remembers of its victim's deque
    tokens      \* loop counter of Worker_Wake and Worker_Sleep

vars == <<round, semaphore, acquired, mask, deque, task, finished, calls,
          pc, slot, current, glance, tokens>>

market == <<round, semaphore, tokens>>
arena == <<acquired, mask, slot>>
work == <<deque, task, finished, calls, current, glance>>

NoGlance == [victim |-> 0, head |-> 0, tail |-> 0, index |-> 0]

Init ==
    /\ round = 0
    /\ semaphore = 0
    /\ acquired = [s \in Slots |-> FALSE]
    /\ mask = {}
    /\ deque = [s \in Slots |-> EmptyDeque]
    /\ task = [x \in TaskIds |-> NoTask]
    /\ finished = FALSE
    /\ calls = [e \in 0 .. Length - 1 |-> 0]
    /\ pc = [t \in Threads |-> IF t = Master THEN "out" ELSE "idle"]
    /\ slot = [t \in Threads |-> IF t = Master THEN 0 ELSE NoSlot]
    /\ current = [t \in Threads |-> None]
    /\ glance = [t \in Threads |-> NoGlance]
    /\ tokens = 0

GoTo(t, place) == pc' = [pc EXCEPT ![t] = place]

-----------------------------------------------------------------------------
\* Tasks

Live == {x \in TaskIds : task[x] # NoTask}

\* Bound: a step that needs two new tasks is taken when there are two addresses.
TwoAreFree == \E x, y \in TaskIds \ Live : x # y
Fresh(used) == CHOOSE x \in TaskIds : x \notin used
FirstFresh == Fresh(Live)
SecondFresh == Fresh(Live \cup {FirstFresh})

MapTask(lo, hi, successor, state) ==
    [kind |-> "map", lo |-> lo, hi |-> hi, successor |-> successor, preds |-> 0, state |-> state]
JoinTask(kind, successor, preds) ==
    [kind |-> kind, lo |-> 0, hi |-> 0, successor |-> successor, preds |-> preds, state |-> "allocated"]

\* Set_Ref_Count of a continuation: the right half and the recycled left one.
HalvesButRecycled == 1
Halves == 2

\* PT_McRT_Task_Map::Execute of a task with more than one element, up to and
\* with Spawn_PreProcess of the right half.
Split(x) ==
    LET middle == task[x].lo + (task[x].hi - task[x].lo) \div 2
        join == FirstFresh
        right == SecondFresh
    IN  [task EXCEPT
            ![join] = JoinTask("continuation", task[x].successor, Halves),
            ![right] = MapTask(middle, task[x].hi, join, "ready"),
            ![x] = MapTask(task[x].lo, middle, join, "allocated")]

IsLeaf(x) == task[x].kind = "map" => task[x].hi - task[x].lo <= 1

\* FreeAndTestSuccessor, and Spawn_PreProcess of the successor it returns.
FreeAndTest(x) ==
    LET s == task[x].successor
        freed == [task EXCEPT ![x] = NoTask]
    IN  IF s = None THEN freed
        ELSE [freed EXCEPT ![s].preds = task[s].preds - 1,
                           ![s].state = IF task[s].preds = 1 THEN "ready" ELSE task[s].state]

\* A thread runs a task only if it is Ready, as Execute_PreProcess asserts.
IsReady(x) == x \in TaskIds /\ x \in Live /\ task[x].state = "ready"

\* Execute_PreProcess and Execute of a task that has no more to divide.
Run(t) ==
    LET x == current[t]
    IN  /\ pc[t] = "run" /\ IsReady(x) /\ IsLeaf(x)
        /\ task' = [task EXCEPT ![x].state = "executing"]
        /\ calls' = [e \in DOMAIN calls |->
              calls[e] + (IF task[x].kind = "map" /\ e \in task[x].lo .. task[x].hi - 1 THEN 1 ELSE 0)]
        /\ finished' = (finished \/ task[x].kind = "wait")
        /\ GoTo(t, "free")
        /\ UNCHANGED <<market, arena, deque, current, glance>>

\* The task is freed; the last predecessor goes on with the successor.
Free(t) ==
    LET x == current[t]
        s == task[x].successor
        last == s # None /\ task[s].preds = 1
    IN  /\ pc[t] = "free"
        /\ task' = FreeAndTest(x)
        /\ current' = [current EXCEPT ![t] = IF last THEN s ELSE None]
        /\ GoTo(t, IF last THEN "run" ELSE "pop")
        /\ UNCHANGED <<market, arena, deque, finished, calls, glance>>

\* A task that divides: everything up to the first look at the own deque.
Divide(t) ==
    LET x == current[t]
    IN  /\ pc[t] = "run" /\ IsReady(x) /\ ~IsLeaf(x)
        /\ MayGrow(deque[slot[t]]) /\ TwoAreFree
        /\ task' = Split(x)
        /\ deque' = [deque EXCEPT ![slot[t]] = MakeRoom(@)]
        /\ glance' = [glance EXCEPT ![t].index = SecondFresh]
        /\ GoTo(t, "push")
        /\ UNCHANGED <<market, arena, finished, calls, current>>

\* The right half is stored, and the left one is bypassed to.
Push(t) ==
    /\ pc[t] = "push"
    /\ deque' = [deque EXCEPT ![slot[t]] = PushTail(@, glance[t].index)]
    /\ task' = [task EXCEPT ![current[t]].state = "ready"]
    /\ glance' = [glance EXCEPT ![t] = NoGlance]
    /\ GoTo(t, "run")
    /\ UNCHANGED <<market, arena, finished, calls, current>>

\* TaskDeque_Pop_Private.
Pop(t) ==
    LET d == deque[slot[t]]
    IN  /\ pc[t] = "pop"
        /\ IF IsEmpty(d)
             THEN /\ deque' = [deque EXCEPT ![slot[t]] = Reset(d)]
                  /\ UNCHANGED current
                  /\ GoTo(t, "steal")
             ELSE /\ deque' = [deque EXCEPT ![slot[t]] = PopTail(d)]
                  /\ current' = [current EXCEPT ![t] = LastTask(d)]
                  /\ GoTo(t, "run")
        /\ UNCHANGED <<market, arena, task, finished, calls, glance>>

-----------------------------------------------------------------------------
\* Stealing.  The victim is random among the slots up to the highest that the
\* mask names; a victim whose deque is empty changes nothing but the count of
\* failures.

MayWait(t) == t = Master => ~finished

Look(t) ==
    /\ pc[t] = "steal" /\ MayWait(t)
    /\ \E v \in Slots \ {slot[t]} :
          /\ \E s \in mask : v <= s
          /\ ~IsEmpty(deque[v])
          /\ glance' = [glance EXCEPT ![t] = Glance(v, deque[v])]
    /\ GoTo(t, "cas")
    /\ UNCHANGED <<market, arena, deque, task, finished, calls, current>>

Steal(t) ==
    LET v == glance[t].victim
    IN  /\ pc[t] = "cas"
        /\ Unchanged(deque[v], glance[t])
        /\ deque' = [deque EXCEPT ![v] = PopHead(@, glance[t])]
        /\ GoTo(t, "take")
        /\ UNCHANGED <<market, arena, task, finished, calls, current, glance>>

LookAgain(t) ==
    /\ pc[t] = "cas"
    /\ ~Unchanged(deque[glance[t].victim], glance[t])
    /\ glance' = [glance EXCEPT ![t] = NoGlance]
    /\ GoTo(t, "steal")
    /\ UNCHANGED <<market, arena, deque, task, finished, calls, current>>

\* The entry is read only after the compare-and-set.
Take(t) ==
    /\ pc[t] = "take"
    /\ current' = [current EXCEPT ![t] = deque[glance[t].victim].entry[glance[t].index]]
    /\ glance' = [glance EXCEPT ![t] = NoGlance]
    /\ GoTo(t, "run")
    /\ UNCHANGED <<market, arena, deque, task, finished, calls>>

Execute(t) ==
    \/ Run(t) \/ Free(t) \/ Divide(t) \/ Push(t) \/ Pop(t)
    \/ Look(t) \/ Steal(t) \/ LookAgain(t) \/ Take(t)

-----------------------------------------------------------------------------
\* Worker_Thread_Main

Passern(t) == semaphore > 0 /\ semaphore' = semaphore - 1

Awake(w) ==
    /\ pc[w] = "idle" /\ Passern(w)
    /\ GoTo(w, "pass_on")
    /\ UNCHANGED <<round, tokens, arena, work>>

PassOnNothing(w) ==
    /\ pc[w] = "pass_on"
    /\ GoTo(w, "attach")
    /\ UNCHANGED <<market, arena, work>>

\* The token goes to the next one at once.
PassOn(w) ==
    /\ pc[w] = "pass_on"
    /\ semaphore' = semaphore + 1
    /\ GoTo(w, "attach")
    /\ UNCHANGED <<round, tokens, arena, work>>

SlotSeemsFree(s) == s \notin mask
SlotIsFree(s) == ~acquired[s]

\* Arena_Attach_Worker and the first half of Slot_Acquire_Worker.
Attach(w) ==
    /\ pc[w] = "attach"
    /\ Cardinality(mask) < Capacity
    /\ \E s \in WorkerSlots :
          /\ SlotIsFree(s)
          /\ acquired' = [acquired EXCEPT ![s] = TRUE]
          /\ slot' = [slot EXCEPT ![w] = s]
    /\ GoTo(w, "mark")
    /\ UNCHANGED <<market, mask, work>>

FindNoSlot(w) ==
    /\ pc[w] = "attach"
    /\ Cardinality(mask) < Capacity => \A s \in WorkerSlots : ~SlotIsFree(s)
    /\ GoTo(w, "idle")
    /\ UNCHANGED <<market, arena, work>>

Mark(t, next) ==
    /\ pc[t] = "mark"
    /\ mask' = mask \cup {slot[t]}
    /\ GoTo(t, next)
    /\ UNCHANGED <<market, acquired, slot, work>>

\* After 1500 failures.
GiveUp(w) ==
    /\ pc[w] = "steal"
    /\ GoTo(w, "unmark")
    /\ UNCHANGED <<market, arena, work>>

\* Slot_Release: the bit of the mask goes before the slot does.
Unmark(t) ==
    /\ pc[t] = "unmark"
    /\ mask' = mask \ {slot[t]}
    /\ GoTo(t, "unslot")
    /\ UNCHANGED <<market, acquired, slot, work>>

Unslot(t, next) ==
    /\ pc[t] = "unslot"
    /\ acquired' = [acquired EXCEPT ![slot[t]] = FALSE]
    /\ slot' = [slot EXCEPT ![t] = IF t = Master THEN 0 ELSE NoSlot]
    /\ GoTo(t, next)
    /\ UNCHANGED <<market, mask, work>>

Worker(w) ==
    \/ Awake(w) \/ PassOn(w) \/ Attach(w) \/ FindNoSlot(w) \/ Mark(w, "steal")
    \/ Execute(w) \/ GiveUp(w) \/ Unmark(w) \/ Unslot(w, "idle")

-----------------------------------------------------------------------------
\* A master thread

\* Arena_Allocate_Master: the first master makes the arena, with slot 0 taken;
\* the next ones find it free (Slot_Acquire_Master).
Enter ==
    /\ pc[Master] = "out" /\ round < Rounds
    /\ round' = round + 1
    /\ ~acquired[0]
    /\ acquired' = [acquired EXCEPT ![0] = TRUE]
    /\ mask' = IF round = 0 THEN {0} ELSE mask
    /\ GoTo(Master, IF round = 0 THEN "wake" ELSE "mark")
    /\ UNCHANGED <<semaphore, tokens, slot, work>>

\* Worker_Wake: one Vrijgeven per slot.
Wake ==
    /\ pc[Master] = "wake" /\ tokens < Capacity
    /\ semaphore' = semaphore + 1
    /\ tokens' = tokens + 1
    /\ UNCHANGED <<round, arena, work, pc>>

\* PT_McRT_Parallel_Map up to ExecuteAndWait: a task that waits, and its child.
MapStart ==
    /\ pc[Master] = "wake" /\ tokens = Capacity /\ TwoAreFree
    /\ finished' = FALSE
    /\ LET waiting == FirstFresh
           root == SecondFresh
       IN  /\ task' = [task EXCEPT ![waiting] = JoinTask("wait", None, 1),
                                   ![root] = MapTask(0, Length, waiting, "ready")]
           /\ current' = [current EXCEPT ![Master] = root]
    /\ GoTo(Master, "run")
    /\ UNCHANGED <<market, arena, deque, calls, glance>>

MapReturn ==
    /\ pc[Master] = "steal" /\ finished
    /\ GoTo(Master, "sleep")
    /\ UNCHANGED <<market, arena, work>>

\* Worker_Sleep: one Passern per slot.
Sleep ==
    /\ pc[Master] = "sleep" /\ tokens > 0 /\ Passern(Master)
    /\ tokens' = tokens - 1
    /\ UNCHANGED <<round, arena, work, pc>>

Leave ==
    /\ pc[Master] = "sleep" /\ tokens = 0
    /\ GoTo(Master, "unmark")
    /\ UNCHANGED <<market, arena, work>>

MasterStep ==
    \/ Enter \/ Mark(Master, "wake") \/ Wake \/ MapStart \/ Execute(Master)
    \/ MapReturn \/ Sleep \/ Leave \/ Unmark(Master) \/ Unslot(Master, "out")

Next == MasterStep \/ \E w \in Workers : Worker(w)

\* Every thread that can run does; a semaphore does not pass over a thread for
\* ever.
Spec ==
    /\ Init /\ [][Next]_vars
    /\ WF_vars(MasterStep) /\ SF_vars(Sleep)
    /\ \A w \in Workers : WF_vars(Worker(w))
-----------------------------------------------------------------------------

(* Nobody runs a task that is not Ready ("assert(m_TrackState == Ready)"): *)
(* a task taken from a deque is taken by one thread, before it is freed.   *)
OnlyReadyTasksRun ==
    \A t \in Threads : pc[t] = "run" =>
        /\ IsReady(current[t])
        /\ \A u \in Threads \ {t} : current[u] # current[t]

(* Every task is where it will be found: a ready task is in one deque, in  *)
(* the hands of one thread or being stolen, and only there, and no deque   *)
(* belongs to a slot that nobody holds, so no task is stranded when a      *)
(* worker leaves (TaskDeque_Push, _Pop_Private, _Pop_Public, Slot_Release).*)
Carries(t) == pc[t] \in {"run", "push", "take"}
TaskWith(t) ==
    CASE pc[t] = "run" -> current[t]
      [] pc[t] = "push" -> glance[t].index
      [] OTHER -> deque[glance[t].victim].entry[glance[t].index]

Queued(s) == deque[s].head .. deque[s].tail - 1
Entry(s, k) == deque[s].entry[k % deque[s].capacity]

Spots ==
    {<<"thread", t, 0>> : t \in {u \in Threads : Carries(u)}}
    \cup UNION {{<<"deque", s, k>> : k \in Queued(s)} : s \in Slots}
TaskAt == [p \in Spots |-> IF p[1] = "thread" THEN TaskWith(p[2]) ELSE Entry(p[2], p[3])]

NoTaskLost ==
    /\ TaskAt \in Bijection(Spots, {x \in TaskIds : IsReady(x)})
    /\ \A s \in Slots : ~IsEmpty(deque[s]) =>
         \E t \in Threads : slot[t] = s /\ pc[t] \in {"run", "free", "push", "pop"}

(* The count of a task that waits is the number of its predecessors that   *)
(* are not yet freed, so it becomes ready exactly once, after the last.    *)
Predecessors(x) == {y \in Live : task[y].successor = x}
PredecessorsCounted == \A x \in Live : task[x].preds = Cardinality(Predecessors(x))

(* A slot has one owner, and the mask names only slots that are taken.     *)
SlotHasOneOwner ==
    /\ \A s \in mask : acquired[s]
    /\ \A t, u \in Threads : slot[t] # NoSlot /\ slot[t] = slot[u] => t = u

(* Every master gets through: its map ends, Worker_Sleep gets its tokens   *)
(* back from the workers that pass them round, and the workers go to sleep.*)
RoundsEnd ==
    <>[](/\ pc[Master] = "out" /\ round = Rounds
         /\ \A w \in Workers : pc[w] = "idle")

(* The scheduler implements a parallel map that knows no tasks: whichever  *)
(* halves are stolen by whom, the function is called once for every        *)
(* element before the map returns to the master, and the map returns.      *)
Map == INSTANCE ParallelMap WITH
    Elements <- 0 .. Length - 1,
    mapping <- pc[Master] \notin {"out", "sleep", "unmark", "unslot"},
    applied <- {e \in DOMAIN calls : calls[e] = round}
ImplementsParallelMap == Map!Spec
=============================================================================
