------------------------ MODULE TaskScheduler_proofs ------------------------
(***************************************************************************)
(* Proofs about the scheduler for any number of slots, workers, masters    *)
(* and elements.                                                           *)
(*                                                                         *)
(* First, a slot of the arena has one owner.  The two facts about a slot,  *)
(* its bit in the affinity mask and m_HasBeenAcquired, are changed one     *)
(* after the other; SlotInv says between which steps they may disagree.    *)
(*                                                                         *)
(* Then the tasks: each ready task is in one place, a thread runs only     *)
(* what is ready, and reference counts are exact.  Every step that keeps   *)
(* the entries of the deques keeps the invariant WorkInv.  In an arena of  *)
(* two slots every step does: the deques have room (DepthInv), a thief     *)
(* finds the owner away or the head moved (TheftInv), and a map is over    *)
(* before the next one begins (TreeInv).                                   *)
(***************************************************************************)
EXTENDS TaskScheduler, FiniteSetTheorems, WellFoundedInduction, TLAPS

\* A worker at one of these places has no slot.
Outside == {"idle", "pass_on", "attach"}
Places == Outside \cup
    {"mark", "run", "free", "push", "pop", "steal", "cas", "take", "unmark", "unslot",
     "out", "wake", "sleep"}

SlotTypeOK ==
    /\ acquired \in [Slots -> BOOLEAN]
    /\ mask \in SUBSET Slots
    /\ slot \in [Threads -> Slots \cup {NoSlot}]
    /\ pc \in [Threads -> Places]

MasterHasSlotZero ==
    /\ slot[Master] = 0
    /\ pc[Master] # "out" => acquired[0]

WorkersHaveTheirs ==
    \A w \in Workers :
        IF pc[w] \in Outside THEN slot[w] = NoSlot
        ELSE slot[w] \in WorkerSlots /\ acquired[slot[w]]

NoneShared == \A v, w \in Workers : slot[v] # NoSlot /\ slot[v] = slot[w] => v = w

MaskIsBehind ==
    /\ \A s \in mask : acquired[s]
    /\ \A t \in Threads : pc[t] = "unslot" => slot[t] \notin mask

SlotInv ==
    /\ SlotTypeOK
    /\ MasterHasSlotZero
    /\ WorkersHaveTheirs
    /\ NoneShared
    /\ MaskIsBehind

(* At first nobody has a slot.                                             *)
LEMMA SlotInit == Init => SlotInv
  <1> SUFFICES ASSUME Init PROVE SlotInv
    OBVIOUS
  <1>1. /\ acquired = [s \in Slots |-> FALSE] /\ mask = {}
        /\ slot = [t \in Threads |-> IF t = Master THEN 0 ELSE NoSlot]
        /\ pc = [t \in Threads |-> IF t = Master THEN "out" ELSE "idle"]
    BY DEF Init
  <1>2. 0 \in Slots /\ NoSlot = -1
    BY SchedulerAssumption DEF Slots, NoSlot
  <1>3. Master \in Threads /\ Master \notin Workers /\ Workers \subseteq Threads
    BY SchedulerAssumption DEF Threads
  <1>4. SlotTypeOK
    <2>1. acquired \in [Slots -> BOOLEAN] /\ mask \in SUBSET Slots
      BY <1>1
    <2>2. slot \in [Threads -> Slots \cup {NoSlot}]
      BY <1>1, <1>2
    <2>3. pc \in [Threads -> Places]
      BY <1>1 DEF Places, Outside
    <2> QED
      BY <2>1, <2>2, <2>3 DEF SlotTypeOK
  <1>5. MasterHasSlotZero
    BY <1>1, <1>3 DEF MasterHasSlotZero
  <1>6. \A w \in Workers : pc[w] = "idle" /\ slot[w] = NoSlot
    BY <1>1, <1>3
  <1>7. WorkersHaveTheirs /\ NoneShared
    BY <1>6 DEF WorkersHaveTheirs, Outside, NoneShared
  <1>8. MaskIsBehind
    BY <1>1 DEF MaskIsBehind
  <1> QED
    BY <1>4, <1>5, <1>7, <1>8 DEF SlotInv

\* A step that leaves the arena alone keeps the invariant if the thread that
\* takes it stays on its side: outside, or with its slot.
LEMMA ArenaUntouched ==
    ASSUME SlotInv, NEW t \in Threads, NEW place \in Places,
           GoTo(t, place), UNCHANGED arena,
           place # "unslot",
           place # "out",
           t = Master => pc[t] # "out",
           t # Master => (pc[t] \in Outside <=> place \in Outside)
    PROVE  SlotInv'
  <1> USE SchedulerAssumption DEF SlotInv, GoTo, arena
  <1>0. pc' = [pc EXCEPT ![t] = place] /\ pc \in [Threads -> Places]
        /\ acquired' = acquired /\ mask' = mask /\ slot' = slot
    BY DEF SlotTypeOK
  <1>1. SlotTypeOK'
    BY <1>0 DEF SlotTypeOK
  <1>2. MasterHasSlotZero'
    BY <1>0 DEF MasterHasSlotZero, Threads
  <1>3. WorkersHaveTheirs'
    BY <1>0 DEF WorkersHaveTheirs, Threads
  <1>4. NoneShared'
    BY <1>0 DEF NoneShared
  <1>5. MaskIsBehind'
    BY <1>0 DEF MaskIsBehind
  <1> QED
    BY ONLY <1>1, <1>2, <1>3, <1>4, <1>5 DEF SlotInv

\* Nor does one that moves no thread.
LEMMA NobodyMoves ==
    ASSUME SlotInv, UNCHANGED <<arena, pc>>
    PROVE  SlotInv'
  BY DEF SlotInv, arena, SlotTypeOK, MasterHasSlotZero, WorkersHaveTheirs, NoneShared, MaskIsBehind

-----------------------------------------------------------------------------
\* The steps that only work on tasks.

(* Executing, spawning and stealing leave the arena alone.                 *)
LEMMA ExecuteStep ==
    ASSUME SlotInv, NEW t \in Threads, Execute(t)
    PROVE  SlotInv'
  <1>1. PICK place \in {"run", "free", "push", "pop", "steal", "cas", "take"} :
            /\ pc[t] \in {"run", "free", "push", "pop", "steal", "cas", "take"}
            /\ GoTo(t, place)
            /\ UNCHANGED arena
    <2>1. CASE Run(t)
      BY <2>1 DEF Run
    <2>2. CASE Free(t)
      BY <2>2 DEF Free
    <2>3. CASE Divide(t)
      BY <2>3 DEF Divide
    <2>4. CASE Push(t)
      BY <2>4 DEF Push
    <2>5. CASE Pop(t)
      BY <2>5 DEF Pop
    <2>6. CASE Look(t)
      BY <2>6 DEF Look
    <2>7. CASE Steal(t)
      BY <2>7 DEF Steal
    <2>8. CASE LookAgain(t)
      BY <2>8 DEF LookAgain
    <2>9. CASE Take(t)
      BY <2>9 DEF Take
    <2> QED
      BY <2>1, <2>2, <2>3, <2>4, <2>5, <2>6, <2>7, <2>8, <2>9 DEF Execute
  <1>2. place \in Places /\ place \notin {"unslot", "out"} /\ place \notin Outside
    BY <1>1 DEF Places, Outside
  <1>3. pc[t] # "out" /\ pc[t] \notin Outside
    BY <1>1 DEF Outside
  <1> QED
    BY <1>1, <1>2, <1>3, ArenaUntouched

-----------------------------------------------------------------------------
\* The steps that change who has a slot.

\* The compare-and-set finds m_HasBeenAcquired clear, so nobody has the slot.
LEMMA AttachStep ==
    ASSUME SlotInv, NEW w \in Workers, Attach(w)
    PROVE  SlotInv'
  <1>1. PICK s \in WorkerSlots :
            /\ ~acquired[s]
            /\ acquired' = [acquired EXCEPT ![s] = TRUE]
            /\ slot' = [slot EXCEPT ![w] = s]
    BY DEF Attach, SlotIsFree
  <1>2. pc[w] = "attach" /\ pc' = [pc EXCEPT ![w] = "mark"] /\ mask' = mask
    BY DEF Attach, GoTo
  <1>3. s \in Slots /\ s # 0 /\ s # NoSlot /\ 0 \in Slots
    BY <1>1, SchedulerAssumption DEF WorkerSlots, Slots, NoSlot
  <1>4. w \in Threads /\ w # Master /\ Master \in Threads /\ Workers \subseteq Threads
    BY SchedulerAssumption DEF Threads
  <1>5. SlotTypeOK'
    BY <1>1, <1>2, <1>3, <1>4 DEF SlotInv, SlotTypeOK, Places
  <1>6. MasterHasSlotZero'
    BY <1>1, <1>2, <1>3, <1>4 DEF SlotInv, SlotTypeOK, MasterHasSlotZero
  <1>7. \A v \in Workers \ {w} : slot[v] # s
    BY <1>1, <1>3 DEF SlotInv, WorkersHaveTheirs
  <1>8. WorkersHaveTheirs'
    <2> SUFFICES ASSUME NEW v \in Workers
                 PROVE  IF pc'[v] \in Outside THEN slot'[v] = NoSlot
                        ELSE slot'[v] \in WorkerSlots /\ acquired'[slot'[v]]
      BY DEF WorkersHaveTheirs
    <2>1. CASE v = w
      BY <2>1, <1>1, <1>2, <1>3, <1>4 DEF SlotInv, SlotTypeOK, Outside
    <2>2. CASE v # w
      BY <2>2, <1>1, <1>2, <1>4 DEF SlotInv, SlotTypeOK, WorkersHaveTheirs, WorkerSlots
    <2> QED
      BY <2>1, <2>2
  <1>9. NoneShared'
    BY <1>1, <1>4, <1>7 DEF SlotInv, SlotTypeOK, NoneShared
  <1>10. MaskIsBehind'
    BY <1>1, <1>2, <1>4 DEF SlotInv, SlotTypeOK, MaskIsBehind
  <1> QED
    BY <1>5, <1>6, <1>8, <1>9, <1>10 DEF SlotInv

\* The slot of a thread that is inside is acquired, and no other thread has it.
LEMMA Inside ==
    ASSUME SlotInv, NEW t \in Threads, pc[t] \notin Outside, pc[t] # "out"
    PROVE  /\ slot[t] \in Slots
           /\ acquired[slot[t]]
           /\ \A u \in Threads \ {t} : slot[u] # slot[t]
  <1>1. 0 \in Slots /\ WorkerSlots \subseteq Slots /\ 0 \notin WorkerSlots /\ NoSlot \notin Slots
    BY SchedulerAssumption DEF WorkerSlots, Slots, NoSlot
  <1>2. CASE t = Master
    <2>1. slot[t] = 0 /\ acquired[0]
      BY <1>2 DEF SlotInv, MasterHasSlotZero
    <2>2. \A u \in Workers : slot[u] # 0
      BY <1>1 DEF SlotInv, WorkersHaveTheirs
    <2> QED
      BY <1>1, <1>2, <2>1, <2>2 DEF Threads
  <1>3. CASE t \in Workers
    <2>1. slot[t] \in WorkerSlots /\ acquired[slot[t]]
      BY <1>3 DEF SlotInv, WorkersHaveTheirs
    <2>2. slot[Master] # slot[t]
      BY <1>1, <2>1 DEF SlotInv, MasterHasSlotZero
    <2>3. \A u \in Workers \ {t} : slot[u] # slot[t]
      BY <1>1, <1>3, <2>1 DEF SlotInv, NoneShared
    <2> QED
      BY <1>1, <2>1, <2>2, <2>3 DEF Threads
  <1> QED
    BY <1>2, <1>3 DEF Threads

(* The bit of an acquired slot is set.                                     *)
LEMMA MarkStep ==
    ASSUME SlotInv, NEW t \in Threads, NEW place \in {"steal", "wake"}, Mark(t, place)
    PROVE  SlotInv'
  <1>1. /\ pc[t] = "mark" /\ pc' = [pc EXCEPT ![t] = place]
        /\ mask' = mask \cup {slot[t]} /\ acquired' = acquired /\ slot' = slot
    BY DEF Mark, GoTo
  <1>2. pc[t] \notin Outside /\ pc[t] # "out" /\ place \notin Outside /\ place \in Places
        /\ place # "unslot"
    BY <1>1 DEF Outside, Places
  <1>3. slot[t] \in Slots /\ acquired[slot[t]] /\ \A u \in Threads \ {t} : slot[u] # slot[t]
    BY <1>2, Inside
  <1>4. SlotTypeOK'
    BY <1>1, <1>2, <1>3 DEF SlotInv, SlotTypeOK
  <1>5. MasterHasSlotZero' /\ WorkersHaveTheirs' /\ NoneShared'
    BY <1>1, <1>2 DEF SlotInv, SlotTypeOK, MasterHasSlotZero, WorkersHaveTheirs, NoneShared, Threads
  <1>6. MaskIsBehind'
    BY <1>1, <1>2, <1>3 DEF SlotInv, SlotTypeOK, MaskIsBehind
  <1> QED
    BY <1>4, <1>5, <1>6 DEF SlotInv

(* The bit goes while the slot is still acquired.                          *)
LEMMA UnmarkStep ==
    ASSUME SlotInv, NEW t \in Threads, Unmark(t)
    PROVE  SlotInv'
  <1>1. /\ pc[t] = "unmark" /\ pc' = [pc EXCEPT ![t] = "unslot"]
        /\ mask' = mask \ {slot[t]} /\ acquired' = acquired /\ slot' = slot
    BY DEF Unmark, GoTo
  <1>2. pc[t] \notin Outside /\ pc[t] # "out" /\ "unslot" \notin Outside /\ "unslot" \in Places
    BY <1>1 DEF Outside, Places
  <1>3. SlotTypeOK'
    BY <1>1, <1>2 DEF SlotInv, SlotTypeOK
  <1>4. MasterHasSlotZero' /\ WorkersHaveTheirs' /\ NoneShared'
    BY <1>1, <1>2 DEF SlotInv, SlotTypeOK, MasterHasSlotZero, WorkersHaveTheirs, NoneShared, Threads
  <1>5. MaskIsBehind'
    BY <1>1 DEF SlotInv, SlotTypeOK, MaskIsBehind
  <1> QED
    BY <1>3, <1>4, <1>5 DEF SlotInv

\* The bit of the mask is gone by now, so clearing m_HasBeenAcquired is safe.
LEMMA UnslotStep ==
    ASSUME SlotInv, NEW t \in Threads, NEW place \in {"idle", "out"}, Unslot(t, place),
           place = "out" <=> t = Master
    PROVE  SlotInv'
  <1>1. /\ pc[t] = "unslot" /\ pc' = [pc EXCEPT ![t] = place]
        /\ acquired' = [acquired EXCEPT ![slot[t]] = FALSE] /\ mask' = mask
        /\ slot' = [slot EXCEPT ![t] = IF t = Master THEN 0 ELSE NoSlot]
    BY DEF Unslot, GoTo
  <1>2. pc[t] \notin Outside /\ pc[t] # "out" /\ place \in Places /\ place # "unslot"
        /\ (place \in Outside <=> t # Master)
    BY <1>1 DEF Outside, Places
  <1>3. slot[t] \in Slots /\ \A u \in Threads \ {t} : slot[u] # slot[t]
    BY <1>2, Inside
  <1>4. Master \in Threads /\ Master \notin Workers /\ Workers \subseteq Threads /\ 0 \in Slots
        /\ WorkerSlots \subseteq Slots /\ 0 # NoSlot
    BY SchedulerAssumption DEF Threads, Slots, WorkerSlots, NoSlot
  <1>5. SlotTypeOK'
    BY <1>1, <1>2, <1>3, <1>4 DEF SlotInv, SlotTypeOK
  <1>6. MasterHasSlotZero'
    BY <1>1, <1>2, <1>3, <1>4 DEF SlotInv, SlotTypeOK, MasterHasSlotZero
  <1>7. WorkersHaveTheirs'
    <2> SUFFICES ASSUME NEW v \in Workers
                 PROVE  IF pc'[v] \in Outside THEN slot'[v] = NoSlot
                        ELSE slot'[v] \in WorkerSlots /\ acquired'[slot'[v]]
      BY DEF WorkersHaveTheirs
    <2>1. CASE v = t
      BY <2>1, <1>1, <1>2, <1>4 DEF SlotInv, SlotTypeOK
    <2>2. CASE v # t
      BY <2>2, <1>1, <1>3, <1>4 DEF SlotInv, SlotTypeOK, WorkersHaveTheirs
    <2> QED
      BY <2>1, <2>2
  <1>8. NoneShared'
    BY <1>1, <1>4 DEF SlotInv, SlotTypeOK, NoneShared
  <1>9. MaskIsBehind'
    <2>1. slot[t] \notin mask
      BY <1>1 DEF SlotInv, MaskIsBehind
    <2>2. \A u \in Threads : pc'[u] = "unslot" => u # t
      BY <1>1, <1>2 DEF SlotInv, SlotTypeOK
    <2> QED
      BY <1>1, <2>1, <2>2 DEF SlotInv, SlotTypeOK, MaskIsBehind
  <1> QED
    BY <1>5, <1>6, <1>7, <1>8, <1>9 DEF SlotInv

(* A master takes slot 0, which no worker takes.                           *)
LEMMA EnterStep ==
    ASSUME SlotInv, Enter
    PROVE  SlotInv'
  <1>1. PICK place \in {"wake", "mark"} : pc' = [pc EXCEPT ![Master] = place]
    BY DEF Enter, GoTo
  <1>2. /\ pc[Master] = "out" /\ slot' = slot
        /\ acquired' = [acquired EXCEPT ![0] = TRUE]
        /\ mask' \in {mask, {0}}
    BY DEF Enter
  <1>3. Master \in Threads /\ Master \notin Workers /\ Workers \subseteq Threads /\ 0 \in Slots
    BY SchedulerAssumption DEF Threads, Slots
  <1>4. 0 \notin WorkerSlots /\ NoSlot # 0
    BY DEF WorkerSlots, NoSlot
  <1>5. SlotTypeOK'
    BY <1>1, <1>2, <1>3 DEF SlotInv, SlotTypeOK, Places
  <1>6. MasterHasSlotZero'
    BY <1>1, <1>2, <1>3 DEF SlotInv, SlotTypeOK, MasterHasSlotZero
  <1>7. WorkersHaveTheirs'
    BY <1>1, <1>2, <1>3, <1>4 DEF SlotInv, SlotTypeOK, WorkersHaveTheirs, WorkerSlots
  <1>8. NoneShared'
    BY <1>2 DEF SlotInv, NoneShared
  <1>9. MaskIsBehind'
    <2>1. \A s \in mask' : acquired'[s]
      BY <1>2, <1>3 DEF SlotInv, SlotTypeOK, MaskIsBehind
    <2>2. \A t \in Threads : pc'[t] = "unslot" => t \in Workers /\ pc[t] = "unslot"
      BY <1>1, <1>2 DEF SlotInv, SlotTypeOK, Threads
    <2>3. \A w \in Workers : pc[w] = "unslot" => slot[w] \in WorkerSlots
      BY DEF SlotInv, WorkersHaveTheirs, Outside
    <2>4. \A t \in Threads : pc'[t] = "unslot" => slot'[t] \notin mask'
      BY <1>2, <1>4, <2>2, <2>3 DEF SlotInv, MaskIsBehind, Threads
    <2> QED
      BY <2>1, <2>4 DEF MaskIsBehind
  <1> QED
    BY <1>5, <1>6, <1>7, <1>8, <1>9 DEF SlotInv

-----------------------------------------------------------------------------
(* The steps of a master.                                                  *)
LEMMA MasterStepKeeps ==
    ASSUME SlotInv, MasterStep
    PROVE  SlotInv'
  <1>0. Master \in Threads
    BY DEF Threads
  <1> USE DEF arena, Outside, Places
  <1>1. CASE Enter
    BY <1>1, EnterStep
  <1>2. CASE Mark(Master, "wake")
    BY <1>0, <1>2, MarkStep
  <1>3. CASE Wake \/ Sleep
    <2>1. UNCHANGED <<arena, pc>>
      BY <1>3 DEF Wake, Sleep
    <2> QED
      BY ONLY SlotInv, <2>1, NobodyMoves
  <1>4. CASE MapStart
    <2>1. pc[Master] = "wake" /\ GoTo(Master, "run") /\ UNCHANGED arena
      BY <1>4 DEF MapStart
    <2> QED
      BY <1>0, <2>1, ArenaUntouched
  <1>5. CASE Execute(Master)
    BY <1>0, <1>5, ExecuteStep
  <1>6. CASE MapReturn
    <2>1. pc[Master] = "steal" /\ GoTo(Master, "sleep") /\ UNCHANGED arena
      BY <1>6 DEF MapReturn
    <2> QED
      BY <1>0, <2>1, ArenaUntouched
  <1>7. CASE Leave
    <2>1. pc[Master] = "sleep" /\ GoTo(Master, "unmark") /\ UNCHANGED arena
      BY <1>7 DEF Leave
    <2> QED
      BY <1>0, <2>1, ArenaUntouched
  <1>8. CASE Unmark(Master)
    BY <1>0, <1>8, UnmarkStep
  <1>9. CASE Unslot(Master, "out")
    BY <1>0, <1>9, UnslotStep
  <1> QED
    BY <1>1, <1>2, <1>3, <1>4, <1>5, <1>6, <1>7, <1>8, <1>9 DEF MasterStep

(* The steps of a worker.                                                  *)
LEMMA WorkerStepKeeps ==
    ASSUME SlotInv, NEW w \in Workers, Worker(w)
    PROVE  SlotInv'
  <1>0. w \in Threads /\ w # Master
    BY SchedulerAssumption DEF Threads
  <1>1. CASE Awake(w)
    <2>1. pc[w] = "idle" /\ GoTo(w, "pass_on") /\ UNCHANGED arena
      BY <1>1 DEF Awake
    <2> QED
      BY <1>0, <2>1, ArenaUntouched DEF Outside, Places
  <1>2. CASE PassOn(w)
    <2>1. pc[w] = "pass_on" /\ GoTo(w, "attach") /\ UNCHANGED arena
      BY <1>2 DEF PassOn
    <2> QED
      BY <1>0, <2>1, ArenaUntouched DEF Outside, Places
  <1>3. CASE Attach(w)
    BY <1>3, AttachStep
  <1>4. CASE FindNoSlot(w)
    <2>1. pc[w] = "attach" /\ GoTo(w, "idle") /\ UNCHANGED arena
      BY <1>4 DEF FindNoSlot
    <2> QED
      BY <1>0, <2>1, ArenaUntouched DEF Outside, Places
  <1>5. CASE Mark(w, "steal")
    BY <1>0, <1>5, MarkStep
  <1>6. CASE Execute(w)
    BY <1>0, <1>6, ExecuteStep
  <1>7. CASE GiveUp(w)
    <2>1. pc[w] = "steal" /\ GoTo(w, "unmark") /\ UNCHANGED arena
      BY <1>7 DEF GiveUp
    <2> QED
      BY <1>0, <2>1, ArenaUntouched DEF Outside, Places
  <1>8. CASE Unmark(w)
    BY <1>0, <1>8, UnmarkStep
  <1>9. CASE Unslot(w, "idle")
    BY <1>0, <1>9, UnslotStep
  <1> QED
    BY <1>1, <1>2, <1>3, <1>4, <1>5, <1>6, <1>7, <1>8, <1>9 DEF Worker

(* Every step keeps the invariant.                                         *)
LEMMA SlotInvInductive == SlotInv /\ [Next]_vars => SlotInv'
  <1> SUFFICES ASSUME SlotInv, [Next]_vars PROVE SlotInv'
    OBVIOUS
  <1>1. CASE MasterStep
    BY <1>1, MasterStepKeeps
  <1>2. CASE \E w \in Workers : Worker(w)
    BY <1>2, WorkerStepKeeps
  <1>3. CASE UNCHANGED vars
    <2>1. UNCHANGED <<arena, pc>>
      BY <1>3 DEF vars, arena
    <2> QED
      BY <2>1, NobodyMoves
  <1> QED
    BY <1>1, <1>2, <1>3 DEF Next

(* It implies that a slot has one owner.                                   *)
LEMMA SlotInvSuffices == SlotInv => SlotHasOneOwner
  <1> SUFFICES ASSUME SlotInv PROVE SlotHasOneOwner
    OBVIOUS
  <1>1. 0 \notin WorkerSlots /\ NoSlot # 0
    BY DEF WorkerSlots, NoSlot
  <1>2. slot[Master] = 0 /\ \A w \in Workers : slot[w] # 0
    BY <1>1 DEF SlotInv, MasterHasSlotZero, WorkersHaveTheirs
  <1>3. \A t, u \in Threads : slot[t] # NoSlot /\ slot[t] = slot[u] => t = u
    BY <1>2 DEF SlotInv, NoneShared, Threads
  <1> QED
    BY <1>3 DEF SlotInv, MaskIsBehind, SlotHasOneOwner

(* No two threads have one slot of the arena, and the affinity mask names  *)
(* only slots whose m_HasBeenAcquired is set, however the steps of         *)
(* Slot_Acquire_Worker, Slot_Acquire_Master and Slot_Release interleave.   *)
THEOREM SlotExclusive == Spec => []SlotHasOneOwner
  <1>1. Init => SlotInv
    BY SlotInit
  <1>2. SlotInv /\ [Next]_vars => SlotInv'
    BY SlotInvInductive
  <1>3. SlotInv => SlotHasOneOwner
    BY SlotInvSuffices
  <1> QED
    BY <1>1, <1>2, <1>3, PTL DEF Spec

-----------------------------------------------------------------------------
\* The tasks.  Two steps of the code may spoil an entry of a deque that is still
\* to be read: a deque that doubles copies its tasks the wrong way, and the owner
\* of a deque may use the entry of a stolen task before the thief has read it.
\* First, what steps that do neither preserve; then, that no step of an arena of
\* two slots does either.

ArraysKept ==
    \A s \in Slots : deque[s].capacity # 0 => deque'[s].capacity = deque[s].capacity

StolenKept ==
    \A t \in Threads : pc[t] = "take" =>
        LET g == glance[t]
        IN  deque'[g.victim].entry[g.index] = deque[g.victim].entry[g.index]

EntriesKept == ArraysKept /\ StolenKept

TaskType ==
    [kind : {"map", "continuation", "wait"}, lo : Int, hi : Int,
     successor : TaskIds \cup {None}, preds : Int,
     state : {"allocated", "ready", "executing"}]

GlanceType == [victim : Slots, head : Int, tail : Int, index : Int]

WorkTypeOK ==
    /\ task \in [TaskIds -> TaskType \cup {NoTask}]
    /\ current \in [Threads -> TaskIds \cup {None}]
    /\ glance \in [Threads -> GlanceType]
    /\ deque = [s \in Slots |-> deque[s]]

\* The indices are at most a capacity apart, and the array has that many entries.
DequeGood(d) ==
    /\ d = [head |-> d.head, tail |-> d.tail, capacity |-> d.capacity, entry |-> d.entry]
    /\ d.head \in Nat /\ d.tail \in Nat /\ d.capacity \in Nat
    /\ d.head <= d.tail /\ d.tail - d.head <= d.capacity
    /\ d.entry = [k \in 0 .. d.capacity - 1 |-> d.entry[k]]

DequesGood == \A s \in Slots : DequeGood(deque[s])

HandsGood ==
    /\ \A t \in Threads : pc[t] \in {"run", "free", "push"} <=> current[t] # None
    /\ \A t, u \in Threads : current[t] # None /\ current[t] = current[u] => t = u
    /\ \A t \in Threads : pc[t] = "free" =>
          /\ task[current[t]] # NoTask
          /\ task[current[t]].state = "executing"
    /\ \A t \in Threads : pc[t] = "push" =>
          /\ task[current[t]] # NoTask
          /\ task[current[t]].state = "allocated"
          /\ task[current[t]].kind = "map"
          /\ deque[slot[t]].tail - deque[slot[t]].head < deque[slot[t]].capacity

GlanceGood(t) ==
    LET g == glance[t]
        d == deque[g.victim]
    IN  /\ pc[t] = "cas" =>
              g.head < g.tail /\ d.capacity # 0 /\ g.index = g.head % d.capacity
        /\ pc[t] = "take" => g.index \in 0 .. d.capacity - 1

GlancesGood == \A t \in Threads : GlanceGood(t)

\* A task waits, without being queued, as long as it is anybody's successor.
SuccessorsWait ==
    \A x \in Live : task[x].successor # None =>
        LET s == task[x].successor
        IN  s \in Live /\ task[s].kind # "map" /\ task[s].state = "allocated"

\* What NoTaskLost says, place by place.
Placed ==
    /\ \A t \in Threads : Carries(t) => IsReady(TaskWith(t))
    /\ \A s \in Slots : \A k \in Queued(s) : IsReady(Entry(s, k))
    /\ \A t, u \in Threads : Carries(t) /\ Carries(u) /\ TaskWith(t) = TaskWith(u) => t = u
    /\ \A r, s \in Slots : \A k \in Queued(r), l \in Queued(s) :
          Entry(r, k) = Entry(s, l) => r = s /\ k = l
    /\ \A t \in Threads : \A s \in Slots : \A k \in Queued(s) :
          Carries(t) => TaskWith(t) # Entry(s, k)
    /\ \A x \in TaskIds : IsReady(x) =>
          \/ \E t \in Threads : Carries(t) /\ TaskWith(t) = x
          \/ \E s \in Slots : \E k \in Queued(s) : Entry(s, k) = x

OwnersBusy ==
    \A s \in Slots : ~IsEmpty(deque[s]) =>
        \E t \in Threads : slot[t] = s /\ pc[t] \in {"run", "free", "push", "pop"}

WorkInv ==
    /\ WorkTypeOK
    /\ DequesGood
    /\ HandsGood
    /\ GlancesGood
    /\ SuccessorsWait
    /\ PredecessorsCounted
    /\ Placed
    /\ OwnersBusy

(* NoTaskLost says no less and no more than Placed and OwnersBusy.         *)
LEMMA PlacedIsEnough == Placed /\ OwnersBusy => NoTaskLost
  <1> SUFFICES ASSUME Placed, OwnersBusy PROVE NoTaskLost
    OBVIOUS
  <1> DEFINE Ready == {x \in TaskIds : IsReady(x)}
  <1>1. ASSUME NEW p \in Spots
        PROVE  \/ \E t \in Threads : Carries(t) /\ p = <<"thread", t, 0>> /\ TaskAt[p] = TaskWith(t)
               \/ \E s \in Slots : \E k \in Queued(s) :
                     p = <<"deque", s, k>> /\ TaskAt[p] = Entry(s, k)
    <2>1. CASE \E t \in Threads : Carries(t) /\ p = <<"thread", t, 0>>
      BY <2>1 DEF TaskAt
    <2>2. CASE \E s \in Slots : \E k \in Queued(s) : p = <<"deque", s, k>>
      BY <2>2 DEF TaskAt
    <2> QED
      BY <2>1, <2>2 DEF Spots
  <1>2. ASSUME NEW t \in Threads, Carries(t)
        PROVE  <<"thread", t, 0>> \in Spots /\ TaskAt[<<"thread", t, 0>>] = TaskWith(t)
    <2>1. <<"thread", t, 0>> \in Spots
      BY <1>2 DEF Spots
    <2> QED
      BY <2>1 DEF TaskAt
  <1>3. ASSUME NEW s \in Slots, NEW k \in Queued(s)
        PROVE  <<"deque", s, k>> \in Spots /\ TaskAt[<<"deque", s, k>>] = Entry(s, k)
    <2>1. <<"deque", s, k>> \in Spots
      BY DEF Spots
    <2> QED
      BY <2>1 DEF TaskAt
  <1>4. TaskAt \in [Spots -> Ready]
    <2>1. ASSUME NEW p \in Spots PROVE TaskAt[p] \in Ready
      BY <1>1 DEF Placed, IsReady
    <2>2. TaskAt = [p \in Spots |-> TaskAt[p]]
      BY DEF TaskAt
    <2> QED
      BY <2>1, <2>2
  <1>5. ASSUME NEW p \in Spots, NEW q \in Spots, TaskAt[p] = TaskAt[q] PROVE p = q
    <2>1. CASE \E t, u \in Threads : Carries(t) /\ Carries(u) /\ p = <<"thread", t, 0>>
                 /\ TaskAt[p] = TaskWith(t) /\ q = <<"thread", u, 0>> /\ TaskAt[q] = TaskWith(u)
      BY <1>5, <2>1 DEF Placed
    <2>2. CASE \E r, s \in Slots : \E k \in Queued(r), l \in Queued(s) : p = <<"deque", r, k>>
                 /\ TaskAt[p] = Entry(r, k) /\ q = <<"deque", s, l>> /\ TaskAt[q] = Entry(s, l)
      BY <1>5, <2>2 DEF Placed
    <2>3. ~ \E t \in Threads, s \in Slots : \E k \in Queued(s) :
              Carries(t) /\ TaskWith(t) = Entry(s, k)
      BY DEF Placed
    <2> QED
      BY <1>1, <1>5, <2>1, <2>2, <2>3
  <1>6. ASSUME NEW x \in Ready PROVE \E p \in Spots : TaskAt[p] = x
    <2>1. x \in TaskIds /\ IsReady(x)
      OBVIOUS
    <2>2. CASE \E t \in Threads : Carries(t) /\ TaskWith(t) = x
      BY <1>2, <2>2
    <2>3. CASE \E s \in Slots : \E k \in Queued(s) : Entry(s, k) = x
      BY <1>3, <2>3
    <2> QED
      BY <2>1, <2>2, <2>3 DEF Placed
  <1>7. TaskAt \in Bijection(Spots, Ready)
    BY <1>4, <1>5, <1>6 DEF Bijection, Injection, Surjection, IsInjective
  <1> QED
    BY <1>7 DEF NoTaskLost, OwnersBusy

(* At first there are no tasks.                                            *)
LEMMA WorkInit == Init => WorkInv
  <1> SUFFICES ASSUME Init PROVE WorkInv
    OBVIOUS
  <1>1. /\ deque = [s \in Slots |-> EmptyDeque]
        /\ task = [x \in TaskIds |-> NoTask]
        /\ current = [t \in Threads |-> None]
        /\ glance = [t \in Threads |-> NoGlance]
        /\ \A t \in Threads : pc[t] \in {"out", "idle"}
    BY DEF Init
  <1>2. Live = {}
    BY <1>1 DEF Live
  <1>3. 0 \in Slots
    BY SchedulerAssumption DEF Slots
  <1>4. WorkTypeOK
    <2>1. NoGlance \in GlanceType
      BY <1>3 DEF NoGlance, GlanceType
    <2> QED
      BY <1>1, <2>1 DEF WorkTypeOK
  <1>5. DequeGood(EmptyDeque)
    BY DEF DequeGood, EmptyDeque
  <1>6. DequesGood
    BY <1>1, <1>5 DEF DequesGood
  <1>7. HandsGood /\ GlancesGood
    BY <1>1 DEF HandsGood, GlancesGood, GlanceGood
  <1>8. SuccessorsWait /\ PredecessorsCounted
    BY <1>2 DEF SuccessorsWait, PredecessorsCounted
  <1>9. /\ \A s \in Slots : Queued(s) = {} /\ IsEmpty(deque[s])
        /\ \A t \in Threads : ~Carries(t)
        /\ \A x \in TaskIds : ~IsReady(x)
    BY <1>1, <1>2 DEF Queued, EmptyDeque, IsEmpty, Carries, IsReady
  <1>10. Placed /\ OwnersBusy
    BY <1>9 DEF Placed, OwnersBusy
  <1> QED
    BY <1>4, <1>6, <1>7, <1>8, <1>10 DEF WorkInv

-----------------------------------------------------------------------------
\* Lemmas about the tasks and the deques

(* An index modulo the capacity is an index of the array.                  *)
LEMMA ModRange ==
    ASSUME NEW c \in Nat \ {0}, NEW a \in Int
    PROVE  /\ a \div c \in Int
           /\ a % c \in 0 .. c - 1
           /\ a = c * (a \div c) + (a % c)
  OBVIOUS

(* Indices less than a capacity apart are different entries.               *)
LEMMA ModApart ==
    ASSUME NEW c \in Nat \ {0}, NEW a \in Int, NEW b \in Int, a < b, b - a < c
    PROVE  a % c # b % c
  <1> SUFFICES ASSUME a % c = b % c PROVE FALSE
    OBVIOUS
  <1>1. PICK p \in Int, q \in Int, m \in 0 .. c - 1 : a = c * p + m /\ b = c * q + m
    <2>1. /\ a \div c \in Int /\ b \div c \in Int /\ a % c \in 0 .. c - 1
          /\ a = c * (a \div c) + (a % c)
      BY ModRange
    <2>2. b = c * (b \div c) + (a % c)
      BY ModRange
    <2> QED
      BY <2>1, <2>2
  <1>2. c * (q - p) = b - a
    BY <1>1
  <1>3. q - p \in Int
    BY <1>1
  <1>4. CASE q - p <= 0
    <2>1. c * (q - p) <= 0
      BY <1>3, <1>4
    <2> QED
      BY <1>2, <2>1
  <1>5. CASE q - p >= 1
    <2>1. c * (q - p) >= c
      BY <1>3, <1>5
    <2> QED
      BY <1>2, <2>1
  <1> QED
    BY <1>3, <1>4, <1>5

(* A deque with something in it has an array, and what is in it lies in it.*)
LEMMA QueuedHasEntry ==
    ASSUME DequesGood, NEW s \in Slots, NEW k \in Queued(s)
    PROVE  /\ deque[s].capacity \in Nat \ {0}
           /\ k \in Nat
           /\ k % deque[s].capacity \in 0 .. deque[s].capacity - 1
  <1>1. /\ deque[s].head \in Nat /\ deque[s].tail \in Nat /\ deque[s].capacity \in Nat
        /\ deque[s].tail - deque[s].head <= deque[s].capacity
    BY DEF DequesGood, DequeGood
  <1>2. k \in Nat /\ deque[s].capacity # 0
    BY <1>1 DEF Queued
  <1>3. PICK c \in Nat \ {0} : c = deque[s].capacity
    BY <1>1, <1>2
  <1>4. k % c \in 0 .. c - 1
    BY <1>2, ModRange
  <1> QED
    BY <1>2, <1>3, <1>4

(* A thread that a step leaves alone carries what it carried.              *)
LEMMA StillCarries ==
    ASSUME NEW u \in Threads, pc'[u] = pc[u], current'[u] = current[u], glance'[u] = glance[u],
           StolenKept
    PROVE  /\ Carries(u)' <=> Carries(u)
           /\ Carries(u) => TaskWith(u)' = TaskWith(u)
  <1>1. CASE pc[u] = "run"
    BY <1>1 DEF Carries, TaskWith
  <1>2. CASE pc[u] = "push"
    BY <1>2 DEF Carries, TaskWith
  <1>3. CASE pc[u] = "take"
    BY <1>3 DEF Carries, TaskWith, StolenKept
  <1>4. CASE pc[u] \notin {"run", "push", "take"}
    BY <1>4 DEF Carries
  <1> QED
    BY <1>1, <1>2, <1>3, <1>4

(* NoTask is no task.                                                      *)
LEMMA LiveTasks ==
    ASSUME WorkTypeOK
    PROVE  /\ \A x \in TaskIds : x \in Live <=> task[x] \in TaskType
           /\ NoTask \notin TaskType
           /\ IsFiniteSet(Live)
           /\ None \notin TaskIds
  <1>1. NoTask \notin TaskType
    <2> SUFFICES ASSUME NoTask \in TaskType PROVE FALSE
      OBVIOUS
    <2>1. NoTask.kind \in {"map", "continuation", "wait"}
      BY DEF TaskType
    <2> QED
      BY <2>1 DEF NoTask
  <1>2. IsFiniteSet(TaskIds)
    BY SchedulerAssumption, FS_Interval DEF TaskIds
  <1>3. Live \subseteq TaskIds
    BY DEF Live
  <1>4. IsFiniteSet(Live)
    BY <1>2, <1>3, FS_Subset
  <1>5. \A x \in TaskIds : x \in Live <=> task[x] \in TaskType
    BY <1>1 DEF WorkTypeOK, Live
  <1>6. None \notin TaskIds
    BY DEF TaskIds, None
  <1> QED
    BY <1>1, <1>4, <1>5, <1>6

(* A task that somebody waits to run is in nobody's hands.                 *)
LEMMA WaitingInNoHands ==
    ASSUME WorkInv, NEW s \in Live, task[s].state = "allocated", task[s].kind # "map",
           NEW t \in Threads
    PROVE  current[t] # s
  <1> SUFFICES ASSUME current[t] = s PROVE FALSE
    OBVIOUS
  <1>1. current[t] # None
    BY LiveTasks DEF WorkInv, Live
  <1>2. pc[t] \in {"run", "free", "push"}
    BY <1>1 DEF WorkInv, HandsGood
  <1>3. CASE pc[t] = "run"
    BY <1>3 DEF WorkInv, Placed, Carries, TaskWith, IsReady
  <1>4. CASE pc[t] = "free"
    BY <1>4 DEF WorkInv, HandsGood
  <1>5. CASE pc[t] = "push"
    BY <1>5 DEF WorkInv, HandsGood
  <1> QED
    BY <1>2, <1>3, <1>4, <1>5

(* Neither is a ready task that is in a deque or being stolen.             *)
LEMMA ReadyInNoHands ==
    ASSUME WorkInv, NEW x, IsReady(x), NEW t \in Threads, current[t] = x
    PROVE  pc[t] = "run"
  <1>1. x \in TaskIds /\ x \in Live /\ task[x].state = "ready"
    BY DEF IsReady
  <1>2. current[t] # None
    BY <1>1, LiveTasks DEF WorkInv
  <1>3. pc[t] \in {"run", "free", "push"}
    BY <1>2 DEF WorkInv, HandsGood
  <1>4. pc[t] # "free"
    BY <1>1 DEF WorkInv, HandsGood
  <1>5. pc[t] # "push"
    BY <1>1 DEF WorkInv, HandsGood
  <1> QED
    BY <1>3, <1>4, <1>5

-----------------------------------------------------------------------------
\* What each step does to them

\* A thread at one of these places has nothing to do with tasks.
Quiet == Places \ {"run", "free", "push", "pop", "cas", "take"}

(* A step that leaves all work alone, by a thread that does none before or *)
(* after it, keeps the invariant.                                          *)
LEMMA WorkUntouched ==
    ASSUME WorkInv, UNCHANGED work,
           \A t \in Threads : \/ pc'[t] = pc[t] /\ slot'[t] = slot[t]
                              \/ pc[t] \in Quiet /\ pc'[t] \in Quiet
    PROVE  WorkInv'
  <1>0. /\ deque' = deque /\ task' = task /\ current' = current /\ glance' = glance
    BY DEF work
  <1>1. \A t \in Threads : \/ pc'[t] = pc[t] /\ slot'[t] = slot[t]
                           \/ /\ pc[t] \notin {"run", "free", "push", "pop", "cas", "take"}
                              /\ pc'[t] \notin {"run", "free", "push", "pop", "cas", "take"}
    BY DEF Quiet
  <1>2. WorkTypeOK' /\ DequesGood'
    BY <1>0 DEF WorkInv, WorkTypeOK, DequesGood
  <1>3. HandsGood'
    BY <1>0, <1>1 DEF WorkInv, HandsGood
  <1>4. GlancesGood'
    BY <1>0, <1>1 DEF WorkInv, GlancesGood, GlanceGood
  <1>5. Live' = Live /\ SuccessorsWait' /\ PredecessorsCounted'
    BY <1>0 DEF WorkInv, Live, SuccessorsWait, PredecessorsCounted, Predecessors
  <1>6. Placed'
    <2>1. \A t \in Threads : Carries(t)' <=> Carries(t)
      BY <1>1 DEF Carries
    <2>2. \A t \in Threads : Carries(t) => TaskWith(t)' = TaskWith(t)
      BY <1>0, <1>1 DEF Carries, TaskWith
    <2>3. \A s \in Slots : Queued(s)' = Queued(s) /\ \A k \in Queued(s) : Entry(s, k)' = Entry(s, k)
      BY <1>0 DEF Queued, Entry
    <2>4. \A x : IsReady(x)' <=> IsReady(x)
      BY <1>0, <1>5 DEF IsReady
    <2> QED
      BY <2>1, <2>2, <2>3, <2>4 DEF WorkInv, Placed
  <1>7. OwnersBusy'
    BY <1>0, <1>1 DEF WorkInv, OwnersBusy
  <1> QED
    BY <1>2, <1>3, <1>4, <1>5, <1>6, <1>7 DEF WorkInv

(* Execute_PreProcess and Execute of a task that has no more to divide.    *)
LEMMA RunKeeps ==
    ASSUME SlotInv, WorkInv, NEW t \in Threads, Run(t)
    PROVE  WorkInv'
  <1> DEFINE x == current[t]
  <1>0. /\ pc[t] = "run" /\ IsReady(x)
        /\ task' = [task EXCEPT ![x].state = "executing"]
        /\ pc' = [pc EXCEPT ![t] = "free"]
        /\ deque' = deque /\ current' = current /\ glance' = glance /\ slot' = slot
    BY DEF Run, GoTo, arena
  <1>1. /\ x \in TaskIds /\ x \in Live /\ task[x] \in TaskType /\ task[x].state = "ready"
    BY <1>0, LiveTasks DEF IsReady, WorkInv
  <1>2. /\ pc'[t] = "free"
        /\ \A u \in Threads \ {t} : pc'[u] = pc[u]
    BY <1>0 DEF SlotInv, SlotTypeOK
  <1>3. /\ task'[x] = [task[x] EXCEPT !.state = "executing"]
        /\ \A y \in TaskIds \ {x} : task'[y] = task[y]
    BY <1>0, <1>1 DEF WorkInv, WorkTypeOK
  <1>4. WorkTypeOK' /\ task'[x] \in TaskType
    BY <1>0, <1>1, <1>3 DEF WorkInv, WorkTypeOK, TaskType
  <1>5. Live' = Live
    <2>1. task'[x] # NoTask
      BY <1>4, LiveTasks DEF WorkInv
    <2> QED
      BY <1>1, <1>3, <2>1 DEF Live
  <1>6. \A y \in Live : /\ task'[y].successor = task[y].successor
                        /\ task'[y].kind = task[y].kind /\ task'[y].preds = task[y].preds
    BY <1>1, <1>3 DEF Live, TaskType
  <1>7. DequesGood'
    BY <1>0 DEF WorkInv, DequesGood
  <1>8. \A u \in Threads \ {t} : current[u] # x
    BY <1>0, <1>1, LiveTasks DEF WorkInv, HandsGood
  <1>9. HandsGood'
    <2>1. task'[x].state = "executing" /\ task'[x] # NoTask
      BY <1>1, <1>3, <1>4, LiveTasks DEF TaskType, WorkInv
    <2>2. \A u \in Threads \ {t} : pc[u] \in {"free", "push"} => task'[current[u]] = task[current[u]]
      BY <1>3, <1>8 DEF WorkInv, HandsGood, WorkTypeOK
    <2>3. \A u \in Threads : pc'[u] = "free" =>
            task'[current'[u]] # NoTask /\ task'[current'[u]].state = "executing"
      BY <1>0, <1>2, <2>1, <2>2 DEF WorkInv, HandsGood
    <2>4. \A u \in Threads : pc'[u] = "push" =>
            /\ task'[current'[u]] # NoTask
            /\ task'[current'[u]].state = "allocated"
            /\ task'[current'[u]].kind = "map"
            /\ deque'[slot'[u]].tail - deque'[slot'[u]].head < deque'[slot'[u]].capacity
      BY <1>0, <1>2, <2>2 DEF WorkInv, HandsGood
    <2>5. \A u \in Threads : pc'[u] \in {"run", "free", "push"} <=> current'[u] # None
      BY <1>0, <1>2 DEF WorkInv, HandsGood
    <2>6. \A u, v \in Threads : current'[u] # None /\ current'[u] = current'[v] => u = v
      BY <1>0 DEF WorkInv, HandsGood
    <2> QED
      BY <2>3, <2>4, <2>5, <2>6 DEF HandsGood
  <1>10. GlancesGood'
    BY <1>0, <1>2 DEF WorkInv, GlancesGood, GlanceGood
  <1>11. SuccessorsWait'
    BY <1>1, <1>3, <1>5, <1>6 DEF WorkInv, SuccessorsWait, Live
  <1>12. PredecessorsCounted'
    <2>1. \A y \in Live : Predecessors(y)' = Predecessors(y)
      BY <1>5, <1>6 DEF Predecessors
    <2> QED
      BY <1>5, <1>6, <2>1 DEF WorkInv, PredecessorsCounted
  <1>13. Placed'
    <2>1. \A u \in Threads \ {t} : /\ Carries(u)' <=> Carries(u)
                                   /\ Carries(u) => TaskWith(u)' = TaskWith(u)
      BY <1>0, <1>2 DEF Carries, TaskWith
    <2>2. ~Carries(t)' /\ Carries(t) /\ TaskWith(t) = x
      BY <1>0, <1>2 DEF Carries, TaskWith
    <2>3. \A s \in Slots : Queued(s)' = Queued(s) /\ \A k \in Queued(s) : Entry(s, k)' = Entry(s, k)
      BY <1>0 DEF Queued, Entry
    <2>4. \A y : IsReady(y)' <=> IsReady(y) /\ y # x
      BY <1>1, <1>3, <1>5 DEF IsReady, TaskType, Live
    <2> QED
      BY <2>1, <2>2, <2>3, <2>4 DEF WorkInv, Placed
  <1>14. OwnersBusy'
    BY <1>0, <1>2 DEF WorkInv, OwnersBusy
  <1> QED
    BY <1>4, <1>7, <1>9, <1>10, <1>11, <1>12, <1>13, <1>14 DEF WorkInv

(* FreeAndTestSuccessor: the successor counts one predecessor less, and    *)
(* goes on with the thread when that was the last.                         *)
LEMMA FreeKeeps ==
    ASSUME SlotInv, WorkInv, NEW t \in Threads, Free(t)
    PROVE  WorkInv'
  <1> SUFFICES ASSUME NEW x, x = current[t], NEW s, s = task[x].successor
               PROVE  WorkInv'
    OBVIOUS
  <1> DEFINE last == s # None /\ task[s].preds = 1
  <1>0. /\ pc[t] = "free"
        /\ task' = FreeAndTest(x)
        /\ current' = [current EXCEPT ![t] = IF last THEN s ELSE None]
        /\ pc' = [pc EXCEPT ![t] = IF last THEN "run" ELSE "pop"]
        /\ deque' = deque /\ glance' = glance /\ slot' = slot
    BY DEF Free, GoTo, arena
  <1>1. /\ x \in TaskIds /\ x \in Live /\ task[x] \in TaskType /\ task[x].state = "executing"
        /\ s \in TaskIds \cup {None}
    <2>1. x # None /\ task[x] # NoTask /\ task[x].state = "executing"
      BY <1>0 DEF WorkInv, HandsGood
    <2>2. x \in TaskIds
      BY <2>1 DEF WorkInv, WorkTypeOK
    <2>3. x \in Live
      BY <2>1, <2>2 DEF Live
    <2>4. task[x] \in TaskType
      BY <2>2, <2>3, LiveTasks DEF WorkInv
    <2> QED
      BY <2>1, <2>2, <2>3, <2>4 DEF TaskType
  <1>2. /\ pc'[t] = IF last THEN "run" ELSE "pop"
        /\ current'[t] = IF last THEN s ELSE None
        /\ \A u \in Threads \ {t} : pc'[u] = pc[u] /\ current'[u] = current[u]
    BY <1>0 DEF SlotInv, SlotTypeOK, WorkInv, WorkTypeOK
  <1>3. s # None => /\ s \in Live /\ s \in TaskIds /\ s # x /\ task[s] \in TaskType
                    /\ task[s].kind # "map" /\ task[s].state = "allocated"
    <2> SUFFICES ASSUME s # None
                 PROVE  /\ s \in Live /\ s \in TaskIds /\ s # x /\ task[s] \in TaskType
                        /\ task[s].kind # "map" /\ task[s].state = "allocated"
      OBVIOUS
    <2>1. s \in Live /\ task[s].kind # "map" /\ task[s].state = "allocated"
      BY <1>1 DEF WorkInv, SuccessorsWait
    <2>2. s \in TaskIds
      BY <2>1 DEF Live
    <2> QED
      BY <1>1, <2>1, <2>2, LiveTasks DEF WorkInv
  <1>4. /\ task'[x] = NoTask
        /\ \A y \in TaskIds \ {x, s} : task'[y] = task[y]
        /\ s # None =>
             task'[s] = [task[s] EXCEPT !.preds = task[s].preds - 1,
                                        !.state = IF last THEN "ready" ELSE task[s].state]
    <2>0. task = [y \in TaskIds |-> task[y]]
      BY DEF WorkInv, WorkTypeOK
    <2>1. CASE s = None
      <3>1. task' = [task EXCEPT ![x] = NoTask]
        BY <1>0, <2>1 DEF FreeAndTest
      <3> QED
        BY <1>1, <2>0, <2>1, <3>1
    <2>2. CASE s # None
      <3>1. task' = [[task EXCEPT ![x] = NoTask] EXCEPT
                        ![s].preds = task[s].preds - 1,
                        ![s].state = IF task[s].preds = 1 THEN "ready" ELSE task[s].state]
        BY <1>0, <2>2 DEF FreeAndTest
      <3> QED
        BY <1>1, <1>3, <2>0, <2>2, <3>1
    <2> QED
      BY <2>1, <2>2
  <1>5. s # None => /\ task'[s] \in TaskType /\ task'[s].kind = task[s].kind
                    /\ task'[s].successor = task[s].successor
                    /\ task'[s].preds = task[s].preds - 1
                    /\ task'[s].state = IF last THEN "ready" ELSE "allocated"
    <2> SUFFICES ASSUME s # None
                 PROVE  /\ task'[s] \in TaskType /\ task'[s].kind = task[s].kind
                        /\ task'[s].successor = task[s].successor
                        /\ task'[s].preds = task[s].preds - 1
                        /\ task'[s].state = IF last THEN "ready" ELSE "allocated"
      OBVIOUS
    <2>1. PICK state \in {"ready", "allocated"} : state = IF last THEN "ready" ELSE "allocated"
      OBVIOUS
    <2>2. task'[s] = [task[s] EXCEPT !.preds = task[s].preds - 1, !.state = state]
      BY <1>3, <1>4, <2>1
    <2>3. task[s] \in TaskType
      BY <1>3
    <2>4. /\ task'[s] \in TaskType /\ task'[s].kind = task[s].kind
          /\ task'[s].successor = task[s].successor
          /\ task'[s].preds = task[s].preds - 1
          /\ task'[s].state = state
      <3>1. PICK r \in TaskType : r = task[s]
        BY <2>3
      <3>2. PICK preds \in Int : preds = r.preds - 1
        BY <3>1 DEF TaskType
      <3>3. task'[s] = [r EXCEPT !.preds = preds, !.state = state]
        BY <2>2, <3>1, <3>2
      <3>4. state \in {"allocated", "ready", "executing"}
        BY <2>1
      <3>5. /\ task'[s] \in TaskType
            /\ task'[s].kind = r.kind /\ task'[s].successor = r.successor
            /\ task'[s].preds = preds /\ task'[s].state = state
        <4>1. PICK q : q = task'[s]
          OBVIOUS
        <4>2. q = [r EXCEPT !.preds = preds, !.state = state]
          BY <3>3, <4>1
        <4>3. /\ q \in TaskType
              /\ q.kind = r.kind /\ q.successor = r.successor
              /\ q.preds = preds /\ q.state = state
          BY <3>4, <4>2 DEF TaskType
        <4> QED
          BY <4>1, <4>3
      <3> QED
        BY <3>1, <3>2, <3>5
    <2> QED
      BY <2>1, <2>4
  <1>6. WorkTypeOK'
    <2>1. \A y \in TaskIds : task'[y] \in TaskType \cup {NoTask}
      <3> SUFFICES ASSUME NEW y \in TaskIds PROVE task'[y] \in TaskType \cup {NoTask}
        OBVIOUS
      <3>1. CASE y = x
        BY <1>4, <3>1
      <3>2. CASE y = s
        BY <1>5, <3>2, LiveTasks DEF WorkInv
      <3>3. CASE y # x /\ y # s
        BY <1>4, <3>3 DEF WorkInv, WorkTypeOK
      <3> QED
        BY <3>1, <3>2, <3>3
    <2>2. task' = [y \in TaskIds |-> task'[y]]
      BY <1>0 DEF FreeAndTest, WorkInv, WorkTypeOK
    <2>3. current' \in [Threads -> TaskIds \cup {None}]
      BY <1>0, <1>3 DEF WorkInv, WorkTypeOK
    <2> QED
      BY <1>0, <2>1, <2>2, <2>3 DEF WorkInv, WorkTypeOK
  <1>7. Live' = Live \ {x}
    <2>1. s # None => task'[s] # NoTask
      BY <1>5, LiveTasks DEF WorkInv
    <2>2. \A y \in TaskIds : y \in Live' <=> y \in Live /\ y # x
      <3> SUFFICES ASSUME NEW y \in TaskIds PROVE y \in Live' <=> y \in Live /\ y # x
        OBVIOUS
      <3>1. CASE y = x
        BY <1>4, <3>1 DEF Live
      <3>2. CASE y = s /\ y # x
        BY <1>3, <2>1, <3>2, LiveTasks DEF WorkInv, Live
      <3>3. CASE y # x /\ y # s
        BY <1>4, <3>3 DEF Live
      <3> QED
        BY <3>1, <3>2, <3>3
    <2> QED
      BY <2>2 DEF Live
  <1>8. \A y \in Live \ {x} : /\ task'[y].successor = task[y].successor
                              /\ task'[y].kind = task[y].kind
                              /\ y # s => task'[y] = task[y]
    <2> SUFFICES ASSUME NEW y \in Live \ {x}
                 PROVE  /\ task'[y].successor = task[y].successor
                        /\ task'[y].kind = task[y].kind
                        /\ y # s => task'[y] = task[y]
      OBVIOUS
    <2>1. y \in TaskIds /\ y # None
      BY LiveTasks DEF WorkInv, Live
    <2>2. CASE y = s
      BY <1>5, <2>1, <2>2
    <2>3. CASE y # s
      BY <1>4, <2>1, <2>3
    <2> QED
      BY <2>2, <2>3
  <1>9. \A y \in Live \ {x} : y # s => Predecessors(y)' = Predecessors(y)
    BY <1>1, <1>7, <1>8 DEF Predecessors
  <1>10. s # None => /\ Predecessors(s)' = Predecessors(s) \ {x}
                     /\ x \in Predecessors(s)
                     /\ IsFiniteSet(Predecessors(s))
                     /\ Cardinality(Predecessors(s)') = task[s].preds - 1
                     /\ last => Predecessors(s)' = {}
    <2> SUFFICES ASSUME s # None
                 PROVE  /\ Predecessors(s)' = Predecessors(s) \ {x}
                        /\ x \in Predecessors(s)
                        /\ IsFiniteSet(Predecessors(s))
                        /\ Cardinality(Predecessors(s)') = task[s].preds - 1
                        /\ last => Predecessors(s)' = {}
      OBVIOUS
    <2>1. Predecessors(s)' = Predecessors(s) \ {x} /\ x \in Predecessors(s)
      BY <1>1, <1>7, <1>8 DEF Predecessors
    <2>2. IsFiniteSet(Predecessors(s))
      <3>1. IsFiniteSet(Live)
        BY LiveTasks DEF WorkInv
      <3> QED
        BY <3>1, FS_Subset DEF Predecessors
    <2>3. /\ IsFiniteSet(Predecessors(s) \ {x})
          /\ Cardinality(Predecessors(s) \ {x}) = Cardinality(Predecessors(s)) - 1
      BY <2>1, <2>2, FS_RemoveElement
    <2>4. Cardinality(Predecessors(s)) = task[s].preds
      BY <1>3 DEF WorkInv, PredecessorsCounted
    <2>5. last => Predecessors(s) \ {x} = {}
      BY <2>3, <2>4, FS_EmptySet
    <2> QED
      BY <2>1, <2>2, <2>3, <2>4, <2>5

<1>11. PredecessorsCounted'
    <2>1. ASSUME NEW y \in Live', y # s PROVE task'[y].preds = Cardinality(Predecessors(y)')
      BY <1>7, <1>8, <1>9, <2>1 DEF WorkInv, PredecessorsCounted
    <2>2. s # None => task'[s].preds = Cardinality(Predecessors(s)')
      BY <1>5, <1>10
    <2>3. s = None => s \notin Live'
      BY LiveTasks DEF WorkInv, Live
    <2>4. ASSUME NEW y \in Live' PROVE task'[y].preds = Cardinality(Predecessors(y)')
      BY <2>1, <2>2, <2>3
    <2> QED
      BY <2>4 DEF PredecessorsCounted
  <1>12. SuccessorsWait'
    <2> SUFFICES ASSUME NEW y \in Live', task'[y].successor # None
                 PROVE  LET r == task'[y].successor
                        IN  r \in Live' /\ task'[r].kind # "map" /\ task'[r].state = "allocated"
      BY DEF SuccessorsWait
    <2>1. y \in Live \ {x} /\ task'[y].successor = task[y].successor
      BY <1>7, <1>8
    <2>2. PICK r : r = task[y].successor
      OBVIOUS
    <2>3. /\ r \in Live /\ task[r].kind # "map" /\ task[r].state = "allocated"
          /\ r # x
      BY <1>1, <2>1, <2>2 DEF WorkInv, SuccessorsWait
    <2>4. CASE r # s
      BY <1>7, <1>8, <2>1, <2>2, <2>3, <2>4
    <2>5. CASE r = s
      <3>1. s # None
        BY <2>1, <2>2, <2>5
      <3>2. y \in Predecessors(s)'
        BY <2>1, <2>2, <2>5, <1>7 DEF Predecessors
      <3>3. ~last
        BY <1>10, <3>1, <3>2
      <3>4. task'[s].state = "allocated" /\ task'[s].kind # "map"
        BY <1>3, <1>5, <3>1, <3>3
      <3> QED
        BY <1>7, <2>1, <2>2, <2>3, <2>5, <3>4
    <2> QED
      BY <2>4, <2>5
  <1>13. DequesGood'
    BY <1>0 DEF WorkInv, DequesGood
  <1>14. GlancesGood'
    BY <1>0, <1>2 DEF WorkInv, GlancesGood, GlanceGood
  <1>15. \A u \in Threads \ {t} : current[u] # x /\ (s # None => current[u] # s)
    BY <1>1, <1>3, LiveTasks, WaitingInNoHands DEF WorkInv, HandsGood
  <1>16. HandsGood'
    <2>1. ASSUME NEW u \in Threads \ {t}, pc[u] \in {"free", "push"}
          PROVE  task'[current[u]] = task[current[u]]
      <3>1. current[u] \in TaskIds
        BY <2>1 DEF WorkInv, HandsGood, WorkTypeOK
      <3> QED
        BY <1>3, <1>4, <1>15, <3>1, LiveTasks DEF WorkInv
    <2>2. \A u \in Threads : pc'[u] = "free" =>
            task'[current'[u]] # NoTask /\ task'[current'[u]].state = "executing"
      BY <1>2, <2>1 DEF WorkInv, HandsGood
    <2>3. \A u \in Threads : pc'[u] = "push" =>
            /\ task'[current'[u]] # NoTask
            /\ task'[current'[u]].state = "allocated"
            /\ task'[current'[u]].kind = "map"
            /\ deque'[slot'[u]].tail - deque'[slot'[u]].head < deque'[slot'[u]].capacity
      BY <1>0, <1>2, <2>1 DEF WorkInv, HandsGood
    <2>4. \A u \in Threads : pc'[u] \in {"run", "free", "push"} <=> current'[u] # None
      BY <1>2 DEF WorkInv, HandsGood
    <2>5. \A u, v \in Threads : current'[u] # None /\ current'[u] = current'[v] => u = v
      BY <1>2, <1>15 DEF WorkInv, HandsGood
    <2> QED
      BY <2>2, <2>3, <2>4, <2>5 DEF HandsGood
  <1>17. Placed'
    <2>1. \A u \in Threads \ {t} : /\ Carries(u)' <=> Carries(u)
                                   /\ Carries(u) => TaskWith(u)' = TaskWith(u)
      BY <1>0, <1>2 DEF Carries, TaskWith
    <2>2. /\ ~Carries(t)
          /\ Carries(t)' <=> last
          /\ last => TaskWith(t)' = s
      BY <1>0, <1>2 DEF Carries, TaskWith
    <2>3. \A r \in Slots : Queued(r)' = Queued(r) /\ \A k \in Queued(r) : Entry(r, k)' = Entry(r, k)
      BY <1>0 DEF Queued, Entry
    <2>4. /\ \A y : y # s => (IsReady(y)' <=> IsReady(y))
          /\ IsReady(s)' <=> last
      <3>1. ASSUME NEW y, y # s PROVE IsReady(y)' <=> IsReady(y)
        BY <1>1, <1>7, <1>8, <3>1 DEF IsReady, Live
      <3>2. IsReady(s)' <=> last
        BY <1>3, <1>5, <1>7, LiveTasks DEF IsReady, WorkInv
      <3> QED
        BY <3>1, <3>2
    <2>5. ~IsReady(s)
      BY <1>3, LiveTasks DEF IsReady, WorkInv
    <2>6. CASE last
      BY <2>1, <2>2, <2>3, <2>4, <2>5, <2>6 DEF WorkInv, Placed
    <2>7. CASE ~last
      BY <2>1, <2>2, <2>3, <2>4, <2>5, <2>7 DEF WorkInv, Placed
    <2> QED
      BY <2>6, <2>7
  <1>18. OwnersBusy'
    BY <1>0, <1>2 DEF WorkInv, OwnersBusy
  <1> QED
    BY <1>6, <1>11, <1>12, <1>13, <1>14, <1>16, <1>17, <1>18 DEF WorkInv

(* Two new tasks have addresses of their own.                              *)
LEMMA FreshTasks ==
    ASSUME TwoAreFree
    PROVE  /\ FirstFresh \in TaskIds \ Live /\ SecondFresh \in TaskIds \ Live
           /\ FirstFresh # SecondFresh
  <1>1. PICK x \in TaskIds, y \in TaskIds : x \notin Live /\ y \notin Live /\ x # y
    BY DEF TwoAreFree
  <1>2. FirstFresh \in TaskIds \ Live
    BY <1>1 DEF FirstFresh, Fresh
  <1>3. \E z \in TaskIds : z \notin Live \cup {FirstFresh}
    BY <1>1
  <1>4. SecondFresh \in TaskIds /\ SecondFresh \notin Live \cup {FirstFresh}
    BY <1>3 DEF SecondFresh, Fresh
  <1> QED
    BY <1>2, <1>4

(* A crowded deque that keeps its array had none: it is empty, and the new *)
(* one has room.                                                           *)
LEMMA RoomMade ==
    ASSUME DequesGood, NEW s \in Slots, MayGrow(deque[s]), deque'[s] = MakeRoom(deque[s]),
           ArraysKept
    PROVE  /\ DequeGood(deque'[s])
           /\ deque'[s].head = deque[s].head /\ deque'[s].tail = deque[s].tail
           /\ deque'[s].tail - deque'[s].head < deque'[s].capacity
           /\ deque'[s] = deque[s] \/ (deque[s].capacity = 0 /\ deque[s].head = deque[s].tail)
  <1> SUFFICES ASSUME NEW d, d = deque[s], NEW new, new = deque'[s]
               PROVE  /\ DequeGood(new)
                      /\ new.head = d.head /\ new.tail = d.tail
                      /\ new.tail - new.head < new.capacity
                      /\ new = d \/ (d.capacity = 0 /\ d.head = d.tail)
    OBVIOUS
  <1>1. DequeGood(d)
    BY DEF DequesGood
  <1>2. CASE ~IsCrowded(d)
    <2>1. new = d
      BY <1>2 DEF MakeRoom
    <2>2. d.tail - d.head < d.capacity
      BY <1>1, <1>2 DEF IsCrowded, DequeGood
    <2>3. DequeGood(new)
      BY <1>1, <2>1
    <2> QED
      BY <1>1, <2>1, <2>2, <2>3 DEF DequeGood
  <1>3. CASE IsCrowded(d)
    <2>1. new = Grow(d)
      BY <1>3 DEF MakeRoom
    <2>2. PICK c : /\ c = IF d.capacity = 0 THEN FirstCapacity ELSE 2 * d.capacity
                   /\ new = [d EXCEPT
                          !.capacity = c,
                          !.entry = [k \in 0 .. c - 1 |->
                             IF k < d.capacity /\ k \notin Clobbered(d) THEN d.entry[k] ELSE Garbage]]
      BY <2>1 DEF Grow
    <2>3. PICK e : e = [k \in 0 .. c - 1 |->
                             IF k < d.capacity /\ k \notin Clobbered(d) THEN d.entry[k] ELSE Garbage]
      OBVIOUS
    <2>4. new = [head |-> d.head, tail |-> d.tail, capacity |-> c, entry |-> e]
      BY <1>1, <2>2, <2>3 DEF DequeGood
    <2>5. c # d.capacity \/ d.capacity = 0
      BY <1>1, <2>2 DEF DequeGood
    <2>6. d.capacity = 0
      BY <2>4, <2>5 DEF ArraysKept
    <2>7. d.head = d.tail /\ c \in Nat \ {0}
      BY <1>1, <2>2, <2>6, CapacityAssumption DEF DequeGood
    <2>8. e = [k \in 0 .. c - 1 |-> e[k]]
      BY <2>3
    <2>9. DequeGood(new)
      BY <1>1, <2>4, <2>7, <2>8 DEF DequeGood
    <2> QED
      BY <1>1, <2>4, <2>6, <2>7, <2>9 DEF DequeGood
  <1> QED
    BY <1>2, <1>3

(* A task that divides: its right half is new and ready, and both halves   *)
(* have a new successor in its place.                                      *)
LEMMA DivideKeeps ==
    ASSUME SlotInv, WorkInv, EntriesKept, NEW t \in Threads, Divide(t)
    PROVE  WorkInv'
  <1> SUFFICES ASSUME NEW x, x = current[t], NEW s, s = task[x].successor,
                      NEW join, join = FirstFresh, NEW right, right = SecondFresh,
                      NEW a, a = slot[t]
               PROVE  WorkInv'
    OBVIOUS
  <1>0. /\ pc[t] = "run" /\ IsReady(x) /\ ~IsLeaf(x) /\ MayGrow(deque[a]) /\ TwoAreFree
        /\ task' = Split(x)
        /\ deque' = [deque EXCEPT ![a] = MakeRoom(@)]
        /\ glance' = [glance EXCEPT ![t].index = right]
        /\ pc' = [pc EXCEPT ![t] = "push"]
        /\ current' = current /\ slot' = slot
    BY DEF Divide, GoTo, arena
  <1>1. /\ x \in TaskIds /\ x \in Live /\ task[x] \in TaskType /\ task[x].state = "ready"
        /\ task[x].kind = "map" /\ s \in TaskIds \cup {None}
    <2>1. x \in TaskIds /\ x \in Live /\ task[x].state = "ready" /\ task[x].kind = "map"
      BY <1>0 DEF IsReady, IsLeaf
    <2> QED
      BY <2>1, LiveTasks DEF WorkInv, TaskType
  <1>2. /\ join \in TaskIds \ Live /\ right \in TaskIds \ Live /\ join # right
        /\ join # x /\ right # x
    BY <1>0, <1>1, FreshTasks
  <1>3. a \in Slots
    <2>1. pc[t] \notin Outside /\ pc[t] # "out"
      BY <1>0 DEF Outside
    <2> QED
      BY <2>1, Inside
  <1>4. /\ pc'[t] = "push" /\ \A u \in Threads \ {t} : pc'[u] = pc[u]
        /\ glance'[t] = [glance[t] EXCEPT !.index = right]
        /\ \A u \in Threads \ {t} : glance'[u] = glance[u]
    BY <1>0 DEF SlotInv, SlotTypeOK, WorkInv, WorkTypeOK
  <1>5. PICK middle \in Int :
          /\ task'[join] = JoinTask("continuation", s, Halves)
          /\ task'[right] = MapTask(middle, task[x].hi, join, "ready")
          /\ task'[x] = MapTask(task[x].lo, middle, join, "allocated")
          /\ \A y \in TaskIds \ {x, join, right} : task'[y] = task[y]
          /\ task' = [y \in TaskIds |-> task'[y]]
    <2>1. PICK middle : middle = task[x].lo + (task[x].hi - task[x].lo) \div 2
      OBVIOUS
    <2>2. middle \in Int
      BY <1>1, <2>1 DEF TaskType
    <2>3. task' = [task EXCEPT ![join] = JoinTask("continuation", s, Halves),
                               ![right] = MapTask(middle, task[x].hi, join, "ready"),
                               ![x] = MapTask(task[x].lo, middle, join, "allocated")]
      BY <1>0, <2>1 DEF Split
    <2> QED
      BY <1>1, <1>2, <2>2, <2>3 DEF WorkInv, WorkTypeOK
  <1>6. /\ task'[join] \in TaskType /\ task'[right] \in TaskType /\ task'[x] \in TaskType
        /\ task'[join].successor = s /\ task'[right].successor = join /\ task'[x].successor = join
        /\ task'[join].kind = "continuation" /\ task'[right].kind = "map" /\ task'[x].kind = "map"
        /\ task'[join].preds = 2 /\ task'[right].preds = 0 /\ task'[x].preds = 0
        /\ task'[join].state = "allocated" /\ task'[right].state = "ready"
        /\ task'[x].state = "allocated"
    BY <1>1, <1>2, <1>5 DEF TaskType, JoinTask, MapTask, Halves
  <1>7. WorkTypeOK'
    <2>1. \A y \in TaskIds : task'[y] \in TaskType \cup {NoTask}
      BY <1>5, <1>6 DEF WorkInv, WorkTypeOK
    <2>2. glance' \in [Threads -> GlanceType]
      <3>1. glance[t] \in GlanceType /\ right \in Int
        BY <1>2 DEF WorkInv, WorkTypeOK, TaskIds
      <3>2. [glance[t] EXCEPT !.index = right] \in GlanceType
        BY <3>1 DEF GlanceType
      <3>3. glance' = [glance EXCEPT ![t] = [glance[t] EXCEPT !.index = right]]
        BY <1>0
      <3> QED
        BY <3>2, <3>3 DEF WorkInv, WorkTypeOK
    <2>3. deque' = [r \in Slots |-> deque'[r]]
      BY <1>0 DEF WorkInv, WorkTypeOK
    <2> QED
      BY <1>0, <1>5, <2>1, <2>2, <2>3 DEF WorkInv, WorkTypeOK
  <1>8. Live' = Live \cup {join, right}
    <2>1. task'[join] # NoTask /\ task'[right] # NoTask /\ task'[x] # NoTask
      BY <1>6, LiveTasks DEF WorkInv
    <2>2. ASSUME NEW y \in TaskIds PROVE y \in Live' <=> y \in Live \cup {join, right}
      <3>1. CASE y \in {x, join, right}
        BY <1>1, <2>1, <3>1 DEF Live
      <3>2. CASE y \notin {x, join, right}
        BY <1>5, <3>2 DEF Live
      <3> QED
        BY <3>1, <3>2
    <2> QED
      BY <1>2, <2>2 DEF Live
  <1>9. \A y \in Live : y # x => y # join /\ y # right /\ task'[y] = task[y] /\ y \in TaskIds
    BY <1>2, <1>5 DEF Live
  <1>10. \A y \in Live : task[y].successor # None => task[y].successor \in Live \ {x}
    BY <1>1 DEF WorkInv, SuccessorsWait

<1>11. SuccessorsWait'
    <2> SUFFICES ASSUME NEW y \in Live', NEW r, r = task'[y].successor, r # None
                 PROVE  r \in Live' /\ task'[r].kind # "map" /\ task'[r].state = "allocated"
      BY DEF SuccessorsWait
    <2>1. ASSUME r \in Live, task[r].kind # "map", task[r].state = "allocated"
          PROVE  r \in Live' /\ task'[r].kind # "map" /\ task'[r].state = "allocated"
      BY <1>1, <1>8, <1>9, <2>1
    <2>2. CASE y \in {x, right}
      BY <1>6, <1>8, <2>2
    <2>3. CASE y = join
      BY <1>1, <1>6, <2>1, <2>3 DEF WorkInv, SuccessorsWait
    <2>4. CASE y \notin {x, join, right}
      <3>1. y \in Live /\ r = task[y].successor
        BY <1>8, <1>9, <2>4
      <3> QED
        BY <2>1, <3>1 DEF WorkInv, SuccessorsWait
    <2> QED
      BY <2>2, <2>3, <2>4
  <1>12. PredecessorsCounted'
    <2>0. /\ x # s /\ join # s /\ right # s
          /\ \A y \in Live : task[y].successor # join /\ task[y].successor # right
          /\ \A y \in Live : task[y].successor # x
          /\ s # None => s \in Live
      BY <1>1, <1>2, <1>10, LiveTasks DEF WorkInv
    <2>1. Predecessors(join)' = {x, right}
      BY <1>1, <1>6, <1>8, <1>9, <2>0 DEF Predecessors
    <2>2. Predecessors(right)' = {} /\ Predecessors(x)' = {}
      BY <1>1, <1>2, <1>6, <1>8, <1>9, <2>0 DEF Predecessors
    <2>3. ASSUME NEW y \in Live, y # x, y # s PROVE Predecessors(y)' = Predecessors(y)
      BY <1>1, <1>2, <1>6, <1>8, <1>9, <2>0, <2>3 DEF Predecessors
    <2>4. ASSUME s # None PROVE Cardinality(Predecessors(s)') = task'[s].preds
      <3>1. Predecessors(s)' = (Predecessors(s) \ {x}) \cup {join}
        BY <1>1, <1>2, <1>6, <1>8, <1>9, <2>0 DEF Predecessors
      <3>2. IsFiniteSet(Predecessors(s)) /\ x \in Predecessors(s) /\ join \notin Predecessors(s)
        <4>1. IsFiniteSet(Live)
          BY LiveTasks DEF WorkInv
        <4> QED
          BY <1>1, <1>2, <4>1, FS_Subset DEF Predecessors
      <3>3. /\ IsFiniteSet(Predecessors(s) \ {x})
            /\ Cardinality(Predecessors(s) \ {x}) = Cardinality(Predecessors(s)) - 1
        BY <3>2, FS_RemoveElement
      <3>4. Cardinality(Predecessors(s)') = Cardinality(Predecessors(s) \ {x}) + 1
        BY <3>1, <3>2, <3>3, FS_AddElement, ZenonT(60)
      <3>5. Cardinality(Predecessors(s)) \in Nat
        BY <3>2, FS_CardinalityType
      <3>6. task'[s].preds = Cardinality(Predecessors(s))
        BY <1>9, <2>0, <2>4 DEF WorkInv, PredecessorsCounted
      <3> QED
        BY <3>3, <3>4, <3>5, <3>6
    <2>5. Cardinality({x, right}) = 2
      <3>1. IsFiniteSet({x}) /\ Cardinality({x}) = 1
        BY FS_Singleton
      <3>2. Cardinality({x} \cup {right}) = Cardinality({x}) + 1
        BY <1>2, <3>1, FS_AddElement
      <3>3. {x, right} = {x} \cup {right}
        OBVIOUS
      <3> QED
        BY <3>1, <3>2, <3>3
    <2>6. Cardinality({}) = 0
      BY FS_EmptySet
    <2>7. ASSUME NEW y \in Live' PROVE task'[y].preds = Cardinality(Predecessors(y)')
      <3>1. CASE y = join
        BY <1>6, <2>1, <2>5, <3>1
      <3>2. CASE y \in {x, right}
        BY <1>6, <2>2, <2>6, <3>2
      <3>3. CASE y = s
        BY <1>8, <1>2, <2>4, <3>3, LiveTasks DEF WorkInv, Live
      <3>4. CASE y \notin {x, join, right, s}
        BY <1>8, <1>9, <2>3, <3>4 DEF WorkInv, PredecessorsCounted
      <3> QED
        BY <3>1, <3>2, <3>3, <3>4
    <2> QED
      BY <2>7 DEF PredecessorsCounted
  <1>13. deque'[a] = MakeRoom(deque[a]) /\ \A r \in Slots \ {a} : deque'[r] = deque[r]
    BY <1>0, <1>3 DEF WorkInv, WorkTypeOK
  <1>14. /\ DequeGood(deque'[a])
         /\ deque'[a].head = deque[a].head /\ deque'[a].tail = deque[a].tail
         /\ deque'[a].tail - deque'[a].head < deque'[a].capacity
         /\ deque'[a] = deque[a] \/ (deque[a].capacity = 0 /\ deque[a].head = deque[a].tail)
    BY <1>0, <1>3, <1>13, RoomMade DEF WorkInv, EntriesKept
  <1>15. DequesGood'
    BY <1>13, <1>14 DEF WorkInv, DequesGood
  <1>16. GlancesGood'
    <2> SUFFICES ASSUME NEW u \in Threads PROVE GlanceGood(u)'
      BY DEF GlancesGood
    <2>1. CASE u = t
      BY <1>4, <2>1 DEF GlanceGood
    <2>2. CASE u # t
      <3>1. GlanceGood(u) /\ glance'[u] = glance[u] /\ pc'[u] = pc[u] /\ glance[u].victim \in Slots
        BY <1>4, <2>2 DEF WorkInv, GlancesGood, WorkTypeOK, GlanceType
      <3>2. CASE deque'[glance[u].victim] = deque[glance[u].victim]
        BY <3>1, <3>2 DEF GlanceGood
      <3>3. CASE glance[u].victim = a /\ deque[a].capacity = 0
        <4>1. pc[u] # "cas" /\ pc[u] # "take"
          BY <3>1, <3>3 DEF GlanceGood
        <4> QED
          BY <3>1, <4>1 DEF GlanceGood
      <3> QED
        BY <1>13, <1>14, <3>1, <3>2, <3>3
    <2> QED
      BY <2>1, <2>2
  <1>17. HandsGood'
    <2>1. \A u \in Threads \ {t} : current[u] # x
      BY <1>0, <1>1, LiveTasks DEF WorkInv, HandsGood
    <2>2. ASSUME NEW u \in Threads \ {t}, pc[u] \in {"free", "push"}
          PROVE  task'[current[u]] = task[current[u]]
      <3>1. current[u] \in Live
        BY <2>2 DEF WorkInv, HandsGood, WorkTypeOK, Live
      <3> QED
        BY <1>9, <2>1, <3>1
    <2>3. \A u \in Threads : pc'[u] = "free" =>
            task'[current'[u]] # NoTask /\ task'[current'[u]].state = "executing"
      BY <1>0, <1>4, <2>2 DEF WorkInv, HandsGood
    <2>4. ASSUME NEW u \in Threads, pc'[u] = "push"
          PROVE  /\ task'[current'[u]] # NoTask
                 /\ task'[current'[u]].state = "allocated"
                 /\ task'[current'[u]].kind = "map"
                 /\ deque'[slot'[u]].tail - deque'[slot'[u]].head < deque'[slot'[u]].capacity
      <3>1. CASE u = t
        BY <1>0, <1>6, <1>14, <3>1, LiveTasks DEF WorkInv
      <3>2. CASE u # t
        <4>1. pc[u] = "push" /\ task'[current[u]] = task[current[u]]
          BY <1>4, <2>2, <2>4, <3>2
        <4>2. slot[u] # a /\ slot[u] \in Slots
          <5>1. pc[u] \notin Outside /\ pc[u] # "out" /\ pc[t] \notin Outside /\ pc[t] # "out"
            BY <1>0, <4>1 DEF Outside
          <5> QED
            BY <3>2, <5>1, Inside
        <4> QED
          BY <1>0, <1>13, <4>1, <4>2 DEF WorkInv, HandsGood
      <3> QED
        BY <3>1, <3>2
    <2>5. \A u \in Threads : pc'[u] \in {"run", "free", "push"} <=> current'[u] # None
      BY <1>0, <1>4 DEF WorkInv, HandsGood
    <2>6. \A u, v \in Threads : current'[u] # None /\ current'[u] = current'[v] => u = v
      BY <1>0 DEF WorkInv, HandsGood
    <2> QED
      BY <2>3, <2>4, <2>5, <2>6 DEF HandsGood
  <1>18. Placed'
    <2>1. \A u \in Threads \ {t} : /\ Carries(u)' <=> Carries(u)
                                   /\ Carries(u) => TaskWith(u)' = TaskWith(u)
      BY <1>0, <1>4, StillCarries DEF EntriesKept
    <2>2. Carries(t) /\ TaskWith(t) = x /\ Carries(t)' /\ TaskWith(t)' = right
      <3>1. glance'[t].index = right
        BY <1>4 DEF WorkInv, WorkTypeOK, GlanceType
      <3> QED
        BY <1>0, <1>4, <3>1 DEF Carries, TaskWith
    <2>3. \A r \in Slots : Queued(r)' = Queued(r) /\ \A k \in Queued(r) : Entry(r, k)' = Entry(r, k)
      <3> SUFFICES ASSUME NEW r \in Slots
                   PROVE  Queued(r)' = Queued(r) /\ \A k \in Queued(r) : Entry(r, k)' = Entry(r, k)
        OBVIOUS
      <3>1. CASE deque'[r] = deque[r]
        BY <3>1 DEF Queued, Entry
      <3>2. CASE r = a /\ deque[a].head = deque[a].tail
        <4>1. Queued(r) = {} /\ Queued(r)' = {}
          BY <1>14, <3>2 DEF Queued, WorkInv, DequesGood, DequeGood
        <4> QED
          BY <4>1
      <3> QED
        BY <1>13, <1>14, <3>1, <3>2
    <2>4. /\ \A y : y # x /\ y # right => (IsReady(y)' <=> IsReady(y))
          /\ ~IsReady(x)' /\ IsReady(right)' /\ ~IsReady(right)
      <3>1. ASSUME NEW y, y # x, y # right PROVE IsReady(y)' <=> IsReady(y)
        <4>1. CASE y = join
          BY <1>2, <1>6, <4>1 DEF IsReady
        <4>2. CASE y # join
          BY <1>8, <1>9, <3>1, <4>2 DEF IsReady
        <4> QED
          BY <4>1, <4>2
      <3>2. ~IsReady(x)' /\ IsReady(right)' /\ ~IsReady(right)
        BY <1>2, <1>6, <1>8 DEF IsReady
      <3> QED
        BY <3>1, <3>2
    <2> QED
      BY <1>0, <1>2, <2>1, <2>2, <2>3, <2>4 DEF WorkInv, Placed
  <1>19. OwnersBusy'
    <2>1. \A r \in Slots : IsEmpty(deque[r])' <=> IsEmpty(deque[r])
      BY <1>13, <1>14 DEF IsEmpty
    <2> QED
      BY <1>0, <1>4, <2>1 DEF WorkInv, OwnersBusy
  <1> QED
    BY <1>7, <1>11, <1>12, <1>15, <1>16, <1>17, <1>18, <1>19 DEF WorkInv

(* A deque with room takes one more task, and keeps the others.            *)
LEMMA TailPushed ==
    ASSUME DequesGood, NEW a \in Slots, NEW x, deque'[a] = PushTail(deque[a], x),
           deque[a].tail - deque[a].head < deque[a].capacity,
           NEW last, last = deque[a].tail
    PROVE  /\ DequeGood(deque'[a])
           /\ deque'[a].capacity = deque[a].capacity
           /\ Queued(a)' = Queued(a) \cup {last}
           /\ last \notin Queued(a)
           /\ Entry(a, last)' = x
           /\ \A k \in Queued(a) : Entry(a, k)' = Entry(a, k)
  <1> SUFFICES ASSUME NEW d, d = deque[a], NEW new, new = deque'[a]
               PROVE  /\ DequeGood(new)
                      /\ new.capacity = d.capacity
                      /\ Queued(a)' = Queued(a) \cup {last}
                      /\ last \notin Queued(a)
                      /\ Entry(a, last)' = x
                      /\ \A k \in Queued(a) : Entry(a, k)' = Entry(a, k)
    OBVIOUS
  <1>1. /\ d = [head |-> d.head, tail |-> last, capacity |-> d.capacity, entry |-> d.entry]
        /\ d.head \in Nat /\ last \in Nat /\ d.capacity \in Nat
        /\ d.head <= last /\ last - d.head < d.capacity
        /\ d.entry = [k \in 0 .. d.capacity - 1 |-> d.entry[k]]
    BY DEF DequesGood, DequeGood
  <1>2. PICK c \in Nat \ {0} : c = d.capacity
    BY <1>1
  <1>3. PICK i \in 0 .. c - 1 : i = last % c
    BY <1>1, <1>2, ModRange
  <1>4. PICK e : e = [d.entry EXCEPT ![i] = x]
    OBVIOUS
  <1>5. new = [head |-> d.head, tail |-> last + 1, capacity |-> c, entry |-> e]
    BY <1>1, <1>2, <1>3, <1>4 DEF PushTail
  <1>6. /\ e = [k \in 0 .. c - 1 |-> e[k]] /\ e[i] = x
        /\ \A k \in 0 .. c - 1 : k # i => e[k] = d.entry[k]
    BY <1>1, <1>2, <1>3, <1>4
  <1>7. DequeGood(new)
    BY <1>1, <1>2, <1>5, <1>6 DEF DequeGood
  <1>8. /\ Queued(a) = d.head .. last - 1
        /\ Queued(a)' = d.head .. last
    BY <1>1, <1>5 DEF Queued
  <1>9. Entry(a, last)' = x
    BY <1>3, <1>5, <1>6 DEF Entry
  <1>10. ASSUME NEW k \in Queued(a) PROVE Entry(a, k)' = Entry(a, k)
    <2>1. k \in Int /\ k < last /\ last - k < c
      BY <1>1, <1>2, <1>8
    <2>2. k % c # i
      BY <1>1, <1>3, <2>1, ModApart
    <2>3. PICK j \in 0 .. c - 1 : j = k % c
      BY <2>1, ModRange
    <2>4. e[j] = d.entry[j]
      BY <1>6, <2>2, <2>3
    <2> QED
      BY <1>2, <1>5, <2>3, <2>4 DEF Entry
  <1>11. Queued(a)' = Queued(a) \cup {last} /\ last \notin Queued(a)
    BY <1>1, <1>8
  <1> QED
    BY <1>2, <1>5, <1>7, <1>9, <1>10, <1>11

(* The right half is in the deque, and its thread goes on with the left.   *)
LEMMA PushKeeps ==
    ASSUME SlotInv, WorkInv, EntriesKept, NEW t \in Threads, Push(t)
    PROVE  WorkInv'
  <1> SUFFICES ASSUME NEW x, x = current[t], NEW right, right = glance[t].index,
                      NEW a, a = slot[t], NEW last, last = deque[a].tail
               PROVE  WorkInv'
    OBVIOUS
  <1>0. /\ pc[t] = "push"
        /\ deque' = [deque EXCEPT ![a] = PushTail(@, right)]
        /\ task' = [task EXCEPT ![x].state = "ready"]
        /\ glance' = [glance EXCEPT ![t] = NoGlance]
        /\ pc' = [pc EXCEPT ![t] = "run"]
        /\ current' = current /\ slot' = slot
    BY DEF Push, GoTo, arena
  <1>1. /\ x \in TaskIds /\ x \in Live /\ task[x] \in TaskType /\ task[x].state = "allocated"
        /\ task[x].kind = "map"
        /\ deque[a].tail - deque[a].head < deque[a].capacity
    <2>1. /\ x # None /\ task[x] # NoTask /\ task[x].state = "allocated" /\ task[x].kind = "map"
          /\ deque[a].tail - deque[a].head < deque[a].capacity
      BY <1>0 DEF WorkInv, HandsGood
    <2>2. x \in TaskIds
      BY <2>1 DEF WorkInv, WorkTypeOK
    <2> QED
      BY <2>1, <2>2, LiveTasks DEF WorkInv, Live
  <1>2. a \in Slots
    <2>1. pc[t] \notin Outside /\ pc[t] # "out"
      BY <1>0 DEF Outside
    <2> QED
      BY <2>1, Inside
  <1>3. /\ pc'[t] = "run" /\ \A u \in Threads \ {t} : pc'[u] = pc[u]
        /\ glance'[t] = NoGlance /\ \A u \in Threads \ {t} : glance'[u] = glance[u]
        /\ deque'[a] = PushTail(deque[a], right)
        /\ \A r \in Slots \ {a} : deque'[r] = deque[r]
    BY <1>0, <1>2 DEF SlotInv, SlotTypeOK, WorkInv, WorkTypeOK
  <1>4. /\ task'[x] = [task[x] EXCEPT !.state = "ready"]
        /\ \A y \in TaskIds \ {x} : task'[y] = task[y]
    BY <1>0, <1>1 DEF WorkInv, WorkTypeOK
  <1>5. task'[x] \in TaskType
    BY <1>1, <1>4 DEF TaskType
  <1>6. WorkTypeOK'
    <2>1. NoGlance \in GlanceType
      BY SchedulerAssumption DEF NoGlance, GlanceType, Slots
    <2> QED
      BY <1>0, <1>1, <1>4, <1>5, <2>1 DEF WorkInv, WorkTypeOK
  <1>7. Live' = Live
    <2>1. task'[x] # NoTask
      BY <1>5, LiveTasks DEF WorkInv
    <2> QED
      BY <1>1, <1>4, <2>1 DEF Live
  <1>8. \A y \in Live : /\ task'[y].successor = task[y].successor
                        /\ task'[y].kind = task[y].kind /\ task'[y].preds = task[y].preds
    BY <1>1, <1>4 DEF Live, TaskType
  <1>9. /\ DequeGood(deque'[a])
        /\ deque'[a].capacity = deque[a].capacity
        /\ Queued(a)' = Queued(a) \cup {last} /\ last \notin Queued(a)
        /\ Entry(a, last)' = right
        /\ \A k \in Queued(a) : Entry(a, k)' = Entry(a, k)
    <2>1. DequesGood
      BY DEF WorkInv
    <2>2. deque'[a] = PushTail(deque[a], right)
      BY <1>3
    <2>3. deque[a].tail - deque[a].head < deque[a].capacity
      BY <1>1
    <2> QED
      BY <1>2, <2>1, <2>2, <2>3, TailPushed
  <1>10. DequesGood'
    BY <1>3, <1>9 DEF WorkInv, DequesGood
  <1>11. GlancesGood'
    <2> SUFFICES ASSUME NEW u \in Threads PROVE GlanceGood(u)'
      BY DEF GlancesGood
    <2>1. CASE u = t
      BY <1>3, <2>1 DEF GlanceGood
    <2>2. CASE u # t
      <3>1. /\ GlanceGood(u) /\ glance'[u] = glance[u] /\ pc'[u] = pc[u]
            /\ glance[u].victim \in Slots
        BY <1>3, <2>2 DEF WorkInv, GlancesGood, WorkTypeOK, GlanceType
      <3>2. deque'[glance[u].victim].capacity = deque[glance[u].victim].capacity
        BY <1>3, <1>9, <3>1
      <3> QED
        BY <3>1, <3>2 DEF GlanceGood
    <2> QED
      BY <2>1, <2>2
  <1>12. SuccessorsWait'
    <2>1. \A y \in Live : task[y].successor # x
      BY <1>1, LiveTasks DEF WorkInv, SuccessorsWait
    <2> QED
      BY <1>1, <1>4, <1>7, <1>8, <2>1 DEF WorkInv, SuccessorsWait, Live
  <1>13. PredecessorsCounted'
    <2>1. \A y \in Live : Predecessors(y)' = Predecessors(y)
      BY <1>7, <1>8 DEF Predecessors
    <2> QED
      BY <1>7, <1>8, <2>1 DEF WorkInv, PredecessorsCounted
  <1>14. HandsGood'
    <2>1. \A u \in Threads \ {t} : current[u] # x
      BY <1>0, <1>1, LiveTasks DEF WorkInv, HandsGood
    <2>2. ASSUME NEW u \in Threads \ {t}, pc[u] \in {"free", "push"}
          PROVE  task'[current[u]] = task[current[u]]
      <3>1. current[u] \in TaskIds
        BY <2>2 DEF WorkInv, HandsGood, WorkTypeOK
      <3> QED
        BY <1>4, <2>1, <3>1
    <2>3. \A u \in Threads : pc'[u] = "free" =>
            task'[current'[u]] # NoTask /\ task'[current'[u]].state = "executing"
      BY <1>0, <1>3, <2>2 DEF WorkInv, HandsGood
    <2>4. ASSUME NEW u \in Threads, pc'[u] = "push"
          PROVE  /\ task'[current'[u]] # NoTask
                 /\ task'[current'[u]].state = "allocated"
                 /\ task'[current'[u]].kind = "map"
                 /\ deque'[slot'[u]].tail - deque'[slot'[u]].head < deque'[slot'[u]].capacity
      <3>1. u # t /\ pc[u] = "push" /\ task'[current[u]] = task[current[u]]
        BY <1>3, <2>2, <2>4
      <3>2. slot[u] # a /\ slot[u] \in Slots
        <4>1. pc[u] \notin Outside /\ pc[u] # "out" /\ pc[t] \notin Outside /\ pc[t] # "out"
          BY <1>0, <3>1 DEF Outside
        <4> QED
          BY <3>1, <4>1, Inside
      <3> QED
        BY <1>0, <1>3, <3>1, <3>2 DEF WorkInv, HandsGood
    <2>5. \A u \in Threads : pc'[u] \in {"run", "free", "push"} <=> current'[u] # None
      BY <1>0, <1>3 DEF WorkInv, HandsGood
    <2>6. \A u, v \in Threads : current'[u] # None /\ current'[u] = current'[v] => u = v
      BY <1>0 DEF WorkInv, HandsGood
    <2> QED
      BY <2>3, <2>4, <2>5, <2>6 DEF HandsGood
  <1>15. Placed'
    <2>1. \A u \in Threads \ {t} : /\ Carries(u)' <=> Carries(u)
                                   /\ Carries(u) => TaskWith(u)' = TaskWith(u)
      BY <1>0, <1>3, StillCarries DEF EntriesKept
    <2>2. Carries(t) /\ TaskWith(t) = right /\ Carries(t)' /\ TaskWith(t)' = x
      BY <1>0, <1>3 DEF Carries, TaskWith
    <2>3. \A r \in Slots \ {a} :
            Queued(r)' = Queued(r) /\ \A k \in Queued(r) : Entry(r, k)' = Entry(r, k)
      BY <1>3 DEF Queued, Entry
    <2>4. /\ \A y : y # x => (IsReady(y)' <=> IsReady(y))
          /\ IsReady(x)' /\ ~IsReady(x)
      <3>1. \A y : y # x => (IsReady(y)' <=> IsReady(y))
        BY <1>4, <1>7 DEF IsReady
      <3>2. IsReady(x)' /\ ~IsReady(x)
        BY <1>1, <1>4, <1>7 DEF IsReady, TaskType
      <3> QED
        BY <3>1, <3>2
    <2>5. IsReady(right) /\ right # x
      BY <2>2, <2>4 DEF WorkInv, Placed
    <2>6. \A u \in Threads : Carries(u)' => IsReady(TaskWith(u))'
      BY <2>1, <2>2, <2>4 DEF WorkInv, Placed
    <2>7. \A r \in Slots : \A k \in Queued(r)' : IsReady(Entry(r, k))'
      BY <1>9, <2>3, <2>4, <2>5 DEF WorkInv, Placed
    <2>8. \A u, v \in Threads : Carries(u)' /\ Carries(v)' /\ TaskWith(u)' = TaskWith(v)' => u = v
      BY <2>1, <2>2, <2>4 DEF WorkInv, Placed
    <2>9. \A r, s \in Slots : \A k \in Queued(r)', l \in Queued(s)' :
            Entry(r, k)' = Entry(s, l)' => r = s /\ k = l
      <3>1. \A r \in Slots : \A k \in Queued(r) : Entry(r, k) # right
        BY <2>2 DEF WorkInv, Placed
      <3>2. \A r \in Slots : \A k \in Queued(r)' :
              \/ r = a /\ k = last /\ Entry(r, k)' = right
              \/ k \in Queued(r) /\ Entry(r, k)' = Entry(r, k)
        BY <1>9, <2>3
      <3> QED
        BY <3>1, <3>2 DEF WorkInv, Placed
    <2>10. \A u \in Threads : \A r \in Slots : \A k \in Queued(r)' :
             Carries(u)' => TaskWith(u)' # Entry(r, k)'
      <3> SUFFICES ASSUME NEW u \in Threads, NEW r \in Slots, NEW k \in Queued(r)', Carries(u)'
                   PROVE  TaskWith(u)' # Entry(r, k)'
        OBVIOUS
      <3>1. CASE r = a /\ k = last
        BY <1>9, <2>1, <2>2, <2>5, <3>1 DEF WorkInv, Placed
      <3>2. CASE k \in Queued(r) /\ Entry(r, k)' = Entry(r, k)
        BY <2>1, <2>2, <2>4, <3>2 DEF WorkInv, Placed
      <3> QED
        BY <1>9, <2>3, <3>1, <3>2
    <2>11. ASSUME NEW y \in TaskIds, IsReady(y)'
           PROVE  \/ \E u \in Threads : Carries(u)' /\ TaskWith(u)' = y
                  \/ \E r \in Slots : \E k \in Queued(r)' : Entry(r, k)' = y
      <3>1. CASE y = x
        BY <2>2, <3>1
      <3>2. CASE y = right
        BY <1>2, <1>9, <3>2
      <3>3. CASE y # x /\ y # right
        <4>1. IsReady(y)
          BY <2>4, <2>11, <3>3
        <4>2. CASE \E u \in Threads : Carries(u) /\ TaskWith(u) = y
          BY <2>1, <2>2, <3>3, <4>2
        <4>3. CASE \E r \in Slots : \E k \in Queued(r) : Entry(r, k) = y
          <5>1. PICK r \in Slots : \E k \in Queued(r) : Entry(r, k) = y
            BY <4>3
          <5>2. PICK k \in Queued(r) : Entry(r, k) = y
            BY <5>1
          <5>3. k \in Queued(r)' /\ Entry(r, k)' = y
            BY <1>9, <2>3, <5>2
          <5> QED
            BY <5>3
        <4> QED
          BY <4>1, <4>2, <4>3 DEF WorkInv, Placed
      <3> QED
        BY <3>1, <3>2, <3>3
    <2> QED
      BY <2>6, <2>7, <2>8, <2>9, <2>10, <2>11 DEF Placed
  <1>16. OwnersBusy'
    <2>1. \A r \in Slots \ {a} : IsEmpty(deque[r])' <=> IsEmpty(deque[r])
      BY <1>3 DEF IsEmpty
    <2> QED
      BY <1>0, <1>3, <2>1 DEF WorkInv, OwnersBusy
  <1> QED
    BY <1>6, <1>10, <1>11, <1>12, <1>13, <1>14, <1>15, <1>16 DEF WorkInv

(* A task goes from a deque to a thread: every task is still in one place. *)
LEMMA TaskMoved ==
    ASSUME Placed, task' = task,
           NEW t \in Threads, ~Carries(t), Carries(t)',
           NEW a \in Slots, NEW k0 \in Queued(a), TaskWith(t)' = Entry(a, k0),
           Queued(a)' = Queued(a) \ {k0},
           \A s \in Slots \ {a} : Queued(s)' = Queued(s),
           \A s \in Slots : \A k \in Queued(s)' : Entry(s, k)' = Entry(s, k),
           \A u \in Threads \ {t} : (Carries(u)' <=> Carries(u))
                                    /\ (Carries(u) => TaskWith(u)' = TaskWith(u))
    PROVE  Placed'
  <1>1. \A y : IsReady(y)' <=> IsReady(y)
    BY DEF IsReady, Live
  <1>2. \A s \in Slots : \A k : k \in Queued(s)' <=> k \in Queued(s) /\ ~(s = a /\ k = k0)
    OBVIOUS
  <1>3. \A u \in Threads : Carries(u)' => IsReady(TaskWith(u))'
    BY <1>1 DEF Placed
  <1>4. \A s \in Slots : \A k \in Queued(s)' : IsReady(Entry(s, k))'
    BY <1>1, <1>2 DEF Placed
  <1>5. \A u, v \in Threads : Carries(u)' /\ Carries(v)' /\ TaskWith(u)' = TaskWith(v)' => u = v
    BY DEF Placed
  <1>6. \A r, s \in Slots : \A k \in Queued(r)', l \in Queued(s)' :
          Entry(r, k)' = Entry(s, l)' => r = s /\ k = l
    BY <1>2 DEF Placed
  <1>7. \A u \in Threads : \A s \in Slots : \A k \in Queued(s)' :
          Carries(u)' => TaskWith(u)' # Entry(s, k)'
    <2> SUFFICES ASSUME NEW u \in Threads, NEW s \in Slots, NEW k \in Queued(s)', Carries(u)'
                 PROVE  TaskWith(u)' # Entry(s, k)'
      OBVIOUS
    <2>1. k \in Queued(s) /\ Entry(s, k)' = Entry(s, k) /\ ~(s = a /\ k = k0)
      BY <1>2
    <2>2. CASE u = t
      BY <2>1, <2>2 DEF Placed
    <2>3. CASE u # t
      BY <2>1, <2>3 DEF Placed
    <2> QED
      BY <2>2, <2>3
  <1>8. ASSUME NEW y \in TaskIds, IsReady(y)'
        PROVE  \/ \E u \in Threads : Carries(u)' /\ TaskWith(u)' = y
               \/ \E s \in Slots : \E k \in Queued(s)' : Entry(s, k)' = y
    <2>1. IsReady(y)
      BY <1>1, <1>8
    <2>2. CASE \E u \in Threads : Carries(u) /\ TaskWith(u) = y
      BY <2>2
    <2>3. CASE \E s \in Slots : \E k \in Queued(s) : Entry(s, k) = y
      <3>1. PICK s \in Slots : \E k \in Queued(s) : Entry(s, k) = y
        BY <2>3
      <3>2. PICK k \in Queued(s) : Entry(s, k) = y
        BY <3>1
      <3>3. CASE s = a /\ k = k0
        BY <3>2, <3>3
      <3>4. CASE ~(s = a /\ k = k0)
        <4>1. k \in Queued(s)' /\ Entry(s, k)' = y
          BY <1>2, <3>2, <3>4
        <4> QED
          BY <4>1
      <3> QED
        BY <3>3, <3>4
    <2> QED
      BY <2>1, <2>2, <2>3 DEF Placed
  <1> QED
    BY <1>3, <1>4, <1>5, <1>6, <1>7, <1>8 DEF Placed

(* No task moves: every task is still in one place.                        *)
LEMMA NoTaskMoved ==
    ASSUME Placed, task' = task,
           \A s \in Slots : Queued(s)' = Queued(s),
           \A s \in Slots : \A k \in Queued(s) : Entry(s, k)' = Entry(s, k),
           \A u \in Threads : (Carries(u)' <=> Carries(u))
                              /\ (Carries(u) => TaskWith(u)' = TaskWith(u))
    PROVE  Placed'
  <1>1. \A y : IsReady(y)' <=> IsReady(y)
    BY DEF IsReady, Live
  <1> QED
    BY <1>1 DEF Placed

(* What steps that leave the tasks alone cannot disturb.                   *)
LEMMA TasksUntouched ==
    ASSUME WorkInv, task' = task
    PROVE  /\ Live' = Live /\ SuccessorsWait' /\ PredecessorsCounted'
           /\ \A y : IsReady(y)' <=> IsReady(y)
  <1>1. Live' = Live
    BY DEF Live
  <1> QED
    BY <1>1 DEF WorkInv, SuccessorsWait, PredecessorsCounted, Predecessors, IsReady

(* A deque that changes without a change of its array leaves what thieves  *)
(* remember of it right.                                                   *)
LEMMA GlancesStay ==
    ASSUME WorkInv, NEW t \in Threads,
           \A u \in Threads \ {t} : pc'[u] = pc[u] /\ glance'[u] = glance[u],
           \A s \in Slots : deque'[s].capacity = deque[s].capacity,
           GlanceGood(t)'
    PROVE  GlancesGood'
  <1> SUFFICES ASSUME NEW u \in Threads, u # t PROVE GlanceGood(u)'
    BY DEF GlancesGood
  <1>1. GlanceGood(u) /\ glance[u].victim \in Slots
    BY DEF WorkInv, GlancesGood, WorkTypeOK, GlanceType
  <1>2. deque'[glance[u].victim].capacity = deque[glance[u].victim].capacity
    BY <1>1
  <1> QED
    BY <1>1, <1>2 DEF GlanceGood

(* TaskDeque_Pop_Private finds nothing, and resets the indices.            *)
LEMMA PopNothingKeeps ==
    ASSUME SlotInv, WorkInv, EntriesKept, NEW t \in Threads, Pop(t), IsEmpty(deque[slot[t]])
    PROVE  WorkInv'
  <1> SUFFICES ASSUME NEW a, a = slot[t] PROVE WorkInv'
    OBVIOUS
  <1>0. /\ pc[t] = "pop"
        /\ deque' = [deque EXCEPT ![a] = Reset(deque[a])]
        /\ pc' = [pc EXCEPT ![t] = "steal"]
        /\ task' = task /\ current' = current /\ glance' = glance /\ slot' = slot
    BY DEF Pop, GoTo, arena
  <1>1. a \in Slots
    <2>1. pc[t] \notin Outside /\ pc[t] # "out"
      BY <1>0 DEF Outside
    <2> QED
      BY <2>1, Inside
  <1>2. /\ pc'[t] = "steal" /\ \A u \in Threads \ {t} : pc'[u] = pc[u]
        /\ deque'[a] = Reset(deque[a])
        /\ \A r \in Slots \ {a} : deque'[r] = deque[r]
    BY <1>0, <1>1 DEF SlotInv, SlotTypeOK, WorkInv, WorkTypeOK
  <1>3. /\ DequeGood(deque'[a]) /\ deque'[a].capacity = deque[a].capacity
        /\ Queued(a) = {} /\ Queued(a)' = {} /\ IsEmpty(deque'[a])
    <2>1. DequeGood(deque[a]) /\ IsEmpty(deque[a])
      BY <1>1 DEF WorkInv, DequesGood
    <2>2. deque'[a] = [head |-> 0, tail |-> 0, capacity |-> deque[a].capacity,
                       entry |-> deque[a].entry]
      BY <1>2, <2>1 DEF Reset, DequeGood
    <2> QED
      BY <2>1, <2>2 DEF DequeGood, IsEmpty, Queued
  <1>4. WorkTypeOK'
    BY <1>0 DEF WorkInv, WorkTypeOK
  <1>5. DequesGood'
    BY <1>2, <1>3 DEF WorkInv, DequesGood
  <1>6. HandsGood'
    <2>1. ASSUME NEW u \in Threads, pc'[u] = "push"
          PROVE  /\ pc[u] = "push" /\ deque'[slot[u]] = deque[slot[u]]
      <3>1. u # t /\ pc[u] = "push"
        BY <1>2, <2>1
      <3>2. pc[u] \notin Outside /\ pc[u] # "out" /\ pc[t] \notin Outside /\ pc[t] # "out"
        BY <1>0, <3>1 DEF Outside
      <3>3. slot[u] # a /\ slot[u] \in Slots
        BY <3>1, <3>2, Inside
      <3> QED
        BY <1>2, <3>1, <3>3
    <2> QED
      BY <1>0, <1>2, <2>1 DEF WorkInv, HandsGood
  <1>7. GlancesGood'
    <2>1. GlanceGood(t)'
      BY <1>2 DEF GlanceGood
    <2>2. \A s \in Slots : deque'[s].capacity = deque[s].capacity
      BY <1>2, <1>3
    <2> QED
      BY <1>0, <1>2, <2>1, <2>2, GlancesStay
  <1>8. Placed'
    <2>1. \A u \in Threads \ {t} : /\ Carries(u)' <=> Carries(u)
                                   /\ Carries(u) => TaskWith(u)' = TaskWith(u)
      BY <1>0, <1>2, StillCarries DEF EntriesKept
    <2>2. ~Carries(t) /\ ~Carries(t)'
      BY <1>0, <1>2 DEF Carries
    <2>3. \A s \in Slots : Queued(s)' = Queued(s) /\ \A k \in Queued(s) : Entry(s, k)' = Entry(s, k)
      BY <1>2, <1>3 DEF Queued, Entry
    <2> QED
      BY <1>0, <2>1, <2>2, <2>3, NoTaskMoved DEF WorkInv
  <1>9. OwnersBusy'
    <2>1. \A r \in Slots \ {a} : IsEmpty(deque[r])' <=> IsEmpty(deque[r])
      BY <1>2 DEF IsEmpty
    <2> QED
      BY <1>0, <1>2, <1>3, <2>1 DEF WorkInv, OwnersBusy
  <1> QED
    BY <1>0, <1>4, <1>5, <1>6, <1>7, <1>8, <1>9, TasksUntouched DEF WorkInv

(* TaskDeque_Pop_Private takes the last task of the own deque.             *)
LEMMA PopTaskKeeps ==
    ASSUME SlotInv, WorkInv, EntriesKept, NEW t \in Threads, Pop(t), ~IsEmpty(deque[slot[t]])
    PROVE  WorkInv'
  <1> SUFFICES ASSUME NEW a, a = slot[t], NEW last, last = deque[a].tail - 1,
                      NEW x, x = Entry(a, last)
               PROVE  WorkInv'
    OBVIOUS
  <1>0. /\ pc[t] = "pop"
        /\ deque' = [deque EXCEPT ![a] = PopTail(deque[a])]
        /\ current' = [current EXCEPT ![t] = x]
        /\ pc' = [pc EXCEPT ![t] = "run"]
        /\ task' = task /\ glance' = glance /\ slot' = slot
    BY DEF Pop, GoTo, arena, LastTask, Entry
  <1>1. a \in Slots
    <2>1. pc[t] \notin Outside /\ pc[t] # "out"
      BY <1>0 DEF Outside
    <2> QED
      BY <2>1, Inside
  <1>2. /\ pc'[t] = "run" /\ \A u \in Threads \ {t} : pc'[u] = pc[u]
        /\ current'[t] = x /\ \A u \in Threads \ {t} : current'[u] = current[u]
        /\ deque'[a] = PopTail(deque[a])
        /\ \A r \in Slots \ {a} : deque'[r] = deque[r]
    BY <1>0, <1>1 DEF SlotInv, SlotTypeOK, WorkInv, WorkTypeOK
  <1>3. /\ DequeGood(deque'[a]) /\ deque'[a].capacity = deque[a].capacity
        /\ deque'[a].entry = deque[a].entry
        /\ last \in Queued(a) /\ Queued(a)' = Queued(a) \ {last}
    <2>1. DequeGood(deque[a]) /\ ~IsEmpty(deque[a])
      BY <1>1 DEF WorkInv, DequesGood
    <2>2. deque'[a] = [head |-> deque[a].head, tail |-> last, capacity |-> deque[a].capacity,
                       entry |-> deque[a].entry]
      BY <1>2, <2>1 DEF PopTail, DequeGood
    <2>3. DequeGood(deque'[a])
      BY <2>1, <2>2 DEF DequeGood, IsEmpty
    <2>4. Queued(a) = deque[a].head .. last /\ Queued(a)' = deque[a].head .. last - 1
      BY <2>1, <2>2 DEF DequeGood, Queued
    <2> QED
      BY <2>1, <2>2, <2>3, <2>4 DEF DequeGood, IsEmpty
  <1>4. IsReady(x) /\ x \in TaskIds /\ x # None
    <2>1. IsReady(x)
      BY <1>1, <1>3 DEF WorkInv, Placed
    <2> QED
      BY <2>1, LiveTasks DEF WorkInv, IsReady
  <1>5. \A u \in Threads : current[u] # x
    <2> SUFFICES ASSUME NEW u \in Threads, current[u] = x PROVE FALSE
      OBVIOUS
    <2>1. pc[u] = "run"
      BY <1>4, ReadyInNoHands
    <2>2. Carries(u) /\ TaskWith(u) = x
      BY <2>1 DEF Carries, TaskWith
    <2> QED
      <3>1. TaskWith(u) # Entry(a, last)
        BY <1>1, <1>3, <2>2 DEF WorkInv, Placed
      <3> QED
        BY <2>2, <3>1
  <1>6. WorkTypeOK'
    BY <1>0, <1>4 DEF WorkInv, WorkTypeOK
  <1>7. DequesGood'
    BY <1>2, <1>3 DEF WorkInv, DequesGood
  <1>8. HandsGood'
    <2>1. ASSUME NEW u \in Threads, pc'[u] = "push"
          PROVE  pc[u] = "push" /\ deque'[slot[u]] = deque[slot[u]] /\ current'[u] = current[u]
      <3>1. u # t /\ pc[u] = "push"
        BY <1>2, <2>1
      <3>2. pc[u] \notin Outside /\ pc[u] # "out" /\ pc[t] \notin Outside /\ pc[t] # "out"
        BY <1>0, <3>1 DEF Outside
      <3>3. slot[u] # a /\ slot[u] \in Slots
        BY <3>1, <3>2, Inside
      <3> QED
        BY <1>2, <3>1, <3>3
    <2>2. ASSUME NEW u \in Threads, pc'[u] = "free"
          PROVE  pc[u] = "free" /\ current'[u] = current[u]
      BY <1>2, <2>2
    <2>3. \A u \in Threads : pc'[u] \in {"run", "free", "push"} <=> current'[u] # None
      BY <1>2, <1>4 DEF WorkInv, HandsGood
    <2>4. \A u, v \in Threads : current'[u] # None /\ current'[u] = current'[v] => u = v
      BY <1>2, <1>5 DEF WorkInv, HandsGood
    <2> QED
      BY <1>0, <2>1, <2>2, <2>3, <2>4 DEF WorkInv, HandsGood
  <1>9. GlancesGood'
    <2>1. GlanceGood(t)'
      BY <1>2 DEF GlanceGood
    <2>2. \A s \in Slots : deque'[s].capacity = deque[s].capacity
      BY <1>2, <1>3
    <2> QED
      BY <1>0, <1>2, <2>1, <2>2, GlancesStay
  <1>10. Placed'
    <2>1. \A u \in Threads \ {t} : (Carries(u)' <=> Carries(u))
                                   /\ (Carries(u) => TaskWith(u)' = TaskWith(u))
      BY <1>0, <1>2, StillCarries DEF EntriesKept
    <2>2. ~Carries(t) /\ Carries(t)' /\ TaskWith(t)' = x
      BY <1>0, <1>2 DEF Carries, TaskWith
    <2>3. \A s \in Slots : \A k \in Queued(s)' : Entry(s, k)' = Entry(s, k)
      BY <1>2, <1>3 DEF Entry
    <2>4. \A s \in Slots \ {a} : Queued(s)' = Queued(s)
      BY <1>2 DEF Queued
    <2> QED
      BY <1>0, <1>1, <1>3, <2>1, <2>2, <2>3, <2>4, TaskMoved DEF WorkInv
  <1>11. OwnersBusy'
    <2>1. \A r \in Slots \ {a} : IsEmpty(deque[r])' <=> IsEmpty(deque[r])
      BY <1>2 DEF IsEmpty
    <2> QED
      BY <1>0, <1>2, <2>1 DEF WorkInv, OwnersBusy
  <1> QED
    BY <1>0, <1>6, <1>7, <1>8, <1>9, <1>10, <1>11, TasksUntouched DEF WorkInv

(* A step of a thief before its compare-and-set, of which only what it     *)
(* remembers changes.                                                      *)
LEMMA GlanceKeeps ==
    ASSUME SlotInv, WorkInv, NEW t \in Threads, NEW from \in {"steal", "cas"}, pc[t] = from,
           NEW to \in {"steal", "cas"}, pc' = [pc EXCEPT ![t] = to],
           NEW g \in GlanceType, glance' = [glance EXCEPT ![t] = g],
           to = "cas" => /\ g.head < g.tail /\ deque[g.victim].capacity # 0
                         /\ g.index = g.head % deque[g.victim].capacity,
           task' = task, current' = current, deque' = deque, slot' = slot
    PROVE  WorkInv'
  <1>1. /\ pc'[t] = to /\ \A u \in Threads \ {t} : pc'[u] = pc[u]
        /\ glance'[t] = g /\ \A u \in Threads \ {t} : glance'[u] = glance[u]
    BY DEF SlotInv, SlotTypeOK, WorkInv, WorkTypeOK
  <1>2. WorkTypeOK' /\ DequesGood'
    BY DEF WorkInv, WorkTypeOK, DequesGood
  <1>3. HandsGood'
    BY <1>1 DEF WorkInv, HandsGood
  <1>4. GlancesGood'
    <2>1. GlanceGood(t)'
      BY <1>1 DEF GlanceGood
    <2> QED
      BY <1>1, <2>1, GlancesStay
  <1>5. Placed'
    <2>1. \A u \in Threads \ {t} : (Carries(u)' <=> Carries(u))
                                   /\ (Carries(u) => TaskWith(u)' = TaskWith(u))
      BY <1>1 DEF Carries, TaskWith
    <2>2. ~Carries(t) /\ ~Carries(t)'
      BY <1>1 DEF Carries
    <2>3. \A s \in Slots : Queued(s)' = Queued(s) /\ \A k \in Queued(s) : Entry(s, k)' = Entry(s, k)
      BY DEF Queued, Entry
    <2> QED
      BY <2>1, <2>2, <2>3, NoTaskMoved DEF WorkInv
  <1>6. OwnersBusy'
    BY <1>1 DEF WorkInv, OwnersBusy
  <1> QED
    BY <1>2, <1>3, <1>4, <1>5, <1>6, TasksUntouched DEF WorkInv

(* TaskDeque_Pop_Public looks at a deque with something in it ...          *)
LEMMA LookKeeps ==
    ASSUME SlotInv, WorkInv, NEW t \in Threads, Look(t)
    PROVE  WorkInv'
  <1>1. PICK v \in Slots : ~IsEmpty(deque[v]) /\ glance' = [glance EXCEPT ![t] = Glance(v, deque[v])]
    BY DEF Look
  <1>2. /\ pc[t] = "steal" /\ pc' = [pc EXCEPT ![t] = "cas"]
        /\ task' = task /\ current' = current /\ deque' = deque /\ slot' = slot
    BY DEF Look, GoTo, arena
  <1>3. PICK d : d = deque[v]
    OBVIOUS
  <1>4. d.head \in Nat /\ d.tail \in Nat /\ d.head < d.tail /\ d.capacity \in Nat \ {0}
    <2>1. DequeGood(d) /\ ~IsEmpty(d)
      BY <1>1, <1>3 DEF WorkInv, DequesGood
    <2> QED
      BY <2>1 DEF DequeGood, IsEmpty
  <1>5. PICK c \in Nat \ {0} : c = d.capacity
    BY <1>4
  <1>6. PICK i \in 0 .. c - 1 : i = d.head % c
    BY <1>4, ModRange
  <1>7. PICK g : g = [victim |-> v, head |-> d.head, tail |-> d.tail, index |-> i]
    OBVIOUS
  <1>8. g \in GlanceType
    BY <1>4, <1>5, <1>6, <1>7 DEF GlanceType
  <1>9. glance' = [glance EXCEPT ![t] = g]
    BY <1>1, <1>3, <1>5, <1>6, <1>7 DEF Glance
  <1>10. /\ g.head < g.tail /\ deque[g.victim].capacity # 0
         /\ g.index = g.head % deque[g.victim].capacity
    BY <1>3, <1>4, <1>5, <1>6, <1>7
  <1> QED
    BY <1>2, <1>8, <1>9, <1>10, GlanceKeeps

(* ... and looks again when it has changed.                                *)
LEMMA LookAgainKeeps ==
    ASSUME SlotInv, WorkInv, NEW t \in Threads, LookAgain(t)
    PROVE  WorkInv'
  <1>1. NoGlance \in GlanceType
    BY SchedulerAssumption DEF NoGlance, GlanceType, Slots
  <1>2. /\ pc[t] = "cas" /\ pc' = [pc EXCEPT ![t] = "steal"]
        /\ glance' = [glance EXCEPT ![t] = NoGlance]
        /\ task' = task /\ current' = current /\ deque' = deque /\ slot' = slot
    BY DEF LookAgain, GoTo, arena
  <1> QED
    BY <1>1, <1>2, GlanceKeeps

(* The compare-and-set of a thief passes: the oldest task is its own, and  *)
(* still only in the array of its victim.                                  *)
LEMMA StealKeeps ==
    ASSUME SlotInv, WorkInv, EntriesKept, NEW t \in Threads, Steal(t)
    PROVE  WorkInv'
  <1> SUFFICES ASSUME NEW g, g = glance[t], NEW v, v = g.victim,
                      NEW first, first = deque[v].head
               PROVE  WorkInv'
    OBVIOUS
  <1>0. /\ pc[t] = "cas"
        /\ Unchanged(deque[v], g)
        /\ deque' = [deque EXCEPT ![v] = PopHead(@, g)]
        /\ pc' = [pc EXCEPT ![t] = "take"]
        /\ task' = task /\ current' = current /\ glance' = glance /\ slot' = slot
    BY DEF Steal, GoTo, arena
  <1>1. v \in Slots
    BY DEF WorkInv, WorkTypeOK, GlanceType
  <1>2. /\ pc'[t] = "take" /\ \A u \in Threads \ {t} : pc'[u] = pc[u]
        /\ deque'[v] = PopHead(deque[v], g)
        /\ \A r \in Slots \ {v} : deque'[r] = deque[r]
    BY <1>0, <1>1 DEF SlotInv, SlotTypeOK, WorkInv, WorkTypeOK
  <1>3. /\ g.head = first /\ g.tail = deque[v].tail /\ first < deque[v].tail
        /\ deque[v].capacity # 0 /\ g.index = first % deque[v].capacity
    <2>1. GlanceGood(t)
      BY DEF WorkInv, GlancesGood
    <2> QED
      BY <1>0, <2>1 DEF GlanceGood, Unchanged
  <1>4. /\ DequeGood(deque'[v]) /\ deque'[v].capacity = deque[v].capacity
        /\ deque'[v].entry = deque[v].entry
        /\ deque'[v].head = first + 1 /\ deque'[v].tail = deque[v].tail
        /\ first \in Queued(v) /\ Queued(v)' = Queued(v) \ {first}
    <2>1. DequeGood(deque[v])
      BY <1>1 DEF WorkInv, DequesGood
    <2>2. deque'[v] = [head |-> first + 1, tail |-> deque[v].tail, capacity |-> deque[v].capacity,
                       entry |-> deque[v].entry]
      <3>1. PICK d : d = deque[v]
        OBVIOUS
      <3>2. deque'[v] = [d EXCEPT !.head = first + 1]
        BY <1>2, <1>3, <3>1 DEF PopHead
      <3>3. d = [head |-> d.head, tail |-> d.tail, capacity |-> d.capacity, entry |-> d.entry]
        BY <2>1, <3>1 DEF DequeGood
      <3> QED
        BY <3>1, <3>2, <3>3
    <2>3. DequeGood(deque'[v])
      <3>1. PICK d : d = deque[v]
        OBVIOUS
      <3>2. /\ first \in Nat /\ first = d.head /\ d.tail \in Nat /\ d.capacity \in Nat
            /\ first < d.tail /\ d.tail - first <= d.capacity
            /\ d.entry = [k \in 0 .. d.capacity - 1 |-> d.entry[k]]
        BY <1>3, <2>1, <3>1 DEF DequeGood
      <3>3. PICK h : h = first + 1
        OBVIOUS
      <3>4. h \in Nat /\ h <= d.tail /\ d.tail - h <= d.capacity
        BY <3>2, <3>3
      <3>5. PICK x : x = deque'[v]
        OBVIOUS
      <3>6. x = [head |-> h, tail |-> d.tail, capacity |-> d.capacity, entry |-> d.entry]
        BY <2>2, <3>1, <3>3, <3>5
      <3>7. DequeGood(x)
        BY <3>2, <3>4, <3>6 DEF DequeGood
      <3> QED
        BY <3>5, <3>7
    <2>4. Queued(v) = first .. deque[v].tail - 1 /\ Queued(v)' = first + 1 .. deque[v].tail - 1
      BY <2>1, <2>2 DEF DequeGood, Queued
    <2>5. first \in Int /\ deque[v].tail \in Int
      BY <2>1 DEF DequeGood
    <2> QED
      BY <1>3, <2>2, <2>3, <2>4, <2>5
  <1>5. g.index \in 0 .. deque[v].capacity - 1
    BY <1>1, <1>3, <1>4, QueuedHasEntry DEF WorkInv
  <1>6. WorkTypeOK'
    BY <1>0 DEF WorkInv, WorkTypeOK
  <1>7. DequesGood'
    BY <1>2, <1>4 DEF WorkInv, DequesGood
  <1>8. HandsGood'
    <2>1. \A u \in Threads : pc'[u] \in {"run", "free", "push"} <=> pc[u] \in {"run", "free", "push"}
      BY <1>0, <1>2
    <2>2. \A u \in Threads : pc'[u] = "free" => pc[u] = "free"
      BY <1>2
    <2>3. ASSUME NEW u \in Threads, pc'[u] = "push"
          PROVE  pc[u] = "push" /\ deque'[slot[u]].tail - deque'[slot[u]].head < deque'[slot[u]].capacity
      <3>1. pc[u] = "push"
        BY <1>2, <2>3
      <3>2. slot[u] \in Slots
        BY <3>1, Inside DEF Outside
      <3>3. deque[slot[u]].tail - deque[slot[u]].head < deque[slot[u]].capacity
        BY <3>1 DEF WorkInv, HandsGood
      <3>4. CASE slot[u] # v
        BY <1>2, <3>1, <3>2, <3>3, <3>4
      <3>5. CASE slot[u] = v
        <4>1. DequeGood(deque[v])
          BY <1>1 DEF WorkInv, DequesGood
        <4>2. PICK d : d = deque[v]
          OBVIOUS
        <4>3. d.head \in Nat /\ d.tail \in Nat /\ d.capacity \in Nat /\ d.tail - d.head < d.capacity
          BY <3>3, <3>5, <4>1, <4>2 DEF DequeGood
        <4>4. first = d.head
          BY <1>2, <1>3, <4>2
        <4>5. d.tail - (first + 1) < d.capacity
          BY <4>3, <4>4
        <4> QED
          BY <1>4, <3>1, <3>5, <4>2, <4>5
      <3> QED
        BY <3>4, <3>5
    <2> QED
      BY <1>0, <2>1, <2>2, <2>3 DEF WorkInv, HandsGood
  <1>9. GlancesGood'
    <2>1. GlanceGood(t)'
      BY <1>0, <1>2, <1>4, <1>5 DEF GlanceGood
    <2>2. \A s \in Slots : deque'[s].capacity = deque[s].capacity
      BY <1>2, <1>4
    <2> QED
      BY <1>0, <1>2, <2>1, <2>2, GlancesStay
  <1>10. Placed'
    <2>1. \A u \in Threads \ {t} : (Carries(u)' <=> Carries(u))
                                   /\ (Carries(u) => TaskWith(u)' = TaskWith(u))
      BY <1>0, <1>2, StillCarries DEF EntriesKept
    <2>2. ~Carries(t) /\ Carries(t)' /\ TaskWith(t)' = Entry(v, first)
      BY <1>0, <1>2, <1>3, <1>4 DEF Carries, TaskWith, Entry
    <2>3. \A s \in Slots : \A k \in Queued(s)' : Entry(s, k)' = Entry(s, k)
      BY <1>2, <1>4 DEF Entry
    <2>4. \A s \in Slots \ {v} : Queued(s)' = Queued(s)
      BY <1>2 DEF Queued
    <2> QED
      BY <1>0, <1>1, <1>4, <2>1, <2>2, <2>3, <2>4, TaskMoved DEF WorkInv
  <1>11. OwnersBusy'
    <2>1. \A r \in Slots \ {v} : IsEmpty(deque[r])' <=> IsEmpty(deque[r])
      BY <1>2 DEF IsEmpty
    <2>2. ~IsEmpty(deque[v])
      <3>1. DequeGood(deque[v])
        BY <1>1 DEF WorkInv, DequesGood
      <3> QED
        BY <1>3, <3>1 DEF IsEmpty, DequeGood
    <2> QED
      BY <1>0, <1>1, <1>2, <2>1, <2>2 DEF WorkInv, OwnersBusy
  <1> QED
    BY <1>0, <1>6, <1>7, <1>8, <1>9, <1>10, <1>11, TasksUntouched DEF WorkInv

(* The thief reads the entry.                                              *)
LEMMA TakeKeeps ==
    ASSUME SlotInv, WorkInv, NEW t \in Threads, Take(t)
    PROVE  WorkInv'
  <1> SUFFICES ASSUME NEW x, x = deque[glance[t].victim].entry[glance[t].index] PROVE WorkInv'
    OBVIOUS
  <1>0. /\ pc[t] = "take"
        /\ current' = [current EXCEPT ![t] = x]
        /\ glance' = [glance EXCEPT ![t] = NoGlance]
        /\ pc' = [pc EXCEPT ![t] = "run"]
        /\ task' = task /\ deque' = deque /\ slot' = slot
    BY DEF Take, GoTo, arena
  <1>1. /\ pc'[t] = "run" /\ \A u \in Threads \ {t} : pc'[u] = pc[u]
        /\ current'[t] = x /\ \A u \in Threads \ {t} : current'[u] = current[u]
        /\ \A u \in Threads \ {t} : glance'[u] = glance[u]
    BY <1>0 DEF SlotInv, SlotTypeOK, WorkInv, WorkTypeOK
  <1>2. Carries(t) /\ TaskWith(t) = x
    BY <1>0 DEF Carries, TaskWith
  <1>3. IsReady(x) /\ x \in TaskIds /\ x # None
    <2>1. IsReady(x)
      BY <1>2 DEF WorkInv, Placed
    <2> QED
      BY <2>1, LiveTasks DEF WorkInv, IsReady
  <1>4. \A u \in Threads : current[u] # x
    <2> SUFFICES ASSUME NEW u \in Threads, current[u] = x PROVE FALSE
      OBVIOUS
    <2>1. pc[u] = "run"
      BY <1>3, ReadyInNoHands
    <2>2. Carries(u) /\ TaskWith(u) = x
      BY <2>1 DEF Carries, TaskWith
    <2>3. u = t
      BY <1>2, <2>2 DEF WorkInv, Placed
    <2> QED
      BY <1>0, <2>1, <2>3
  <1>5. WorkTypeOK'
    <2>1. NoGlance \in GlanceType
      BY SchedulerAssumption DEF NoGlance, GlanceType, Slots
    <2> QED
      BY <1>0, <1>3, <2>1 DEF WorkInv, WorkTypeOK
  <1>6. DequesGood'
    BY <1>0 DEF WorkInv, DequesGood
  <1>7. HandsGood'
    <2>1. \A u \in Threads : pc'[u] \in {"run", "free", "push"} <=> current'[u] # None
      BY <1>1, <1>3 DEF WorkInv, HandsGood
    <2>2. \A u, v \in Threads : current'[u] # None /\ current'[u] = current'[v] => u = v
      BY <1>1, <1>4 DEF WorkInv, HandsGood
    <2>3. ASSUME NEW u \in Threads, pc'[u] \in {"free", "push"}
          PROVE  pc[u] = pc'[u] /\ current'[u] = current[u]
      BY <1>1, <2>3
    <2>4. \A u \in Threads : pc'[u] = "free" =>
            task'[current'[u]] # NoTask /\ task'[current'[u]].state = "executing"
      <3> SUFFICES ASSUME NEW u \in Threads, pc'[u] = "free"
                   PROVE  task'[current'[u]] # NoTask /\ task'[current'[u]].state = "executing"
        OBVIOUS
      <3>1. pc[u] = "free" /\ current'[u] = current[u]
        BY <2>3
      <3>2. task[current[u]] # NoTask /\ task[current[u]].state = "executing"
        BY <3>1 DEF WorkInv, HandsGood
      <3> QED
        BY <1>0, <3>1, <3>2
    <2>5. \A u \in Threads : pc'[u] = "push" =>
            /\ task'[current'[u]] # NoTask
            /\ task'[current'[u]].state = "allocated"
            /\ task'[current'[u]].kind = "map"
            /\ deque'[slot'[u]].tail - deque'[slot'[u]].head < deque'[slot'[u]].capacity
      <3> SUFFICES ASSUME NEW u \in Threads, pc'[u] = "push"
                   PROVE  /\ task'[current'[u]] # NoTask
                          /\ task'[current'[u]].state = "allocated"
                          /\ task'[current'[u]].kind = "map"
                          /\ deque'[slot'[u]].tail - deque'[slot'[u]].head
                               < deque'[slot'[u]].capacity
        OBVIOUS
      <3>1. pc[u] = "push" /\ current'[u] = current[u] /\ task'[current[u]] = task[current[u]]
        BY <1>0, <2>3
      <3>2. /\ task[current[u]] # NoTask
            /\ task[current[u]].state = "allocated"
            /\ task[current[u]].kind = "map"
            /\ deque[slot[u]].tail - deque[slot[u]].head < deque[slot[u]].capacity
        BY <3>1 DEF WorkInv, HandsGood
      <3> QED
        BY <1>0, <3>1, <3>2
    <2> QED
      BY <2>1, <2>2, <2>4, <2>5 DEF HandsGood
  <1>8. GlancesGood'
    <2>1. GlanceGood(t)'
      BY <1>1 DEF GlanceGood
    <2> QED
      BY <1>0, <1>1, <2>1, GlancesStay
  <1>9. Placed'
    <2>1. \A u \in Threads \ {t} : (Carries(u)' <=> Carries(u))
                                   /\ (Carries(u) => TaskWith(u)' = TaskWith(u))
      BY <1>0, <1>1 DEF Carries, TaskWith
    <2>2. Carries(t)' /\ TaskWith(t)' = x
      BY <1>1 DEF Carries, TaskWith
    <2>3. \A s \in Slots : Queued(s)' = Queued(s) /\ \A k \in Queued(s) : Entry(s, k)' = Entry(s, k)
      BY <1>0 DEF Queued, Entry
    <2> QED
      BY <1>0, <1>2, <2>1, <2>2, <2>3, NoTaskMoved DEF WorkInv
  <1>10. OwnersBusy'
    BY <1>0, <1>1 DEF WorkInv, OwnersBusy
  <1> QED
    BY <1>0, <1>5, <1>6, <1>7, <1>8, <1>9, <1>10, TasksUntouched DEF WorkInv

(* The master's map begins: a task that waits, and the whole map.          *)
LEMMA MapStartKeeps ==
    ASSUME SlotInv, WorkInv, MapStart
    PROVE  WorkInv'
  <1> SUFFICES ASSUME NEW waiting, waiting = FirstFresh, NEW root, root = SecondFresh
               PROVE  WorkInv'
    OBVIOUS
  <1>0. /\ pc[Master] = "wake" /\ TwoAreFree
        /\ task' = [task EXCEPT ![waiting] = JoinTask("wait", None, 1),
                                ![root] = MapTask(0, Length, waiting, "ready")]
        /\ current' = [current EXCEPT ![Master] = root]
        /\ pc' = [pc EXCEPT ![Master] = "run"]
        /\ deque' = deque /\ glance' = glance /\ slot' = slot
        /\ Master \in Threads
    BY DEF MapStart, GoTo, arena, Threads
  <1>1. /\ waiting \in TaskIds \ Live /\ root \in TaskIds \ Live /\ waiting # root
        /\ root # None /\ waiting # None
    BY <1>0, FreshTasks, LiveTasks DEF WorkInv
  <1>2. /\ pc'[Master] = "run" /\ \A u \in Threads \ {Master} : pc'[u] = pc[u]
        /\ current'[Master] = root /\ \A u \in Threads \ {Master} : current'[u] = current[u]
    BY <1>0 DEF SlotInv, SlotTypeOK, WorkInv, WorkTypeOK
  <1>3. /\ task'[waiting] = JoinTask("wait", None, 1)
        /\ task'[root] = MapTask(0, Length, waiting, "ready")
        /\ \A y \in TaskIds \ {waiting, root} : task'[y] = task[y]
        /\ task' = [y \in TaskIds |-> task'[y]]
    BY <1>0, <1>1 DEF WorkInv, WorkTypeOK
  <1>4. /\ task'[waiting] \in TaskType /\ task'[root] \in TaskType
        /\ task'[waiting].successor = None /\ task'[root].successor = waiting
        /\ task'[waiting].kind = "wait" /\ task'[waiting].state = "allocated"
        /\ task'[root].state = "ready"
        /\ task'[waiting].preds = 1 /\ task'[root].preds = 0
    BY <1>1, <1>3, SchedulerAssumption DEF TaskType, JoinTask, MapTask
  <1>5. WorkTypeOK'
    <2>1. \A y \in TaskIds : task'[y] \in TaskType \cup {NoTask}
      BY <1>3, <1>4 DEF WorkInv, WorkTypeOK
    <2> QED
      BY <1>0, <1>1, <1>3, <2>1 DEF WorkInv, WorkTypeOK
  <1>6. Live' = Live \cup {waiting, root}
    <2>1. task'[waiting] # NoTask /\ task'[root] # NoTask
      BY <1>4, LiveTasks DEF WorkInv
    <2>2. ASSUME NEW y \in TaskIds PROVE y \in Live' <=> y \in Live \cup {waiting, root}
      <3>1. CASE y \in {waiting, root}
        BY <2>1, <3>1 DEF Live
      <3>2. CASE y \notin {waiting, root}
        BY <1>3, <3>2 DEF Live
      <3> QED
        BY <3>1, <3>2
    <2> QED
      BY <1>1, <2>2 DEF Live
  <1>7. \A y \in Live : y # waiting /\ y # root /\ task'[y] = task[y]
    BY <1>1, <1>3 DEF Live
  <1>8. \A y \in Live : task[y].successor # waiting /\ task[y].successor # root
    BY <1>1 DEF WorkInv, SuccessorsWait
  <1>9. SuccessorsWait'
    <2> SUFFICES ASSUME NEW y \in Live', NEW r, r = task'[y].successor, r # None
                 PROVE  r \in Live' /\ task'[r].kind # "map" /\ task'[r].state = "allocated"
      BY DEF SuccessorsWait
    <2>1. CASE y = root
      BY <1>4, <1>6, <2>1
    <2>2. CASE y = waiting
      BY <1>4, <2>2
    <2>3. CASE y \in Live
      <3>1. r \in Live /\ task[r].kind # "map" /\ task[r].state = "allocated"
        BY <1>7, <2>3 DEF WorkInv, SuccessorsWait
      <3> QED
        BY <1>6, <1>7, <3>1
    <2> QED
      BY <1>6, <2>1, <2>2, <2>3
  <1>10. PredecessorsCounted'
    <2>1. Predecessors(waiting)' = {root}
      BY <1>1, <1>4, <1>6, <1>7, <1>8 DEF Predecessors
    <2>2. Predecessors(root)' = {}
      BY <1>1, <1>4, <1>6, <1>7, <1>8 DEF Predecessors
    <2>3. ASSUME NEW y \in Live PROVE Predecessors(y)' = Predecessors(y)
      <3>1. y # None
        BY LiveTasks DEF WorkInv, Live
      <3> QED
        BY <1>1, <1>4, <1>6, <1>7, <1>8, <3>1 DEF Predecessors
    <2>4. Cardinality({root}) = 1 /\ Cardinality({}) = 0
      BY FS_Singleton, FS_EmptySet
    <2>5. ASSUME NEW y \in Live' PROVE task'[y].preds = Cardinality(Predecessors(y)')
      <3>1. CASE y = waiting
        BY <1>4, <2>1, <2>4, <3>1
      <3>2. CASE y = root
        BY <1>4, <2>2, <2>4, <3>2
      <3>3. CASE y \in Live
        BY <1>7, <2>3, <3>3 DEF WorkInv, PredecessorsCounted
      <3> QED
        BY <1>6, <3>1, <3>2, <3>3
    <2> QED
      BY <2>5 DEF PredecessorsCounted
  <1>11. DequesGood'
    BY <1>0 DEF WorkInv, DequesGood
  <1>12. GlancesGood'
    BY <1>0, <1>2 DEF WorkInv, GlancesGood, GlanceGood
  <1>13. \A u \in Threads \ {Master} : current[u] # root
    <2> SUFFICES ASSUME NEW u \in Threads, current[u] = root PROVE FALSE
      OBVIOUS
    <2>1. pc[u] \in {"run", "free", "push"}
      BY <1>1 DEF WorkInv, HandsGood
    <2>2. task[root] = NoTask
      BY <1>1 DEF Live
    <2>3. pc[u] = "run"
      BY <2>1, <2>2 DEF WorkInv, HandsGood
    <2>4. IsReady(root)
      BY <2>3 DEF WorkInv, Placed, Carries, TaskWith
    <2> QED
      BY <1>1, <2>4 DEF IsReady
  <1>14. HandsGood'
    <2>1. ASSUME NEW u \in Threads, pc'[u] \in {"free", "push"}
          PROVE  /\ pc[u] = pc'[u] /\ current'[u] = current[u]
                 /\ task'[current[u]] = task[current[u]]
      <3>1. pc[u] = pc'[u] /\ current'[u] = current[u]
        BY <1>2, <2>1
      <3>2. current[u] # None /\ task[current[u]] # NoTask
        BY <2>1, <3>1 DEF WorkInv, HandsGood
      <3>3. current[u] \in Live
        BY <3>2 DEF WorkInv, WorkTypeOK, Live
      <3> QED
        BY <1>7, <3>1, <3>3
    <2>2. \A u \in Threads : pc'[u] = "free" =>
            task'[current'[u]] # NoTask /\ task'[current'[u]].state = "executing"
      BY <2>1 DEF WorkInv, HandsGood
    <2>3. \A u \in Threads : pc'[u] = "push" =>
            /\ task'[current'[u]] # NoTask
            /\ task'[current'[u]].state = "allocated"
            /\ task'[current'[u]].kind = "map"
            /\ deque'[slot'[u]].tail - deque'[slot'[u]].head < deque'[slot'[u]].capacity
      <3> SUFFICES ASSUME NEW u \in Threads, pc'[u] = "push"
                   PROVE  /\ task'[current'[u]] # NoTask
                          /\ task'[current'[u]].state = "allocated"
                          /\ task'[current'[u]].kind = "map"
                          /\ deque'[slot'[u]].tail - deque'[slot'[u]].head
                               < deque'[slot'[u]].capacity
        OBVIOUS
      <3>1. pc[u] = "push" /\ current'[u] = current[u] /\ task'[current[u]] = task[current[u]]
        BY <2>1
      <3>2. /\ task[current[u]] # NoTask
            /\ task[current[u]].state = "allocated"
            /\ task[current[u]].kind = "map"
            /\ deque[slot[u]].tail - deque[slot[u]].head < deque[slot[u]].capacity
        BY <3>1 DEF WorkInv, HandsGood
      <3> QED
        BY <1>0, <3>1, <3>2
    <2>4. \A u \in Threads : pc'[u] \in {"run", "free", "push"} <=> current'[u] # None
      BY <1>1, <1>2 DEF WorkInv, HandsGood
    <2>5. \A u, v \in Threads : current'[u] # None /\ current'[u] = current'[v] => u = v
      BY <1>2, <1>13 DEF WorkInv, HandsGood
    <2> QED
      BY <2>2, <2>3, <2>4, <2>5 DEF HandsGood
  <1>15. Placed'
    <2>1. \A u \in Threads \ {Master} : (Carries(u)' <=> Carries(u))
                                        /\ (Carries(u) => TaskWith(u)' = TaskWith(u))
      BY <1>0, <1>2 DEF Carries, TaskWith
    <2>2. ~Carries(Master) /\ Carries(Master)' /\ TaskWith(Master)' = root
      BY <1>0, <1>2 DEF Carries, TaskWith
    <2>3. \A s \in Slots : Queued(s)' = Queued(s) /\ \A k \in Queued(s) : Entry(s, k)' = Entry(s, k)
      BY <1>0 DEF Queued, Entry
    <2>4. /\ \A y : y # root => (IsReady(y)' <=> IsReady(y))
          /\ IsReady(root)' /\ ~IsReady(root)
      <3>1. ASSUME NEW y, y # root PROVE IsReady(y)' <=> IsReady(y)
        <4>1. CASE y = waiting
          BY <1>1, <1>4, <4>1 DEF IsReady
        <4>2. CASE y # waiting
          BY <1>6, <1>7, <3>1, <4>2 DEF IsReady
        <4> QED
          BY <4>1, <4>2
      <3>2. IsReady(root)' /\ ~IsReady(root)
        BY <1>1, <1>4, <1>6 DEF IsReady
      <3> QED
        BY <3>1, <3>2
    <2> QED
      BY <1>0, <2>1, <2>2, <2>3, <2>4 DEF WorkInv, Placed
  <1>16. OwnersBusy'
    BY <1>0, <1>2 DEF WorkInv, OwnersBusy
  <1> QED
    BY <1>5, <1>9, <1>10, <1>11, <1>12, <1>14, <1>15, <1>16 DEF WorkInv

-----------------------------------------------------------------------------
\* All steps.

(* A step of executing and stealing keeps the invariant of the tasks.      *)
LEMMA ExecuteKeeps ==
    ASSUME SlotInv, WorkInv, EntriesKept, NEW t \in Threads, Execute(t)
    PROVE  WorkInv'
  <1>1. CASE Run(t)
    BY <1>1, RunKeeps
  <1>2. CASE Free(t)
    BY <1>2, FreeKeeps
  <1>3. CASE Divide(t)
    BY <1>3, DivideKeeps
  <1>4. CASE Push(t)
    BY <1>4, PushKeeps
  <1>5. CASE Pop(t)
    BY <1>5, PopNothingKeeps, PopTaskKeeps
  <1>6. CASE Look(t)
    BY <1>6, LookKeeps
  <1>7. CASE Steal(t)
    BY <1>7, StealKeeps
  <1>8. CASE LookAgain(t)
    BY <1>8, LookAgainKeeps
  <1>9. CASE Take(t)
    BY <1>9, TakeKeeps
  <1> QED
    BY <1>1, <1>2, <1>3, <1>4, <1>5, <1>6, <1>7, <1>8, <1>9 DEF Execute

(* Coming, going, waking and sleeping, of which only the slot of a thread  *)
(* that has no work changes anything the tasks depend on.                  *)
LEMMA MoverKeeps ==
    ASSUME SlotInv, WorkInv, UNCHANGED work, NEW t \in Threads, NEW place \in Quiet,
           pc[t] \in Quiet, GoTo(t, place),
           \A u \in Threads \ {t} : slot'[u] = slot[u]
    PROVE  WorkInv'
  <1>1. pc'[t] \in Quiet /\ \A u \in Threads \ {t} : pc'[u] = pc[u]
    BY DEF GoTo, SlotInv, SlotTypeOK
  <1> QED
    BY <1>1, WorkUntouched

(* The steps of a master.                                                  *)
LEMMA MasterKeepsWork ==
    ASSUME SlotInv, WorkInv, EntriesKept, MasterStep
    PROVE  WorkInv'
  <1>0. Master \in Threads
    BY DEF Threads
  <1>1. CASE Execute(Master)
    BY <1>0, <1>1, ExecuteKeeps
  <1>2. CASE MapStart
    BY <1>2, MapStartKeeps
  <1>3. CASE Wake \/ Sleep
    <2>1. UNCHANGED work /\ UNCHANGED <<pc, slot>>
      BY <1>3 DEF Wake, Sleep, arena
    <2> QED
      BY <2>1, WorkUntouched
  <1>4. CASE Enter \/ Mark(Master, "wake") \/ MapReturn \/ Leave \/ Unmark(Master)
    <2>1. PICK place \in Quiet : GoTo(Master, place) /\ pc[Master] \in Quiet
      BY <1>4 DEF Enter, Mark, MapReturn, Leave, Unmark, Quiet, Places, Outside
    <2>2. UNCHANGED work /\ slot' = slot
      BY <1>4 DEF Enter, Mark, MapReturn, Leave, Unmark, arena
    <2> QED
      BY <1>0, <2>1, <2>2, MoverKeeps
  <1>5. CASE Unslot(Master, "out")
    <2>1. "out" \in Quiet /\ GoTo(Master, "out") /\ pc[Master] \in Quiet
      BY <1>5 DEF Unslot, Quiet, Places, Outside
    <2>2. UNCHANGED work /\ \A u \in Threads \ {Master} : slot'[u] = slot[u]
      BY <1>5 DEF Unslot, SlotInv, SlotTypeOK
    <2> QED
      BY <1>0, <2>1, <2>2, MoverKeeps
  <1> QED
    BY <1>1, <1>2, <1>3, <1>4, <1>5 DEF MasterStep

(* The steps of a worker.                                                  *)
LEMMA WorkerKeepsWork ==
    ASSUME SlotInv, WorkInv, EntriesKept, NEW w \in Workers, Worker(w)
    PROVE  WorkInv'
  <1>0. w \in Threads
    BY DEF Threads
  <1>1. CASE Execute(w)
    BY <1>0, <1>1, ExecuteKeeps
  <1>2. CASE Awake(w) \/ PassOn(w) \/ FindNoSlot(w) \/ Mark(w, "steal") \/ GiveUp(w) \/ Unmark(w)
    <2>1. PICK place \in Quiet : GoTo(w, place) /\ pc[w] \in Quiet
      BY <1>2 DEF Awake, PassOn, FindNoSlot, Mark, GiveUp, Unmark, Quiet, Places, Outside
    <2>2. UNCHANGED work /\ slot' = slot
      BY <1>2 DEF Awake, PassOn, FindNoSlot, Mark, GiveUp, Unmark, arena
    <2> QED
      BY <1>0, <2>1, <2>2, MoverKeeps
  <1>3. CASE Attach(w)
    <2>1. "mark" \in Quiet /\ GoTo(w, "mark") /\ pc[w] \in Quiet
      BY <1>3 DEF Attach, Quiet, Places, Outside
    <2>2. UNCHANGED work /\ \A u \in Threads \ {w} : slot'[u] = slot[u]
      BY <1>3 DEF Attach, SlotInv, SlotTypeOK
    <2> QED
      BY <1>0, <2>1, <2>2, MoverKeeps
  <1>4. CASE Unslot(w, "idle")
    <2>1. "idle" \in Quiet /\ GoTo(w, "idle") /\ pc[w] \in Quiet
      BY <1>4 DEF Unslot, Quiet, Places, Outside
    <2>2. UNCHANGED work /\ \A u \in Threads \ {w} : slot'[u] = slot[u]
      BY <1>4 DEF Unslot, SlotInv, SlotTypeOK
    <2> QED
      BY <1>0, <2>1, <2>2, MoverKeeps
  <1> QED
    BY <1>1, <1>2, <1>3, <1>4 DEF Worker

(* Every step that keeps the entries of the deques keeps the invariant.    *)
LEMMA WorkInvInductive == SlotInv /\ WorkInv /\ [Next]_vars /\ [EntriesKept]_vars => WorkInv'
  <1> SUFFICES ASSUME SlotInv, WorkInv, [Next]_vars, [EntriesKept]_vars PROVE WorkInv'
    OBVIOUS
  <1>1. CASE UNCHANGED vars
    <2>1. UNCHANGED work /\ UNCHANGED <<pc, slot>>
      BY <1>1 DEF vars, work
    <2> QED
      BY <2>1, WorkUntouched
  <1>2. CASE Next /\ EntriesKept
    BY <1>2, MasterKeepsWork, WorkerKeepsWork DEF Next
  <1> QED
    BY <1>1, <1>2

(* It implies that a thread runs only what is Ready, and alone.            *)
LEMMA WorkInvRunsReady == WorkInv => OnlyReadyTasksRun
  <1> SUFFICES ASSUME WorkInv, NEW t \in Threads, pc[t] = "run"
               PROVE  /\ IsReady(current[t])
                      /\ \A u \in Threads \ {t} : current[u] # current[t]
    BY DEF OnlyReadyTasksRun
  <1>1. Carries(t) /\ TaskWith(t) = current[t]
    BY DEF Carries, TaskWith
  <1>2. IsReady(current[t])
    BY <1>1 DEF WorkInv, Placed
  <1>3. current[t] # None
    BY DEF WorkInv, HandsGood
  <1> QED
    BY <1>2, <1>3 DEF WorkInv, HandsGood

-----------------------------------------------------------------------------
\* What the steps that change tasks do to them

\* A task keeps all but its state and its count.
FormKept(x) ==
    /\ task'[x].kind = task[x].kind
    /\ task'[x].lo = task[x].lo
    /\ task'[x].hi = task[x].hi
    /\ task'[x].successor = task[x].successor

(* A thread at work has a slot.                                            *)
LEMMA AtWork ==
    ASSUME SlotInv, NEW t \in Threads,
           pc[t] \in {"run", "free", "push", "pop", "steal", "cas", "take"}
    PROVE  slot[t] \in Slots /\ \A u \in Threads \ {t} : slot[u] # slot[t]
  <1>1. pc[t] \notin Outside /\ pc[t] # "out"
    BY DEF Outside
  <1> QED
    BY <1>1, Inside

(* A ready task is executed.                                               *)
LEMMA RunDoes ==
    ASSUME WorkInv, NEW t \in Threads, Run(t), NEW x, x = current[t]
    PROVE  /\ x \in Live /\ task[x].state = "ready" /\ task'[x].state = "executing"
           /\ Live' = Live
           /\ \A y \in Live : FormKept(y)
           /\ \A y \in Live \ {x} : task'[y] = task[y]
  <1>1. IsReady(x) /\ task' = [task EXCEPT ![x].state = "executing"]
    BY DEF Run
  <1>2. x \in TaskIds /\ x \in Live /\ task[x] \in TaskType /\ task[x].state = "ready"
    BY <1>1, LiveTasks DEF IsReady, WorkInv
  <1>3. /\ task'[x] = [task[x] EXCEPT !.state = "executing"]
        /\ \A y \in TaskIds \ {x} : task'[y] = task[y]
    BY <1>1, <1>2 DEF WorkInv, WorkTypeOK
  <1>4. task'[x] \in TaskType /\ task'[x].state = "executing" /\ FormKept(x)
    BY <1>2, <1>3 DEF TaskType, FormKept
  <1>5. Live' = Live
    <2>1. task'[x] # NoTask
      BY <1>4, LiveTasks DEF WorkInv
    <2> QED
      BY <1>2, <1>3, <2>1 DEF Live
  <1>6. \A y \in Live \ {x} : task'[y] = task[y]
    BY <1>3 DEF Live
  <1> QED
    BY <1>2, <1>4, <1>5, <1>6 DEF FormKept

(* The left half is ready again.                                           *)
LEMMA PushDoes ==
    ASSUME WorkInv, NEW t \in Threads, Push(t), NEW x, x = current[t]
    PROVE  /\ x \in Live /\ task[x].kind = "map"
           /\ task[x].state = "allocated" /\ task'[x].state = "ready"
           /\ Live' = Live
           /\ \A y \in Live : FormKept(y)
           /\ \A y \in Live \ {x} : task'[y] = task[y]
  <1>1. pc[t] = "push" /\ task' = [task EXCEPT ![x].state = "ready"]
    BY DEF Push
  <1>2. /\ x \in TaskIds /\ x \in Live /\ task[x] \in TaskType
        /\ task[x].state = "allocated" /\ task[x].kind = "map"
    <2>1. x # None /\ task[x] # NoTask /\ task[x].state = "allocated" /\ task[x].kind = "map"
      BY <1>1 DEF WorkInv, HandsGood
    <2>2. x \in TaskIds
      BY <2>1 DEF WorkInv, WorkTypeOK
    <2> QED
      BY <2>1, <2>2, LiveTasks DEF WorkInv, Live
  <1>3. /\ task'[x] = [task[x] EXCEPT !.state = "ready"]
        /\ \A y \in TaskIds \ {x} : task'[y] = task[y]
    BY <1>1, <1>2 DEF WorkInv, WorkTypeOK
  <1>4. task'[x] \in TaskType /\ task'[x].state = "ready" /\ FormKept(x)
    BY <1>2, <1>3 DEF TaskType, FormKept
  <1>5. Live' = Live
    <2>1. task'[x] # NoTask
      BY <1>4, LiveTasks DEF WorkInv
    <2> QED
      BY <1>2, <1>3, <2>1 DEF Live
  <1>6. \A y \in Live \ {x} : task'[y] = task[y]
    BY <1>3 DEF Live
  <1> QED
    BY <1>2, <1>4, <1>5, <1>6 DEF FormKept

(* The task is gone, and its successor waits for one task less.            *)
LEMMA FreeDoes ==
    ASSUME WorkInv, NEW t \in Threads, Free(t), NEW x, x = current[t],
           NEW s, s = task[x].successor
    PROVE  /\ x \in Live /\ task[x].state = "executing"
           /\ Live' = Live \ {x}
           /\ \A y \in Live' : FormKept(y)
           /\ \A y \in Live' : y # s => task'[y] = task[y]
           /\ s # None => /\ s \in Live' /\ task[s].kind # "map"
                          /\ task[s].state = "allocated" /\ task'[s].state # "executing"
  <1>1. pc[t] = "free" /\ task' = FreeAndTest(x)
    BY DEF Free
  <1>2. /\ x \in TaskIds /\ x \in Live /\ task[x] \in TaskType /\ task[x].state = "executing"
    <2>1. x # None /\ task[x] # NoTask /\ task[x].state = "executing"
      BY <1>1 DEF WorkInv, HandsGood
    <2>2. x \in TaskIds
      BY <2>1 DEF WorkInv, WorkTypeOK
    <2> QED
      BY <2>1, <2>2, LiveTasks DEF WorkInv, Live
  <1>3. s # None => /\ s \in Live /\ s \in TaskIds /\ s # x /\ task[s] \in TaskType
                    /\ task[s].kind # "map" /\ task[s].state = "allocated"
    <2> SUFFICES ASSUME s # None
                 PROVE  /\ s \in Live /\ s \in TaskIds /\ s # x /\ task[s] \in TaskType
                        /\ task[s].kind # "map" /\ task[s].state = "allocated"
      OBVIOUS
    <2>1. s \in Live /\ task[s].kind # "map" /\ task[s].state = "allocated"
      BY <1>2 DEF WorkInv, SuccessorsWait
    <2> QED
      BY <1>2, <2>1, LiveTasks DEF WorkInv, Live
  <1>4. PICK state \in {"ready", "allocated"}, preds \in Int :
          /\ task'[x] = NoTask
          /\ \A y \in TaskIds \ {x, s} : task'[y] = task[y]
          /\ s # None => task'[s] = [task[s] EXCEPT !.preds = preds, !.state = state]
                         /\ preds = task[s].preds - 1
    <2>0. task = [y \in TaskIds |-> task[y]]
      BY DEF WorkInv, WorkTypeOK
    <2>1. CASE s = None
      <3>1. task' = [task EXCEPT ![x] = NoTask]
        BY <1>1, <2>1 DEF FreeAndTest
      <3>2. task'[x] = NoTask /\ \A y \in TaskIds \ {x, s} : task'[y] = task[y]
        BY <1>2, <2>0, <3>1
      <3> WITNESS "ready" \in {"ready", "allocated"}, 0 \in Int
      <3> QED
        BY <2>1, <3>2
    <2>2. CASE s # None
      <3>1. PICK state : state = IF task[s].preds = 1 THEN "ready" ELSE task[s].state
        OBVIOUS
      <3>2. state \in {"ready", "allocated"}
        BY <1>3, <2>2, <3>1
      <3>3. task' = [[task EXCEPT ![x] = NoTask] EXCEPT
                        ![s].preds = task[s].preds - 1,
                        ![s].state = state]
        BY <1>1, <2>2, <3>1 DEF FreeAndTest
      <3>4. PICK n \in Int : n = task[s].preds - 1
        BY <1>3, <2>2 DEF TaskType
      <3>5. task'[s] = [task[s] EXCEPT !.preds = n, !.state = state]
        BY <1>2, <1>3, <2>0, <2>2, <3>3, <3>4
      <3> QED
        BY <1>2, <1>3, <2>0, <2>2, <3>2, <3>3, <3>4, <3>5
    <2> QED
      BY <2>1, <2>2
  <1>5. s # None => task'[s] \in TaskType /\ FormKept(s) /\ task'[s].state # "executing"
    <2> SUFFICES ASSUME s # None
                 PROVE  task'[s] \in TaskType /\ FormKept(s) /\ task'[s].state # "executing"
      OBVIOUS
    <2>1. PICK r \in TaskType : r = task[s]
      BY <1>3
    <2>2. PICK n \in Int : n = preds
      OBVIOUS
    <2>3. PICK r1 : r1 = [r EXCEPT !.preds = n]
      OBVIOUS
    <2>4. /\ r1 \in TaskType /\ r1.kind = r.kind /\ r1.lo = r.lo /\ r1.hi = r.hi
          /\ r1.successor = r.successor
      BY <2>1, <2>3 DEF TaskType
    <2>5. task'[s] = [r1 EXCEPT !.state = state]
      BY <1>4, <2>1, <2>2, <2>3
    <2> QED
      BY <2>1, <2>4, <2>5 DEF TaskType, FormKept
  <1>6. Live' = Live \ {x}
    <2>1. s # None => task'[s] # NoTask
      BY <1>5, LiveTasks DEF WorkInv
    <2>2. ASSUME NEW y \in TaskIds PROVE y \in Live' <=> y \in Live \ {x}
      <3>1. CASE y = x
        BY <1>4, <3>1 DEF Live
      <3>2. CASE y = s /\ y # x
        BY <1>3, <2>1, <3>2, LiveTasks DEF WorkInv, Live
      <3>3. CASE y # s /\ y # x
        BY <1>4, <3>3 DEF Live
      <3> QED
        BY <3>1, <3>2, <3>3
    <2> QED
      BY <1>2, <2>2 DEF Live
  <1>7. \A y \in Live' : y # s => task'[y] = task[y]
    BY <1>4, <1>6 DEF Live
  <1> QED
    BY <1>2, <1>3, <1>5, <1>6, <1>7, LiveTasks DEF FormKept, WorkInv, Live

Size(x) == task[x].hi - task[x].lo

(* A task that divides keeps its left half, which is not the larger one;   *)
(* the right half and the continuation are new.                            *)
LEMMA DivideDoes ==
    ASSUME WorkInv, NEW t \in Threads, Divide(t), NEW x, x = current[t],
           NEW join, join = FirstFresh, NEW right, right = SecondFresh
    PROVE  /\ x \in Live /\ task[x].kind = "map" /\ task[x].state = "ready"
           /\ join \in TaskIds \ Live /\ right \in TaskIds \ Live /\ join # right
           /\ Live' = Live \cup {join, right}
           /\ \A y \in Live \ {x} : task'[y] = task[y]
           /\ task'[x].kind = "map" /\ task'[x].state = "allocated" /\ task'[x].successor = join
           /\ task'[right].kind = "map" /\ task'[right].state = "ready"
           /\ task'[right].successor = join
           /\ task'[join].kind = "continuation" /\ task'[join].state = "allocated"
           /\ task'[join].successor = task[x].successor
           /\ Size(x) \in Int /\ Size(x)' \in Int /\ Size(right)' \in Int
           /\ Size(x)' >= 1 /\ Size(right)' >= Size(x)'
           /\ Size(x)' + Size(right)' = Size(x)
  <1> SUFFICES ASSUME NEW s, s = task[x].successor
               PROVE  /\ x \in Live /\ task[x].kind = "map" /\ task[x].state = "ready"
                      /\ join \in TaskIds \ Live /\ right \in TaskIds \ Live /\ join # right
                      /\ Live' = Live \cup {join, right}
                      /\ \A y \in Live \ {x} : task'[y] = task[y]
                      /\ task'[x].kind = "map" /\ task'[x].state = "allocated"
                      /\ task'[x].successor = join
                      /\ task'[right].kind = "map" /\ task'[right].state = "ready"
                      /\ task'[right].successor = join
                      /\ task'[join].kind = "continuation" /\ task'[join].state = "allocated"
                      /\ task'[join].successor = s
                      /\ Size(x) \in Int /\ Size(x)' \in Int /\ Size(right)' \in Int
                      /\ Size(x)' >= 1 /\ Size(right)' >= Size(x)'
                      /\ Size(x)' + Size(right)' = Size(x)
    OBVIOUS
  <1>0. /\ IsReady(x) /\ ~IsLeaf(x) /\ TwoAreFree
        /\ task' = Split(x)
    BY DEF Divide
  <1>1. /\ x \in TaskIds /\ x \in Live /\ task[x] \in TaskType /\ task[x].state = "ready"
        /\ task[x].kind = "map" /\ s \in TaskIds \cup {None}
    <2>1. x \in TaskIds /\ x \in Live /\ task[x].state = "ready" /\ task[x].kind = "map"
      BY <1>0 DEF IsReady, IsLeaf
    <2> QED
      BY <2>1, LiveTasks DEF WorkInv, TaskType
  <1>2. /\ join \in TaskIds \ Live /\ right \in TaskIds \ Live /\ join # right
        /\ join # x /\ right # x
    BY <1>0, <1>1, FreshTasks
  <1>3. PICK lo \in Int, hi \in Int : lo = task[x].lo /\ hi = task[x].hi
    BY <1>1 DEF TaskType
  <1>4. hi - lo >= 2
    BY <1>0, <1>1, <1>3 DEF IsLeaf
  <1>5. PICK half \in Int : half = (hi - lo) \div 2
    OBVIOUS
  <1>6. half >= 1 /\ 2 * half <= hi - lo
    BY <1>4, <1>5
  <1>7. PICK middle \in Int : middle = lo + half
    OBVIOUS
  <1>8. /\ task'[join] = JoinTask("continuation", s, Halves)
        /\ task'[right] = MapTask(middle, hi, join, "ready")
        /\ task'[x] = MapTask(lo, middle, join, "allocated")
        /\ \A y \in TaskIds \ {x, join, right} : task'[y] = task[y]
    <2>1. task' = [task EXCEPT ![join] = JoinTask("continuation", s, Halves),
                               ![right] = MapTask(middle, hi, join, "ready"),
                               ![x] = MapTask(lo, middle, join, "allocated")]
      BY <1>0, <1>3, <1>5, <1>7 DEF Split
    <2> QED
      BY <1>1, <1>2, <2>1 DEF WorkInv, WorkTypeOK
  <1>9. /\ task'[join] \in TaskType /\ task'[right] \in TaskType /\ task'[x] \in TaskType
        /\ task'[join].successor = s /\ task'[right].successor = join /\ task'[x].successor = join
        /\ task'[join].kind = "continuation" /\ task'[right].kind = "map" /\ task'[x].kind = "map"
        /\ task'[join].state = "allocated" /\ task'[right].state = "ready"
        /\ task'[x].state = "allocated"
        /\ task'[right].lo = middle /\ task'[right].hi = hi
        /\ task'[x].lo = lo /\ task'[x].hi = middle
    BY <1>1, <1>2, <1>8 DEF TaskType, JoinTask, MapTask, Halves
  <1>10. Live' = Live \cup {join, right}
    <2>1. task'[join] # NoTask /\ task'[right] # NoTask /\ task'[x] # NoTask
      BY <1>9, LiveTasks DEF WorkInv
    <2>2. ASSUME NEW y \in TaskIds PROVE y \in Live' <=> y \in Live \cup {join, right}
      <3>1. CASE y \in {x, join, right}
        BY <1>1, <2>1, <3>1 DEF Live
      <3>2. CASE y \notin {x, join, right}
        BY <1>8, <3>2 DEF Live
      <3> QED
        BY <3>1, <3>2
    <2> QED
      BY <1>2, <2>2 DEF Live
  <1>11. \A y \in Live \ {x} : task'[y] = task[y]
    BY <1>2, <1>8 DEF Live
  <1>12. /\ Size(x) = hi - lo /\ Size(x)' = half /\ Size(right)' = hi - middle
    <2>1. Size(x) = hi - lo /\ Size(x)' = middle - lo /\ Size(right)' = hi - middle
      BY <1>3, <1>9 DEF Size
    <2> QED
      BY <1>7, <2>1
  <1>13. /\ Size(x) \in Int /\ Size(x)' \in Int /\ Size(right)' \in Int
         /\ Size(x)' >= 1 /\ Size(right)' >= Size(x)'
         /\ Size(x)' + Size(right)' = Size(x)
    BY <1>6, <1>7, <1>12
  <1> QED
    BY <1>1, <1>2, <1>9, <1>10, <1>11, <1>13

(* A map begins with two new tasks, one the successor of the other.        *)
LEMMA MapStartDoes ==
    ASSUME WorkInv, MapStart, NEW waiting, waiting = FirstFresh, NEW root, root = SecondFresh
    PROVE  /\ waiting \in TaskIds \ Live /\ root \in TaskIds \ Live /\ waiting # root
           /\ Live' = Live \cup {waiting, root}
           /\ \A y \in Live : task'[y] = task[y]
           /\ task'[waiting].kind = "wait" /\ task'[waiting].state = "allocated"
           /\ task'[waiting].successor = None
           /\ task'[root].kind = "map" /\ task'[root].state = "ready"
           /\ task'[root].successor = waiting
           /\ Size(root)' = Length
  <1>0. /\ TwoAreFree
        /\ task' = [task EXCEPT ![waiting] = JoinTask("wait", None, 1),
                                ![root] = MapTask(0, Length, waiting, "ready")]
    BY DEF MapStart
  <1>1. waiting \in TaskIds \ Live /\ root \in TaskIds \ Live /\ waiting # root
    BY <1>0, FreshTasks
  <1>2. /\ task'[waiting] = JoinTask("wait", None, 1)
        /\ task'[root] = MapTask(0, Length, waiting, "ready")
        /\ \A y \in TaskIds \ {waiting, root} : task'[y] = task[y]
    BY <1>0, <1>1 DEF WorkInv, WorkTypeOK
  <1>3. /\ task'[waiting] \in TaskType /\ task'[root] \in TaskType
        /\ task'[waiting].successor = None /\ task'[root].successor = waiting
        /\ task'[waiting].kind = "wait" /\ task'[waiting].state = "allocated"
        /\ task'[root].kind = "map" /\ task'[root].state = "ready"
        /\ task'[root].lo = 0 /\ task'[root].hi = Length
    BY <1>1, <1>2, SchedulerAssumption DEF TaskType, JoinTask, MapTask
  <1>4. Live' = Live \cup {waiting, root}
    <2>1. task'[waiting] # NoTask /\ task'[root] # NoTask
      BY <1>3, LiveTasks DEF WorkInv
    <2>2. ASSUME NEW y \in TaskIds PROVE y \in Live' <=> y \in Live \cup {waiting, root}
      <3>1. CASE y \in {waiting, root}
        BY <2>1, <3>1 DEF Live
      <3>2. CASE y \notin {waiting, root}
        BY <1>2, <3>2 DEF Live
      <3> QED
        BY <3>1, <3>2
    <2> QED
      BY <1>1, <2>2 DEF Live
  <1>5. \A y \in Live : task'[y] = task[y]
    BY <1>1, <1>2 DEF Live
  <1>6. Size(root)' = Length
    BY <1>3, SchedulerAssumption DEF Size
  <1> QED
    BY <1>1, <1>3, <1>4, <1>5, <1>6

-----------------------------------------------------------------------------
\* The tree of a map

\* The task that waits has been executed, by the master or by a worker.
Over(x) == task[x].kind = "wait" /\ task[x].state = "executing"

OnlyWaitIsRoot == \A x \in Live : task[x].kind = "wait" <=> task[x].successor = None

Ranked ==
    \E depth \in [TaskIds -> Nat] : \A x \in Live :
        task[x].successor # None => depth[task[x].successor] < depth[x]

OneWait ==
    \A x, y \in Live :
        task[x].kind = "wait" /\ task[y].kind = "wait" /\ ~Over(x) /\ ~Over(y) => x = y

InMap == {"run", "free", "push", "pop", "steal", "cas", "take"}

NothingIsLeft == (finished \/ pc[Master] \notin InMap) => \A x \in Live : Over(x)

TreeInv ==
    /\ finished \in BOOLEAN
    /\ OnlyWaitIsRoot
    /\ Ranked
    /\ OneWait
    /\ NothingIsLeft

(* Of some tasks, there is one that is not deeper than the others.         *)
LEMMA LeastDepth ==
    ASSUME NEW S, NEW depth \in [S -> Nat], S # {}
    PROVE  \E x \in S : \A y \in S : depth[x] <= depth[y]
  <1> DEFINE Less == {p \in Nat \X Nat : p[1] < p[2]}
  <1>1. IsWellFoundedOn(Less, Nat)
    BY NatLessThanWellFounded DEF OpToRel
  <1>2. PICK T \in SUBSET Nat : T = {depth[x] : x \in S}
    OBVIOUS
  <1>3. PICK n \in T : \A m \in T : <<m, n>> \notin Less
    <2> HIDE DEF Less
    <2>1. T # {} /\ T \subseteq Nat
      BY <1>2
    <2> QED
      BY <1>1, <2>1, WFMin
  <1>4. \A m \in T : n <= m
    <2> TAKE m \in T
    <2>1. m \in Nat /\ n \in Nat
      OBVIOUS
    <2>2. ~(m < n)
      BY <1>3, <2>1
    <2> QED
      BY <2>1, <2>2
  <1>5. PICK x \in S : n = depth[x]
    BY <1>2
  <1>6. \A y \in S : depth[y] \in T
    BY <1>2
  <1> QED
    BY <1>4, <1>5, <1>6

(* When the task that waits becomes ready, the map is done: the successors *)
(* of any other task of it would lead back to one that still waits.        *)
LEMMA ReadyWaitIsLast ==
    ASSUME WorkInv, TreeInv, NEW w \in Live, task[w].kind = "wait", task[w].state = "ready",
           NEW x \in Live, x # w
    PROVE  Over(x)
  <1> SUFFICES ASSUME ~Over(x) PROVE FALSE
    OBVIOUS
  <1>1. PICK S : S = {y \in Live : ~Over(y) /\ y # w}
    OBVIOUS
  <1>2. ASSUME NEW y \in S
        PROVE  task[y].successor # None /\ task[y].successor \in S
    <2>1. y \in Live /\ ~Over(y) /\ y # w /\ ~Over(w)
      BY <1>1 DEF Over
    <2>2. task[y].kind # "wait"
      BY <2>1 DEF TreeInv, OneWait
    <2>3. task[y].successor # None
      BY <2>1, <2>2 DEF TreeInv, OnlyWaitIsRoot
    <2>4. task[y].successor \in Live /\ task[task[y].successor].state = "allocated"
      BY <2>1, <2>3 DEF WorkInv, SuccessorsWait
    <2> QED
      BY <1>1, <2>3, <2>4 DEF Over
  <1>3. PICK depth \in [TaskIds -> Nat] : \A y \in Live :
          task[y].successor # None => depth[task[y].successor] < depth[y]
    BY DEF TreeInv, Ranked
  <1>4. S \subseteq TaskIds /\ x \in S
    BY <1>1 DEF Live
  <1>5. PICK d \in [S -> Nat] : \A y \in S : d[y] = depth[y]
    <2>1. [y \in S |-> depth[y]] \in [S -> Nat]
      BY <1>4
    <2> QED
      BY <2>1
  <1>6. PICK y \in S : \A z \in S : d[y] <= d[z]
    BY <1>4, <1>5, LeastDepth
  <1>7. PICK z \in S : z = task[y].successor
    BY <1>2
  <1>8. d[z] < d[y]
    BY <1>1, <1>2, <1>3, <1>5, <1>7
  <1> QED
    BY <1>5, <1>6, <1>7, <1>8

(* At first there is no map.                                               *)
LEMMA TreeInit == Init => TreeInv
  <1> SUFFICES ASSUME Init PROVE TreeInv
    OBVIOUS
  <1>1. Live = {} /\ finished = FALSE
    BY DEF Init, Live
  <1>2. [x \in TaskIds |-> 0] \in [TaskIds -> Nat]
    OBVIOUS
  <1>3. Ranked
    BY <1>1, <1>2 DEF Ranked
  <1> QED
    BY <1>1, <1>3 DEF TreeInv, OnlyWaitIsRoot, OneWait, NothingIsLeft

(* A step that makes no task and no task over keeps the tree.              *)
LEMMA TreeShrinks ==
    ASSUME TreeInv, Live' \subseteq Live,
           \A y \in Live' : FormKept(y) /\ (Over(y) => Over(y)'),
           \A y \in Live' : Over(y)' => Over(y),
           finished' = finished,
           pc'[Master] \notin InMap => finished \/ pc[Master] \notin InMap
    PROVE  TreeInv'
  <1>1. PICK depth \in [TaskIds -> Nat] : \A y \in Live :
          task[y].successor # None => depth[task[y].successor] < depth[y]
    BY DEF TreeInv, Ranked
  <1>2. \A y \in Live' : task'[y].successor # None => depth[task'[y].successor] < depth[y]
    BY <1>1 DEF FormKept
  <1>3. Ranked'
    BY <1>2 DEF Ranked
  <1>4. OnlyWaitIsRoot'
    BY DEF OnlyWaitIsRoot, FormKept, TreeInv
  <1>5. OneWait'
    <2> SUFFICES ASSUME NEW x \in Live', NEW y \in Live', task'[x].kind = "wait",
                        task'[y].kind = "wait", ~Over(x)', ~Over(y)'
                 PROVE  x = y
      BY DEF OneWait
    <2>1. ~Over(x) /\ ~Over(y) /\ task[x].kind = "wait" /\ task[y].kind = "wait"
      BY DEF FormKept
    <2> QED
      BY <2>1 DEF TreeInv, OneWait
  <1>6. NothingIsLeft'
    BY DEF TreeInv, NothingIsLeft
  <1> QED
    BY <1>3, <1>4, <1>5, <1>6 DEF TreeInv

(* Executing the task that waits ends the map.                             *)
LEMMA TreeRun ==
    ASSUME SlotInv, WorkInv, TreeInv, NEW t \in Threads, Run(t)
    PROVE  TreeInv'
  <1> SUFFICES ASSUME NEW x, x = current[t] PROVE TreeInv'
    OBVIOUS
  <1>1. /\ x \in Live /\ task[x].state = "ready" /\ task'[x].state = "executing"
        /\ Live' = Live
        /\ \A y \in Live : FormKept(y)
        /\ \A y \in Live \ {x} : task'[y] = task[y]
    BY RunDoes
  <1>2. /\ finished' = (finished \/ task[x].kind = "wait")
        /\ pc[t] = "run" /\ pc' = [pc EXCEPT ![t] = "free"]
    BY DEF Run, GoTo
  <1>3. pc'[Master] \notin InMap => pc[Master] \notin InMap
    BY <1>2 DEF SlotInv, SlotTypeOK, InMap, Threads
  <1>4. ~Over(x) /\ (Over(x)' <=> task[x].kind = "wait")
    BY <1>1 DEF Over, FormKept
  <1>5. CASE task[x].kind # "wait"
    <2>1. \A y \in Live' : Over(y)' <=> Over(y)
      BY <1>1, <1>4, <1>5 DEF Over
    <2>2. finished' = finished
      BY <1>2, <1>5 DEF TreeInv
    <2> QED
      BY <1>1, <1>3, <2>1, <2>2, TreeShrinks
  <1>6. CASE task[x].kind = "wait"
    <2>1. \A y \in Live' : Over(y)'
      <3> SUFFICES ASSUME NEW y \in Live PROVE Over(y)'
        BY <1>1
      <3>1. CASE y = x
        BY <1>4, <1>6, <3>1
      <3>2. CASE y # x
        <4>1. Over(y)
          BY <1>1, <1>6, <3>2, ReadyWaitIsLast
        <4> QED
          BY <1>1, <3>2, <4>1 DEF Over
      <3> QED
        BY <3>1, <3>2
    <2>2. PICK depth \in [TaskIds -> Nat] : \A y \in Live :
            task[y].successor # None => depth[task[y].successor] < depth[y]
      BY DEF TreeInv, Ranked
    <2>3. \A y \in Live' : task'[y].successor # None => depth[task'[y].successor] < depth[y]
      BY <1>1, <2>2 DEF FormKept
    <2>4. Ranked'
      BY <2>3 DEF Ranked
    <2>5. OnlyWaitIsRoot'
      BY <1>1 DEF TreeInv, OnlyWaitIsRoot, FormKept
    <2>6. finished' \in BOOLEAN
      BY <1>2 DEF TreeInv
    <2> QED
      BY <2>1, <2>4, <2>5, <2>6 DEF TreeInv, OneWait, NothingIsLeft
  <1> QED
    BY <1>5, <1>6

(* A freed task was over, or waited for by its successor.                  *)
LEMMA TreeFree ==
    ASSUME SlotInv, WorkInv, TreeInv, NEW t \in Threads, Free(t)
    PROVE  TreeInv'
  <1> SUFFICES ASSUME NEW x, x = current[t], NEW s, s = task[x].successor PROVE TreeInv'
    OBVIOUS
  <1>1. /\ Live' = Live \ {x}
        /\ \A y \in Live' : FormKept(y)
        /\ \A y \in Live' : y # s => task'[y] = task[y]
        /\ s # None => /\ s \in Live' /\ task[s].kind # "map"
                       /\ task[s].state = "allocated" /\ task'[s].state # "executing"
    BY FreeDoes
  <1>2. PICK place \in {"run", "pop"} : pc' = [pc EXCEPT ![t] = place] /\ finished' = finished
    BY DEF Free, GoTo
  <1>3. pc'[Master] \notin InMap => pc[Master] \notin InMap
    BY <1>2 DEF SlotInv, SlotTypeOK, InMap, Threads
  <1>4. \A y \in Live' : Over(y)' <=> Over(y)
    <2> SUFFICES ASSUME NEW y \in Live' PROVE Over(y)' <=> Over(y)
      OBVIOUS
    <2>1. CASE y # s
      BY <1>1, <2>1 DEF Over
    <2>2. CASE y = s
      <3>1. s # None
        BY <2>2, LiveTasks DEF WorkInv, Live
      <3> QED
        BY <1>1, <2>2, <3>1 DEF Over
    <2> QED
      BY <2>1, <2>2
  <1> QED
    BY <1>1, <1>2, <1>3, <1>4, TreeShrinks

(* Pushing changes the tree no more than a state.                          *)
LEMMA TreePush ==
    ASSUME SlotInv, WorkInv, TreeInv, NEW t \in Threads, Push(t)
    PROVE  TreeInv'
  <1> SUFFICES ASSUME NEW x, x = current[t] PROVE TreeInv'
    OBVIOUS
  <1>1. /\ x \in Live /\ task[x].kind = "map"
        /\ Live' = Live
        /\ \A y \in Live : FormKept(y)
        /\ \A y \in Live \ {x} : task'[y] = task[y]
    BY PushDoes
  <1>2. finished' = finished /\ pc' = [pc EXCEPT ![t] = "run"]
    BY DEF Push, GoTo
  <1>3. pc'[Master] \notin InMap => pc[Master] \notin InMap
    BY <1>2 DEF SlotInv, SlotTypeOK, InMap, Threads
  <1>4. \A y \in Live' : Over(y)' <=> Over(y)
    BY <1>1 DEF Over, FormKept
  <1> QED
    BY <1>1, <1>2, <1>3, <1>4, TreeShrinks

(* A task that divides puts its continuation in its place of the tree.     *)
LEMMA TreeDivide ==
    ASSUME SlotInv, WorkInv, TreeInv, NEW t \in Threads, Divide(t)
    PROVE  TreeInv'
  <1> SUFFICES ASSUME NEW x, x = current[t], NEW s, s = task[x].successor,
                      NEW join, join = FirstFresh, NEW right, right = SecondFresh
               PROVE  TreeInv'
    OBVIOUS
  <1>1. /\ x \in Live /\ task[x].kind = "map" /\ task[x].state = "ready"
        /\ join \in TaskIds \ Live /\ right \in TaskIds \ Live /\ join # right
        /\ Live' = Live \cup {join, right}
        /\ \A y \in Live \ {x} : task'[y] = task[y]
        /\ task'[x].kind = "map" /\ task'[x].successor = join
        /\ task'[right].kind = "map" /\ task'[right].successor = join
        /\ task'[join].kind = "continuation" /\ task'[join].successor = s
    BY DivideDoes
  <1>2. finished' = finished /\ pc' = [pc EXCEPT ![t] = "push"]
    BY DEF Divide, GoTo
  <1>3. x \in TaskIds /\ s # None /\ join # None
    <2>1. x \in TaskIds
      BY <1>1 DEF Live
    <2> QED
      BY <1>1, <2>1, LiveTasks DEF WorkInv, TreeInv, OnlyWaitIsRoot
  <1>4. \A y \in Live : task[y].successor # None => task[y].successor \in Live \ {x}
    BY <1>1 DEF WorkInv, SuccessorsWait
  <1>5. PICK depth \in [TaskIds -> Nat] : \A y \in Live :
          task[y].successor # None => depth[task[y].successor] < depth[y]
    BY DEF TreeInv, Ranked
  <1>6. PICK n \in Nat : n = depth[x]
    BY <1>3
  <1>7. PICK deeper \in [TaskIds -> Nat] :
          /\ deeper[join] = n /\ deeper[x] = n + 1 /\ deeper[right] = n + 1
          /\ \A y \in TaskIds \ {join, x, right} : deeper[y] = depth[y]
    <2>1. [depth EXCEPT ![join] = n, ![x] = n + 1, ![right] = n + 1] \in [TaskIds -> Nat]
      BY <1>1, <1>3
    <2> QED
      BY <1>1, <1>3, <2>1
  <1>8. ASSUME NEW y \in Live', task'[y].successor # None
        PROVE  deeper[task'[y].successor] < deeper[y]
    <2>1. CASE y \in {x, right}
      BY <1>1, <1>7, <2>1
    <2>2. CASE y = join
      <3>1. s \in Live \ {x}
        BY <1>1, <1>3, <1>4
      <3>2. s \in TaskIds \ {join, x, right}
        BY <1>1, <3>1 DEF Live
      <3>3. depth[s] < n
        BY <1>1, <1>3, <1>5, <1>6
      <3> QED
        BY <1>1, <1>7, <2>2, <3>2, <3>3
    <2>3. CASE y \notin {x, join, right}
      <3>1. y \in Live \ {x} /\ task'[y] = task[y]
        BY <1>1, <2>3
      <3>2. PICK r : r = task[y].successor
        OBVIOUS
      <3>3. r \in Live \ {x} /\ depth[r] < depth[y]
        BY <1>4, <1>5, <1>8, <3>1, <3>2
      <3>4. y \in TaskIds \ {join, x, right} /\ r \in TaskIds \ {join, x, right}
        BY <1>1, <3>1, <3>3 DEF Live
      <3> QED
        BY <1>7, <3>1, <3>2, <3>3, <3>4
    <2> QED
      BY <2>1, <2>2, <2>3
  <1>9. Ranked'
    BY <1>8 DEF Ranked
  <1>10. ASSUME NEW y \in Live' PROVE task'[y].kind = "wait" <=> task'[y].successor = None
    <2>1. CASE y \in {x, join, right}
      BY <1>1, <1>3, <2>1
    <2>2. CASE y \notin {x, join, right}
      BY <1>1, <2>2 DEF TreeInv, OnlyWaitIsRoot
    <2> QED
      BY <2>1, <2>2
  <1>11. OnlyWaitIsRoot'
    BY <1>10 DEF OnlyWaitIsRoot
  <1>12. OneWait'
    <2> SUFFICES ASSUME NEW y \in Live', NEW z \in Live', task'[y].kind = "wait",
                        task'[z].kind = "wait", ~Over(y)', ~Over(z)'
                 PROVE  y = z
      BY DEF OneWait
    <2>1. y \in Live \ {x} /\ z \in Live \ {x}
      BY <1>1
    <2> QED
      BY <1>1, <2>1 DEF TreeInv, OneWait, Over
  <1>13. ~finished /\ pc[Master] \in InMap
    <2>1. ~Over(x)
      BY <1>1 DEF Over
    <2> QED
      BY <1>1, <2>1 DEF TreeInv, NothingIsLeft
  <1>14. NothingIsLeft'
    <2>1. pc'[Master] \in InMap
      BY <1>2, <1>13 DEF SlotInv, SlotTypeOK, InMap, Threads
    <2> QED
      BY <1>2, <1>13, <2>1 DEF NothingIsLeft
  <1> QED
    BY <1>2, <1>9, <1>11, <1>12, <1>14 DEF TreeInv

(* A map begins when nothing is left of the one before.                    *)
LEMMA TreeMapStart ==
    ASSUME SlotInv, WorkInv, TreeInv, MapStart
    PROVE  TreeInv'
  <1> SUFFICES ASSUME NEW waiting, waiting = FirstFresh, NEW root, root = SecondFresh
               PROVE  TreeInv'
    OBVIOUS
  <1>1. /\ waiting \in TaskIds \ Live /\ root \in TaskIds \ Live /\ waiting # root
        /\ Live' = Live \cup {waiting, root}
        /\ \A y \in Live : task'[y] = task[y]
        /\ task'[waiting].kind = "wait" /\ task'[waiting].successor = None
        /\ task'[root].kind = "map" /\ task'[root].successor = waiting
    BY MapStartDoes
  <1>2. pc[Master] = "wake" /\ finished' = FALSE /\ pc' = [pc EXCEPT ![Master] = "run"]
    BY DEF MapStart, GoTo
  <1>3. \A y \in Live : Over(y) /\ task'[y].kind = "wait" /\ Over(y)'
    <2>1. \A y \in Live : Over(y)
      BY <1>2 DEF TreeInv, NothingIsLeft, InMap
    <2> QED
      BY <1>1, <2>1 DEF Over
  <1>4. waiting # None
    BY <1>1, LiveTasks DEF WorkInv
  <1>5. \A y \in Live : task'[y].successor = None
    BY <1>1, <1>3 DEF TreeInv, OnlyWaitIsRoot
  <1>6. OnlyWaitIsRoot'
    BY <1>1, <1>3, <1>4, <1>5 DEF OnlyWaitIsRoot
  <1>7. Ranked'
    <2>1. PICK depth \in [TaskIds -> Nat] : depth[waiting] = 0 /\ depth[root] = 1
      <3>1. [x \in TaskIds |-> IF x = root THEN 1 ELSE 0] \in [TaskIds -> Nat]
        OBVIOUS
      <3> QED
        BY <1>1, <3>1
    <2>2. \A y \in Live' : task'[y].successor # None => depth[task'[y].successor] < depth[y]
      BY <1>1, <1>5, <2>1
    <2> QED
      BY <2>2 DEF Ranked
  <1>8. OneWait'
    BY <1>1, <1>3 DEF OneWait
  <1>9. NothingIsLeft'
    <2>1. pc'[Master] = "run"
      BY <1>2 DEF SlotInv, SlotTypeOK, Threads
    <2> QED
      BY <1>2, <2>1 DEF NothingIsLeft, InMap
  <1> QED
    BY <1>2, <1>6, <1>7, <1>8, <1>9 DEF TreeInv

(* Every step keeps the tree, in an arena of any size.                     *)
LEMMA TreeInvInductive == SlotInv /\ WorkInv /\ TreeInv /\ [Next]_vars => TreeInv'
  <1> SUFFICES ASSUME SlotInv, WorkInv, TreeInv, [Next]_vars PROVE TreeInv'
    OBVIOUS
  <1>1. ASSUME task' = task, finished' = finished,
               pc'[Master] \notin InMap => finished \/ pc[Master] \notin InMap
        PROVE  TreeInv'
    <2>1. Live' = Live
      BY <1>1 DEF Live
    <2>2. \A y \in Live' : FormKept(y) /\ (Over(y)' <=> Over(y))
      BY <1>1 DEF FormKept, Over
    <2> QED
      BY <1>1, <2>1, <2>2, TreeShrinks
  <1>2. ASSUME NEW t \in Threads, Execute(t) PROVE TreeInv'
    <2>1. CASE Run(t)
      BY <2>1, TreeRun
    <2>2. CASE Free(t)
      BY <2>2, TreeFree
    <2>3. CASE Divide(t)
      BY <2>3, TreeDivide
    <2>4. CASE Push(t)
      BY <2>4, TreePush
    <2>5. CASE Pop(t) \/ Look(t) \/ Steal(t) \/ LookAgain(t) \/ Take(t)
      <3>1. PICK place \in InMap : pc' = [pc EXCEPT ![t] = place]
        BY <2>5 DEF Pop, Look, Steal, LookAgain, Take, GoTo, InMap
      <3>2. task' = task /\ finished' = finished
        BY <2>5 DEF Pop, Look, Steal, LookAgain, Take
      <3>3. pc'[Master] \notin InMap => pc[Master] \notin InMap
        BY <3>1 DEF SlotInv, SlotTypeOK, Threads
      <3> QED
        BY <1>1, <3>2, <3>3
    <2> QED
      BY <1>2, <2>1, <2>2, <2>3, <2>4, <2>5 DEF Execute
  <1>3. CASE UNCHANGED vars
    BY <1>1, <1>3 DEF vars
  <1>4. CASE MasterStep
    <2>1. CASE Execute(Master)
      BY <1>2, <2>1 DEF Threads
    <2>2. CASE MapStart
      BY <2>2, TreeMapStart
    <2>3. CASE MapReturn
      <3>1. task' = task /\ finished' = finished /\ finished
        BY <2>3 DEF MapReturn, work
      <3> QED
        BY <1>1, <3>1
    <2>4. CASE Wake \/ Sleep
      <3>1. task' = task /\ finished' = finished /\ pc' = pc
        BY <2>4 DEF Wake, Sleep, work
      <3> QED
        BY <1>1, <3>1
    <2>5. CASE Enter \/ Mark(Master, "wake") \/ Leave \/ Unmark(Master) \/ Unslot(Master, "out")
      <3>1. task' = task /\ finished' = finished
        BY <2>5 DEF Enter, Mark, Leave, Unmark, Unslot, work
      <3>2. pc[Master] \notin InMap
        BY <2>5 DEF Enter, Mark, Leave, Unmark, Unslot, InMap
      <3> QED
        BY <1>1, <3>1, <3>2
    <2> QED
      BY <1>4, <2>1, <2>2, <2>3, <2>4, <2>5 DEF MasterStep
  <1>5. CASE \E w \in Workers : Worker(w)
    <2>1. PICK w \in Workers : Worker(w)
      BY <1>5
    <2>2. CASE Execute(w)
      BY <1>2, <2>2 DEF Threads
    <2>3. CASE \/ Awake(w) \/ PassOn(w) \/ Attach(w) \/ FindNoSlot(w) \/ Mark(w, "steal")
               \/ GiveUp(w) \/ Unmark(w) \/ Unslot(w, "idle")
      <3>1. task' = task /\ finished' = finished
        BY <2>3 DEF Awake, PassOn, Attach, FindNoSlot, Mark, GiveUp, Unmark, Unslot, work
      <3>2. PICK place : pc' = [pc EXCEPT ![w] = place]
        BY <2>3 DEF Awake, PassOn, Attach, FindNoSlot, Mark, GiveUp, Unmark, Unslot, GoTo
      <3>3. pc'[Master] = pc[Master]
        BY <3>2, SchedulerAssumption DEF SlotInv, SlotTypeOK, Threads
      <3> QED
        BY <1>1, <3>1, <3>3
    <2> QED
      BY <2>1, <2>2, <2>3 DEF Worker
  <1> QED
    BY <1>3, <1>4, <1>5 DEF Next

-----------------------------------------------------------------------------
\* An arena of two slots

\* The deque of the code begins with 64 entries, enough for maps of 2^61
\* elements: a task is divided 62 times before it is a leaf that late.
TwoSlots(power) ==
    /\ Capacity = 2
    /\ FirstCapacity >= 3
    /\ power \in [Nat -> Nat]
    /\ power[0] = 1
    /\ \A n \in Nat : power[n + 1] = 2 * power[n]
    /\ Length <= power[FirstCapacity - 3]

Working == {"run", "free", "push", "pop", "cas", "take"}

\* The thief's compare-and-set was the last change at the head of the deque ...
HeadMoved(t) ==
    LET g == glance[t]
        d == deque[g.victim]
    IN  d.head = g.head + 1 /\ g.index = g.head % d.capacity

\* ... or the owner has found its deque empty, and has no work.
OwnerAway(t) == \A u \in Threads : slot[u] = glance[t].victim => pc[u] \notin Working

TheftInv ==
    /\ \A t \in Threads : pc[t] \in {"cas", "take"} => glance[t].victim # slot[t]
    /\ \A t \in Threads : pc[t] = "take" => HeadMoved(t) \/ OwnerAway(t)

(* Only a thread that executes has something in its deque.                 *)
LEMMA OwnDequeEmpty ==
    ASSUME SlotInv, WorkInv, NEW t \in Threads, pc[t] \notin Outside, pc[t] # "out",
           pc[t] \notin {"run", "free", "push", "pop"}
    PROVE  slot[t] \in Slots /\ IsEmpty(deque[slot[t]]) /\ Queued(slot[t]) = {}
  <1>1. slot[t] \in Slots /\ \A u \in Threads \ {t} : slot[u] # slot[t]
    BY Inside
  <1>2. IsEmpty(deque[slot[t]])
    BY <1>1 DEF WorkInv, OwnersBusy
  <1>3. DequeGood(deque[slot[t]])
    BY <1>1 DEF WorkInv, DequesGood
  <1> QED
    BY <1>1, <1>2, <1>3 DEF IsEmpty, DequeGood, Queued

(* There is one thief for a deque.                                         *)
LEMMA OneThief ==
    ASSUME SlotInv, WorkInv, TheftInv, Capacity = 2, NEW t \in Threads, NEW u \in Threads,
           pc[t] \in {"cas", "take"}, pc[u] \in {"cas", "take"},
           glance[t].victim = glance[u].victim
    PROVE  t = u
  <1>1. /\ slot[t] \in Slots /\ \A w \in Threads \ {t} : slot[w] # slot[t]
        /\ slot[u] \in Slots
    BY AtWork
  <1>2. glance[t].victim # slot[t] /\ glance[u].victim # slot[u] /\ glance[t].victim \in Slots
    BY DEF TheftInv, WorkInv, WorkTypeOK, GlanceType
  <1>3. Slots = {0, 1}
    BY DEF Slots
  <1> QED
    BY <1>1, <1>2, <1>3

(* A thread that worked, and the heads of the deques left where they were, *)
(* disturb no thief.                                                       *)
LEMMA TheftStays ==
    ASSUME WorkInv, TheftInv, NEW t \in Threads,
           pc[t] \in Working, pc'[t] \notin {"cas", "take"},
           slot' = slot,
           \A u \in Threads \ {t} : pc'[u] = pc[u] /\ glance'[u] = glance[u],
           \A s \in Slots : /\ deque'[s].head = deque[s].head
                            /\ deque[s].capacity # 0 => deque'[s].capacity = deque[s].capacity
    PROVE  TheftInv'
  <1>1. \A u \in Threads : pc'[u] \in {"cas", "take"} => glance'[u].victim # slot'[u]
    BY DEF TheftInv
  <1>2. ASSUME NEW u \in Threads, pc'[u] = "take"
        PROVE  HeadMoved(u)' \/ OwnerAway(u)'
    <2>1. u # t /\ pc[u] = "take" /\ glance'[u] = glance[u]
      BY <1>2
    <2>2. glance[u].victim \in Slots
      BY DEF WorkInv, WorkTypeOK, GlanceType
    <2>3. deque[glance[u].victim].capacity # 0
      <3>1. /\ DequeGood(deque[glance[u].victim])
            /\ glance[u].index \in 0 .. deque[glance[u].victim].capacity - 1
        BY <2>1, <2>2 DEF WorkInv, DequesGood, GlancesGood, GlanceGood
      <3> QED
        BY <3>1 DEF DequeGood
    <2>4. CASE HeadMoved(u)
      BY <2>1, <2>2, <2>3, <2>4 DEF HeadMoved
    <2>5. CASE OwnerAway(u)
      <3>1. slot[t] # glance[u].victim
        BY <2>5 DEF OwnerAway
      <3> QED
        BY <2>1, <2>5, <3>1 DEF OwnerAway
    <2> QED
      BY <2>1, <2>4, <2>5 DEF TheftInv
  <1> QED
    BY <1>1, <1>2 DEF TheftInv

(* Coming, going, waking and sleeping disturb no thief.                    *)
LEMMA TheftQuiet ==
    ASSUME TheftInv, UNCHANGED work,
           \A t \in Threads : \/ pc'[t] = pc[t] /\ slot'[t] = slot[t]
                              \/ pc[t] \in Quiet /\ pc'[t] \in Quiet
    PROVE  TheftInv'
  <1>1. deque' = deque /\ glance' = glance
    BY DEF work
  <1>2. \A t \in Threads : \/ pc'[t] = pc[t] /\ slot'[t] = slot[t]
                           \/ pc'[t] \notin Working
    BY DEF Quiet, Working
  <1>3. \A t \in Threads : pc'[t] \in Working => pc[t] = pc'[t] /\ slot'[t] = slot[t]
    BY <1>2
  <1>4. \A t \in Threads : pc'[t] \in {"cas", "take"} => glance'[t].victim # slot'[t]
    BY <1>1, <1>3 DEF TheftInv, Working
  <1>5. ASSUME NEW t \in Threads, pc'[t] = "take"
        PROVE  HeadMoved(t)' \/ OwnerAway(t)'
    <2>1. pc[t] = "take"
      BY <1>3, <1>5 DEF Working
    <2>2. CASE HeadMoved(t)
      BY <1>1, <2>2 DEF HeadMoved
    <2>3. CASE OwnerAway(t)
      BY <1>1, <1>3, <2>3 DEF OwnerAway
    <2> QED
      BY <2>1, <2>2, <2>3 DEF TheftInv
  <1> QED
    BY <1>4, <1>5 DEF TheftInv

(* The owner finds its deque empty, and is away.                           *)
LEMMA TheftPopNothing ==
    ASSUME SlotInv, WorkInv, TheftInv, NEW t \in Threads, Pop(t), IsEmpty(deque[slot[t]])
    PROVE  TheftInv'
  <1> SUFFICES ASSUME NEW a, a = slot[t] PROVE TheftInv'
    OBVIOUS
  <1>0. /\ pc[t] = "pop"
        /\ deque' = [deque EXCEPT ![a] = Reset(deque[a])]
        /\ pc' = [pc EXCEPT ![t] = "steal"]
        /\ glance' = glance /\ slot' = slot
    BY DEF Pop, GoTo, arena
  <1>1. a \in Slots /\ \A u \in Threads \ {t} : slot[u] # a
    BY <1>0, AtWork
  <1>2. /\ pc'[t] = "steal" /\ \A u \in Threads \ {t} : pc'[u] = pc[u]
        /\ \A s \in Slots \ {a} : deque'[s] = deque[s]
    BY <1>0, <1>1 DEF SlotInv, SlotTypeOK, WorkInv, WorkTypeOK
  <1>3. \A u \in Threads : pc'[u] \in {"cas", "take"} => glance'[u].victim # slot'[u]
    BY <1>0, <1>2 DEF TheftInv
  <1>4. ASSUME NEW u \in Threads, pc'[u] = "take"
        PROVE  HeadMoved(u)' \/ OwnerAway(u)'
    <2>1. u # t /\ pc[u] = "take" /\ glance'[u] = glance[u] /\ glance[u].victim \in Slots
      BY <1>0, <1>2, <1>4 DEF WorkInv, WorkTypeOK, GlanceType
    <2>2. CASE glance[u].victim = a
      BY <1>0, <1>1, <1>2, <2>1, <2>2 DEF OwnerAway, Working
    <2>3. CASE glance[u].victim # a /\ HeadMoved(u)
      BY <1>2, <2>1, <2>3 DEF HeadMoved
    <2>4. CASE OwnerAway(u)
      BY <1>0, <1>2, <2>1, <2>4 DEF OwnerAway, Working
    <2> QED
      BY <2>1, <2>2, <2>3, <2>4 DEF TheftInv
  <1> QED
    BY <1>3, <1>4 DEF TheftInv

(* While somebody steals from an owner who is away, that owner finds       *)
(* nothing to look at.                                                     *)
LEMMA TheftLook ==
    ASSUME SlotInv, WorkInv, TheftInv, Capacity = 2, NEW t \in Threads, Look(t)
    PROVE  TheftInv'
  <1>1. PICK v \in Slots \ {slot[t]} :
            ~IsEmpty(deque[v]) /\ glance' = [glance EXCEPT ![t] = Glance(v, deque[v])]
    BY DEF Look
  <1>2. pc[t] = "steal" /\ pc' = [pc EXCEPT ![t] = "cas"] /\ deque' = deque /\ slot' = slot
    BY DEF Look, GoTo, arena
  <1>3. /\ pc'[t] = "cas" /\ glance'[t] = Glance(v, deque[v])
        /\ \A u \in Threads \ {t} : pc'[u] = pc[u] /\ glance'[u] = glance[u]
    BY <1>1, <1>2 DEF SlotInv, SlotTypeOK, WorkInv, WorkTypeOK
  <1>4. \A u \in Threads : pc'[u] \in {"cas", "take"} => glance'[u].victim # slot'[u]
    BY <1>1, <1>2, <1>3 DEF TheftInv, Glance
  <1>5. ASSUME NEW u \in Threads, pc'[u] = "take"
        PROVE  HeadMoved(u)' \/ OwnerAway(u)'
    <2>1. u # t /\ pc[u] = "take" /\ glance'[u] = glance[u]
      BY <1>3, <1>5
    <2>2. slot[t] # glance[u].victim
      <3> SUFFICES ASSUME slot[t] = glance[u].victim PROVE FALSE
        OBVIOUS
      <3>1. slot[u] \in Slots /\ slot[t] \in Slots /\ slot[u] # slot[t]
        BY <1>2, <2>1, AtWork
      <3>2. slot[u] = v
        BY <1>1, <3>1 DEF Slots
      <3>3. IsEmpty(deque[slot[u]])
        BY <2>1, OwnDequeEmpty DEF Outside
      <3> QED
        BY <1>1, <3>2, <3>3
    <2>3. CASE HeadMoved(u)
      BY <1>2, <2>1, <2>3 DEF HeadMoved
    <2>4. CASE OwnerAway(u)
      BY <1>2, <1>3, <2>1, <2>2, <2>4 DEF OwnerAway
    <2> QED
      BY <2>1, <2>3, <2>4 DEF TheftInv
  <1> QED
    BY <1>4, <1>5 DEF TheftInv

(* The compare-and-set moves the head over the entry.                      *)
LEMMA TheftSteal ==
    ASSUME SlotInv, WorkInv, TheftInv, Capacity = 2, NEW t \in Threads, Steal(t)
    PROVE  TheftInv'
  <1> SUFFICES ASSUME NEW g, g = glance[t], NEW v, v = g.victim PROVE TheftInv'
    OBVIOUS
  <1>0. /\ pc[t] = "cas"
        /\ deque' = [deque EXCEPT ![v] = PopHead(@, g)]
        /\ pc' = [pc EXCEPT ![t] = "take"]
        /\ glance' = glance /\ slot' = slot
    BY DEF Steal, GoTo, arena
  <1>1. v \in Slots /\ DequeGood(deque[v])
    BY DEF WorkInv, WorkTypeOK, GlanceType, DequesGood
  <1>2. /\ pc'[t] = "take" /\ \A u \in Threads \ {t} : pc'[u] = pc[u]
        /\ deque'[v] = PopHead(deque[v], g)
        /\ \A r \in Slots \ {v} : deque'[r] = deque[r]
    BY <1>0, <1>1 DEF SlotInv, SlotTypeOK, WorkInv, WorkTypeOK
  <1>3. deque'[v].head = g.head + 1 /\ deque'[v].capacity = deque[v].capacity
    <2>1. PICK d : d = deque[v]
      OBVIOUS
    <2>2. PICK h : h = g.head + 1
      OBVIOUS
    <2>3. d = [head |-> d.head, tail |-> d.tail, capacity |-> d.capacity, entry |-> d.entry]
      BY <1>1, <2>1 DEF DequeGood
    <2>4. deque'[v] = [d EXCEPT !.head = h]
      BY <1>2, <2>1, <2>2 DEF PopHead
    <2> QED
      BY <2>1, <2>2, <2>3, <2>4
  <1>4. \A u \in Threads : pc'[u] \in {"cas", "take"} => glance'[u].victim # slot'[u]
    BY <1>0, <1>2 DEF TheftInv
  <1>5. ASSUME NEW u \in Threads, pc'[u] = "take"
        PROVE  HeadMoved(u)' \/ OwnerAway(u)'
    <2>1. CASE u = t
      <3>1. GlanceGood(t)
        BY DEF WorkInv, GlancesGood
      <3>2. g.index = g.head % deque[v].capacity
        BY <1>0, <3>1 DEF GlanceGood
      <3> QED
        BY <1>0, <1>3, <2>1, <3>2 DEF HeadMoved
    <2>2. CASE u # t
      <3>1. pc[u] = "take" /\ glance[u].victim \in Slots
        BY <1>2, <1>5, <2>2 DEF WorkInv, WorkTypeOK, GlanceType
      <3>2. glance[u].victim # v
        BY <1>0, <2>2, <3>1, OneThief
      <3>3. CASE HeadMoved(u)
        BY <1>0, <1>2, <3>1, <3>2, <3>3 DEF HeadMoved
      <3>4. CASE OwnerAway(u)
        <4>1. slot[t] # glance[u].victim
          BY <1>0, <3>4 DEF OwnerAway, Working
        <4> QED
          BY <1>0, <1>2, <3>4, <4>1 DEF OwnerAway
      <3> QED
        BY <3>1, <3>3, <3>4 DEF TheftInv
    <2> QED
      BY <2>1, <2>2
  <1> QED
    BY <1>4, <1>5 DEF TheftInv

(* A new map finds no thief that is still to take a task of the last one.  *)
LEMMA TheftMapStart ==
    ASSUME SlotInv, WorkInv, TreeInv, TheftInv, MapStart
    PROVE  TheftInv'
  <1>1. /\ pc[Master] = "wake" /\ pc' = [pc EXCEPT ![Master] = "run"]
        /\ glance' = glance /\ slot' = slot
    BY DEF MapStart, GoTo, arena
  <1>2. \A u \in Threads : pc[u] # "take"
    <2> SUFFICES ASSUME NEW u \in Threads, pc[u] = "take" PROVE FALSE
      OBVIOUS
    <2>1. Carries(u)
      BY DEF Carries
    <2>2. IsReady(TaskWith(u))
      BY <2>1 DEF WorkInv, Placed
    <2>3. Over(TaskWith(u))
      BY <1>1, <2>2 DEF TreeInv, NothingIsLeft, InMap, IsReady
    <2> QED
      BY <2>2, <2>3 DEF IsReady, Over
  <1>3. \A u \in Threads : pc'[u] # "take" /\ (pc'[u] = "cas" => pc[u] = "cas")
    BY <1>1, <1>2 DEF SlotInv, SlotTypeOK
  <1> QED
    BY <1>1, <1>3 DEF TheftInv

-----------------------------------------------------------------------------
\* How full a deque can be

\* How many elements a task has to give away.
Excess(x) == Size(x) - 1

\* All that a thread has not yet divided for others to take.
Whole(t) == IF pc[t] = "push" THEN Size(current[t]) + Size(glance[t].index) ELSE Size(current[t])

SizesGood == \A x \in Live : task[x].kind = "map" => Size(x) \in 1 .. Length

CapacitiesGood == \A s \in Slots : deque[s].capacity \in {0, FirstCapacity}

QueuedMaps == \A s \in Slots : \A k \in Queued(s) : task[Entry(s, k)].kind = "map"

\* A task in a deque is what was left when those before it were divided.
Halving(power) ==
    \A s \in Slots : \A k, l \in Queued(s) : k < l =>
        /\ Excess(Entry(s, k)) >= power[l - 1 - k]
        /\ Excess(Entry(s, k)) >= power[l - 1 - k] * Excess(Entry(s, l))

BehindAt(power, t) ==
    pc[t] \in {"run", "push"} /\ task[current[t]].kind = "map" =>
        \A k \in Queued(slot[t]) :
            Excess(Entry(slot[t], k)) >= power[deque[slot[t]].tail - 1 - k] * (Whole(t) - 1)

PushGoodAt(t) ==
    pc[t] = "push" =>
        /\ task[glance[t].index].kind = "map"
        /\ Size(glance[t].index) >= Size(current[t])

DepthInv(power) ==
    /\ SizesGood
    /\ CapacitiesGood
    /\ QueuedMaps
    /\ Halving(power)
    /\ \A t \in Threads : BehindAt(power, t) /\ PushGoodAt(t)

(* Multiplication keeps an order.                                          *)
LEMMA TimesKeepsOrder ==
    ASSUME NEW p \in Nat, NEW a \in Int, NEW b \in Int, a <= b
    PROVE  p * a <= p * b
  <1>1. PICK c \in Nat : b = a + c
    <2>1. b - a \in Nat
      OBVIOUS
    <2> QED
      BY <2>1
  <1>2. p * b = p * a + p * c
    BY <1>1
  <1>3. p * c \in Nat
    BY <1>1
  <1> QED
    BY <1>2, <1>3

(* A thread at work has its tasks in its hands.                            *)
LEMMA InHand ==
    ASSUME WorkInv, NEW t \in Threads, pc[t] \in {"run", "push"}
    PROVE  /\ current[t] \in Live
           /\ pc[t] = "push" => glance[t].index \in Live /\ current[t] # glance[t].index
  <1>1. CASE pc[t] = "run"
    <2>1. Carries(t) /\ TaskWith(t) = current[t]
      BY <1>1 DEF Carries, TaskWith
    <2> QED
      BY <1>1, <2>1 DEF WorkInv, Placed, IsReady
  <1>2. CASE pc[t] = "push"
    <2>1. Carries(t) /\ TaskWith(t) = glance[t].index
      BY <1>2 DEF Carries, TaskWith
    <2>2. glance[t].index \in Live /\ task[glance[t].index].state = "ready"
      BY <2>1 DEF WorkInv, Placed, IsReady
    <2>3. /\ current[t] # None /\ task[current[t]] # NoTask
          /\ task[current[t]].state = "allocated"
      BY <1>2 DEF WorkInv, HandsGood
    <2>4. current[t] \in TaskIds
      BY <2>3 DEF WorkInv, WorkTypeOK
    <2> QED
      BY <2>2, <2>3, <2>4 DEF Live
  <1> QED
    BY <1>1, <1>2

(* A task in a deque is live.                                              *)
LEMMA QueuedLive ==
    ASSUME WorkInv, NEW s \in Slots, NEW k \in Queued(s)
    PROVE  Entry(s, k) \in Live
  BY DEF WorkInv, Placed, IsReady

(* At first nothing is queued.                                             *)
LEMMA DepthInit ==
    ASSUME NEW power, Init
    PROVE  DepthInv(power)
  <1>1. /\ deque = [s \in Slots |-> EmptyDeque]
        /\ task = [x \in TaskIds |-> NoTask]
        /\ \A t \in Threads : pc[t] \in {"out", "idle"}
    BY DEF Init
  <1>2. Live = {} /\ \A s \in Slots : Queued(s) = {} /\ deque[s].capacity = 0
    BY <1>1 DEF Live, Queued, EmptyDeque
  <1>3. SizesGood /\ CapacitiesGood /\ QueuedMaps /\ Halving(power)
    BY <1>2 DEF SizesGood, CapacitiesGood, QueuedMaps, Halving
  <1>4. \A t \in Threads : BehindAt(power, t) /\ PushGoodAt(t)
    BY <1>1 DEF BehindAt, PushGoodAt
  <1> QED
    BY <1>3, <1>4 DEF DepthInv

(* A step that queues nothing and makes no task keeps all deques as deep.  *)
LEMMA DepthStays ==
    ASSUME NEW power, SlotInv, WorkInv, WorkInv', DepthInv(power), NEW t \in Threads,
           Live' \subseteq Live,
           \A y \in Live' : FormKept(y),
           \A s \in Slots : deque'[s].capacity = deque[s].capacity,
           \A s \in Slots : \A k \in Queued(s)' : k \in Queued(s) /\ Entry(s, k)' = Entry(s, k),
           \A u \in Threads \ {t} : pc'[u] \in {"run", "push"} =>
               /\ pc[u] = pc'[u] /\ current'[u] = current[u] /\ glance'[u] = glance[u]
               /\ slot'[u] = slot[u] /\ deque'[slot[u]].tail = deque[slot[u]].tail,
           BehindAt(power, t)', PushGoodAt(t)'
    PROVE  DepthInv(power)'
  <1>1. \A y \in Live' : /\ y \in Live /\ Size(y)' = Size(y) /\ Excess(y)' = Excess(y)
                         /\ task'[y].kind = task[y].kind
    BY DEF FormKept, Size, Excess
  <1>2. SizesGood' /\ CapacitiesGood'
    BY <1>1 DEF DepthInv, SizesGood, CapacitiesGood
  <1>3. \A s \in Slots : \A k \in Queued(s)' : Entry(s, k) \in Live'
    BY DEF WorkInv, Placed, IsReady
  <1>4. QueuedMaps'
    BY <1>1, <1>3 DEF DepthInv, QueuedMaps
  <1>5. Halving(power)'
    BY <1>1, <1>3 DEF DepthInv, Halving
  <1>6. ASSUME NEW u \in Threads \ {t}, pc'[u] \in {"run", "push"}
        PROVE  /\ pc[u] = pc'[u] /\ current'[u] = current[u] /\ glance'[u] = glance[u]
               /\ slot'[u] = slot[u] /\ deque'[slot[u]].tail = deque[slot[u]].tail
               /\ slot[u] \in Slots
               /\ current[u] \in Live'
               /\ pc[u] = "push" => glance[u].index \in Live'
               /\ Whole(u)' = Whole(u)
    <2>1. /\ pc[u] = pc'[u] /\ current'[u] = current[u] /\ glance'[u] = glance[u]
          /\ slot'[u] = slot[u] /\ deque'[slot[u]].tail = deque[slot[u]].tail
      BY <1>6
    <2>2. slot[u] \in Slots
      BY <1>6, <2>1, AtWork
    <2>3. current[u] \in Live'
      <3>1. CASE pc'[u] = "run"
        <4>1. Carries(u)' /\ TaskWith(u)' = current'[u]
          BY <3>1 DEF Carries, TaskWith
        <4> QED
          BY <2>1, <4>1 DEF WorkInv, Placed, IsReady
      <3>2. CASE pc'[u] = "push"
        <4>1. current'[u] # None /\ task'[current'[u]] # NoTask
          BY <3>2 DEF WorkInv, HandsGood
        <4>2. current'[u] \in TaskIds
          BY <4>1 DEF WorkInv, WorkTypeOK
        <4> QED
          BY <2>1, <4>1, <4>2 DEF Live
      <3> QED
        BY <1>6, <3>1, <3>2
    <2>4. pc[u] = "push" => glance[u].index \in Live'
      <3> SUFFICES ASSUME pc[u] = "push" PROVE glance[u].index \in Live'
        OBVIOUS
      <3>1. Carries(u)' /\ TaskWith(u)' = glance'[u].index
        BY <2>1 DEF Carries, TaskWith
      <3> QED
        BY <2>1, <3>1 DEF WorkInv, Placed, IsReady
    <2>5. Whole(u)' = Whole(u)
      BY <1>1, <2>1, <2>3, <2>4 DEF Whole
    <2> QED
      BY <2>1, <2>2, <2>3, <2>4, <2>5
  <1>7. ASSUME NEW u \in Threads PROVE BehindAt(power, u)' /\ PushGoodAt(u)'
    <2>1. CASE u = t
      BY <2>1
    <2>2. CASE u # t /\ pc'[u] \notin {"run", "push"}
      BY <2>2 DEF BehindAt, PushGoodAt
    <2>3. CASE u # t /\ pc'[u] \in {"run", "push"}
      <3>1. BehindAt(power, u) /\ PushGoodAt(u)
        BY DEF DepthInv
      <3>2. PushGoodAt(u)'
        BY <1>1, <1>6, <2>3, <3>1 DEF PushGoodAt
      <3>3. BehindAt(power, u)'
        <4>1. PICK s \in Slots : s = slot[u] /\ slot'[u] = s
          BY <1>6, <2>3
        <4> SUFFICES ASSUME task'[current'[u]].kind = "map", NEW k \in Queued(s)'
                     PROVE  Excess(Entry(s, k))' >= power[deque'[s].tail - 1 - k] * (Whole(u)' - 1)
          BY <4>1 DEF BehindAt
        <4>2. k \in Queued(s) /\ Entry(s, k)' = Entry(s, k) /\ Entry(s, k) \in Live'
          BY <1>3
        <4>3. Excess(Entry(s, k)) >= power[deque[s].tail - 1 - k] * (Whole(u) - 1)
          BY <1>1, <1>6, <2>3, <3>1, <4>1, <4>2 DEF BehindAt
        <4>4. Excess(Entry(s, k))' = Excess(Entry(s, k))
          <5>1. PICK x \in Live' : x = Entry(s, k) /\ Entry(s, k)' = x
            BY <4>2
          <5>2. Excess(x)' = Excess(x)
            BY <1>1, <5>1
          <5> QED
            BY <5>1, <5>2 DEF Excess, Size
        <4>5. Whole(u)' = Whole(u) /\ deque'[s].tail = deque[s].tail
          BY <1>6, <2>3, <4>1
        <4> QED
          BY <4>3, <4>4, <4>5
      <3> QED
        BY <3>2, <3>3
    <2> QED
      BY <2>1, <2>2, <2>3
  <1> QED
    BY <1>2, <1>4, <1>5, <1>7 DEF DepthInv

(* A step that leaves the tasks and the deques alone, and gives its thread *)
(* nothing to divide.                                                      *)
LEMMA DepthQuiet ==
    ASSUME NEW power, SlotInv, WorkInv, WorkInv', DepthInv(power), NEW t \in Threads,
           deque' = deque, task' = task, pc'[t] \notin {"run", "push"},
           \A u \in Threads \ {t} : /\ pc'[u] = pc[u] /\ current'[u] = current[u]
                                    /\ glance'[u] = glance[u] /\ slot'[u] = slot[u]
    PROVE  DepthInv(power)'
  <1>1. Live' = Live /\ \A y \in Live' : FormKept(y)
    BY DEF Live, FormKept
  <1>2. \A s \in Slots : \A k \in Queued(s)' : k \in Queued(s) /\ Entry(s, k)' = Entry(s, k)
    BY DEF Queued, Entry
  <1>3. BehindAt(power, t)' /\ PushGoodAt(t)'
    BY DEF BehindAt, PushGoodAt
  <1> QED
    BY <1>1, <1>2, <1>3, DepthStays

(* A task is executed, ...                                                 *)
LEMMA DepthRun ==
    ASSUME NEW power, SlotInv, WorkInv, WorkInv', DepthInv(power), NEW t \in Threads, Run(t)
    PROVE  DepthInv(power)'
  <1>1. Live' = Live /\ \A y \in Live : FormKept(y)
    BY RunDoes
  <1>2. /\ pc' = [pc EXCEPT ![t] = "free"] /\ slot' = slot
        /\ deque' = deque /\ current' = current /\ glance' = glance
    BY DEF Run, GoTo, arena
  <1>3. pc'[t] = "free" /\ \A u \in Threads \ {t} : pc'[u] = pc[u]
    BY <1>2 DEF SlotInv, SlotTypeOK
  <1>4. \A s \in Slots : \A k \in Queued(s)' : k \in Queued(s) /\ Entry(s, k)' = Entry(s, k)
    BY <1>2 DEF Queued, Entry
  <1>5. BehindAt(power, t)' /\ PushGoodAt(t)'
    BY <1>3 DEF BehindAt, PushGoodAt
  <1> QED
    BY <1>1, <1>2, <1>3, <1>4, <1>5, DepthStays

(* ... and freed; a successor divides no more.                             *)
LEMMA DepthFree ==
    ASSUME NEW power, SlotInv, WorkInv, WorkInv', DepthInv(power), NEW t \in Threads, Free(t)
    PROVE  DepthInv(power)'
  <1> SUFFICES ASSUME NEW x, x = current[t], NEW s, s = task[x].successor
               PROVE  DepthInv(power)'
    OBVIOUS
  <1>1. /\ Live' = Live \ {x}
        /\ \A y \in Live' : FormKept(y)
        /\ s # None => s \in Live' /\ task[s].kind # "map"
    BY FreeDoes
  <1>2. /\ pc' = [pc EXCEPT ![t] = IF s # None /\ task[s].preds = 1 THEN "run" ELSE "pop"]
        /\ current' = [current EXCEPT ![t] = IF s # None /\ task[s].preds = 1 THEN s ELSE None]
        /\ slot' = slot /\ deque' = deque /\ glance' = glance
    BY DEF Free, GoTo, arena
  <1>3. /\ pc'[t] = IF s # None /\ task[s].preds = 1 THEN "run" ELSE "pop"
        /\ current'[t] = IF s # None /\ task[s].preds = 1 THEN s ELSE None
        /\ \A u \in Threads \ {t} : pc'[u] = pc[u] /\ current'[u] = current[u]
    BY <1>2 DEF SlotInv, SlotTypeOK, WorkInv, WorkTypeOK
  <1>4. \A r \in Slots : \A k \in Queued(r)' : k \in Queued(r) /\ Entry(r, k)' = Entry(r, k)
    BY <1>2 DEF Queued, Entry
  <1>5. BehindAt(power, t)' /\ PushGoodAt(t)'
    <2>1. pc'[t] # "push" /\ (pc'[t] = "run" => task'[current'[t]].kind # "map")
      BY <1>1, <1>3 DEF FormKept
    <2> QED
      BY <2>1 DEF BehindAt, PushGoodAt
  <1> QED
    BY <1>1, <1>2, <1>3, <1>4, <1>5, DepthStays

(* What the owner pops divides on in front of what it was divided from.    *)
LEMMA DepthPop ==
    ASSUME NEW power, SlotInv, WorkInv, WorkInv', DepthInv(power), NEW t \in Threads, Pop(t)
    PROVE  DepthInv(power)'
  <1> SUFFICES ASSUME NEW a, a = slot[t], NEW d, d = deque[a] PROVE DepthInv(power)'
    OBVIOUS
  <1>0. /\ pc[t] = "pop" /\ task' = task /\ glance' = glance /\ slot' = slot
        /\ \/ /\ IsEmpty(d)
              /\ deque' = [deque EXCEPT ![a] = Reset(d)]
              /\ current' = current
              /\ pc' = [pc EXCEPT ![t] = "steal"]
           \/ /\ ~IsEmpty(d)
              /\ deque' = [deque EXCEPT ![a] = PopTail(d)]
              /\ current' = [current EXCEPT ![t] = LastTask(d)]
              /\ pc' = [pc EXCEPT ![t] = "run"]
    BY DEF Pop, GoTo, arena
  <1>1. a \in Slots /\ \A u \in Threads \ {t} : slot[u] # a
    BY <1>0, AtWork
  <1>2. /\ DequeGood(d)
        /\ d = [head |-> d.head, tail |-> d.tail, capacity |-> d.capacity, entry |-> d.entry]
        /\ d.head \in Nat /\ d.tail \in Nat
    BY <1>1 DEF WorkInv, DequesGood, DequeGood
  <1>3. Live' = Live /\ \A y \in Live' : FormKept(y)
    BY <1>0 DEF Live, FormKept
  <1>4. /\ \A u \in Threads \ {t} : pc'[u] = pc[u] /\ current'[u] = current[u]
        /\ \A r \in Slots \ {a} : deque'[r] = deque[r]
    BY <1>0 DEF SlotInv, SlotTypeOK, WorkInv, WorkTypeOK
  <1>5. \A u \in Threads \ {t} : pc'[u] \in {"run", "push"} => slot[u] \in Slots \ {a}
    BY <1>1, <1>4, AtWork
  <1>6. CASE IsEmpty(d)
    <2>1. deque'[a] = [head |-> 0, tail |-> 0, capacity |-> d.capacity, entry |-> d.entry]
          /\ pc'[t] = "steal"
      BY <1>0, <1>1, <1>2, <1>6 DEF Reset, SlotInv, SlotTypeOK, WorkInv, WorkTypeOK
    <2>2. Queued(a)' = {}
      BY <2>1 DEF Queued
    <2>3. \A r \in Slots : \A k \in Queued(r)' : k \in Queued(r) /\ Entry(r, k)' = Entry(r, k)
      BY <1>4, <2>2 DEF Queued, Entry
    <2>4. BehindAt(power, t)' /\ PushGoodAt(t)'
      BY <2>1 DEF BehindAt, PushGoodAt
    <2>5. \A r \in Slots : deque'[r].capacity = deque[r].capacity
      BY <1>4, <2>1
    <2> QED
      BY <1>0, <1>3, <1>4, <1>5, <2>3, <2>4, <2>5, DepthStays
  <1>7. CASE ~IsEmpty(d)
    <2>1. PICK last \in Nat : last = d.tail - 1
      BY <1>2, <1>7 DEF IsEmpty
    <2>2. /\ deque'[a] = [head |-> d.head, tail |-> last, capacity |-> d.capacity, entry |-> d.entry]
          /\ pc'[t] = "run"
      BY <1>0, <1>1, <1>2, <1>7, <2>1 DEF PopTail, SlotInv, SlotTypeOK, WorkInv, WorkTypeOK
    <2>3. current'[t] = Entry(a, last)
      BY <1>0, <1>7, <2>1 DEF LastTask, Entry, WorkInv, WorkTypeOK
    <2>4. /\ Queued(a) = d.head .. last /\ Queued(a)' = d.head .. last - 1
          /\ last \in Queued(a)
      BY <1>2, <1>7, <2>1, <2>2 DEF Queued, IsEmpty
    <2>5. \A k \in Queued(a)' : k \in Queued(a) /\ k < last /\ Entry(a, k)' = Entry(a, k)
      <3>1. \A k \in Queued(a)' : k \in Queued(a) /\ k < last
        BY <1>2, <2>1, <2>4
      <3> QED
        BY <2>2, <3>1 DEF Entry
    <2>6. \A r \in Slots : \A k \in Queued(r)' : k \in Queued(r) /\ Entry(r, k)' = Entry(r, k)
      BY <1>4, <2>5 DEF Queued, Entry
    <2>7. PushGoodAt(t)'
      BY <2>2 DEF PushGoodAt
    <2>8. BehindAt(power, t)'
      <3>1. Whole(t)' = Size(Entry(a, last))
        BY <1>0, <2>2, <2>3 DEF Whole, Size
      <3> SUFFICES ASSUME NEW k \in Queued(a)'
                   PROVE  Excess(Entry(a, k))' >= power[deque'[a].tail - 1 - k] * (Whole(t)' - 1)
        BY <1>0 DEF BehindAt
      <3>2. k \in Queued(a) /\ k < last /\ Entry(a, k)' = Entry(a, k)
        BY <2>5
      <3>3. Excess(Entry(a, k)) >= power[last - 1 - k] * Excess(Entry(a, last))
        BY <1>1, <2>4, <3>2 DEF DepthInv, Halving
      <3>4. Excess(Entry(a, k))' = Excess(Entry(a, k))
        BY <1>0, <3>2 DEF Excess, Size
      <3>5. deque'[a].tail = last /\ Whole(t)' - 1 = Excess(Entry(a, last))
        BY <2>2, <3>1 DEF Excess
      <3> QED
        BY <3>3, <3>4, <3>5
    <2>9. \A r \in Slots : deque'[r].capacity = deque[r].capacity
      BY <1>4, <2>2
    <2> QED
      BY <1>0, <1>3, <1>4, <1>5, <2>6, <2>7, <2>8, <2>9, DepthStays
  <1> QED
    BY <1>6, <1>7

(* A thief takes what is first in its victim's deque.                      *)
LEMMA DepthSteal ==
    ASSUME NEW power, SlotInv, WorkInv, WorkInv', DepthInv(power), NEW t \in Threads, Steal(t)
    PROVE  DepthInv(power)'
  <1> SUFFICES ASSUME NEW g, g = glance[t], NEW v, v = g.victim, NEW d, d = deque[v]
               PROVE  DepthInv(power)'
    OBVIOUS
  <1>0. /\ pc[t] = "cas" /\ Unchanged(d, g)
        /\ deque' = [deque EXCEPT ![v] = PopHead(d, g)]
        /\ pc' = [pc EXCEPT ![t] = "take"]
        /\ task' = task /\ current' = current /\ glance' = glance /\ slot' = slot
    BY DEF Steal, GoTo, arena
  <1>1. /\ v \in Slots /\ DequeGood(d)
        /\ d = [head |-> d.head, tail |-> d.tail, capacity |-> d.capacity, entry |-> d.entry]
        /\ d.head \in Nat /\ d.tail \in Nat
    BY DEF WorkInv, WorkTypeOK, GlanceType, DequesGood, DequeGood
  <1>2. /\ pc'[t] = "take" /\ \A u \in Threads \ {t} : pc'[u] = pc[u]
        /\ deque'[v] = PopHead(d, g)
        /\ \A r \in Slots \ {v} : deque'[r] = deque[r]
    BY <1>0, <1>1 DEF SlotInv, SlotTypeOK, WorkInv, WorkTypeOK
  <1>3. PICK h \in Nat : h = d.head + 1 /\ h = g.head + 1
    BY <1>0, <1>1 DEF Unchanged
  <1>4. deque'[v] = [head |-> h, tail |-> d.tail, capacity |-> d.capacity, entry |-> d.entry]
    <2>1. deque'[v] = [d EXCEPT !.head = h]
      BY <1>2, <1>3 DEF PopHead
    <2> QED
      BY <1>1, <2>1
  <1>5. Queued(v) = d.head .. d.tail - 1 /\ Queued(v)' = h .. d.tail - 1
    BY <1>4 DEF Queued
  <1>6. \A k \in Queued(v)' : k \in Queued(v)
    BY <1>1, <1>3, <1>5
  <1>7. \A s \in Slots : \A k \in Queued(s)' : k \in Queued(s) /\ Entry(s, k)' = Entry(s, k)
    BY <1>2, <1>4, <1>6 DEF Queued, Entry
  <1>8. Live' = Live /\ \A y \in Live' : FormKept(y)
    BY <1>0 DEF Live, FormKept
  <1>9. BehindAt(power, t)' /\ PushGoodAt(t)'
    BY <1>2 DEF BehindAt, PushGoodAt
  <1>10. \A s \in Slots : deque'[s].capacity = deque[s].capacity /\ deque'[s].tail = deque[s].tail
    BY <1>2, <1>4
  <1>11. \A u \in Threads \ {t} : pc'[u] \in {"run", "push"} => slot[u] \in Slots
    BY <1>2, AtWork
  <1> QED
    BY <1>0, <1>2, <1>7, <1>8, <1>9, <1>10, <1>11, DepthStays

(* Its own deque is empty.                                                 *)
LEMMA DepthTake ==
    ASSUME NEW power, SlotInv, WorkInv, WorkInv', DepthInv(power), NEW t \in Threads, Take(t)
    PROVE  DepthInv(power)'
  <1>1. /\ pc[t] = "take" /\ pc' = [pc EXCEPT ![t] = "run"]
        /\ task' = task /\ deque' = deque /\ slot' = slot
        /\ \A u \in Threads \ {t} : current'[u] = current[u] /\ glance'[u] = glance[u]
    BY DEF Take, GoTo, arena, WorkInv, WorkTypeOK
  <1>2. pc'[t] = "run" /\ \A u \in Threads \ {t} : pc'[u] = pc[u]
    BY <1>1 DEF SlotInv, SlotTypeOK
  <1>3. \A s \in Slots : \A k \in Queued(s)' : k \in Queued(s) /\ Entry(s, k)' = Entry(s, k)
    BY <1>1 DEF Queued, Entry
  <1>4. Live' = Live /\ \A y \in Live' : FormKept(y)
    BY <1>1 DEF Live, FormKept
  <1>5. BehindAt(power, t)' /\ PushGoodAt(t)'
    <2>1. Queued(slot[t]) = {}
      BY <1>1, OwnDequeEmpty DEF Outside
    <2>2. PICK s : s = slot[t] /\ slot'[t] = s
      BY <1>1
    <2>3. Queued(s)' = {}
      BY <1>1, <2>1, <2>2 DEF Queued
    <2>4. BehindAt(power, t)'
      BY <2>2, <2>3 DEF BehindAt
    <2> QED
      BY <1>2, <2>4 DEF PushGoodAt
  <1> QED
    BY <1>1, <1>2, <1>3, <1>4, <1>5, DepthStays

(* A deque that has an array has room in it for what its owner has left to *)
(* divide, and for one entry more.                                         *)
LEMMA NeverCrowded ==
    ASSUME NEW power, TwoSlots(power), WorkInv, DepthInv(power), NEW s \in Slots,
           deque[s].capacity # 0
    PROVE  /\ deque[s].capacity = FirstCapacity
           /\ deque[s].tail - deque[s].head + 1 < FirstCapacity
  <1>1. PICK d : d = deque[s]
    OBVIOUS
  <1>2. d.head \in Nat /\ d.tail \in Nat /\ d.capacity = FirstCapacity
    BY <1>1 DEF WorkInv, DequesGood, DequeGood, DepthInv, CapacitiesGood
  <1>3. FirstCapacity \in Nat /\ FirstCapacity >= 3 /\ Length \in Nat
    BY CapacityAssumption, SchedulerAssumption DEF TwoSlots
  <1>4. ASSUME d.tail - d.head + 1 >= FirstCapacity PROVE FALSE
    <2>1. PICK k \in Nat : k = d.head
      BY <1>2
    <2>2. PICK l \in Nat : l = k + FirstCapacity - 2
      BY <1>3
    <2>3. k \in Queued(s) /\ l \in Queued(s) /\ k < l
      BY <1>1, <1>2, <1>3, <1>4, <2>1, <2>2 DEF Queued
    <2>4. l - 1 - k = FirstCapacity - 3 /\ FirstCapacity - 3 \in Nat
      BY <1>3, <2>2
    <2>5. Excess(Entry(s, k)) >= power[FirstCapacity - 3]
      BY <2>3, <2>4 DEF DepthInv, Halving
    <2>6. PICK n \in Nat : n = power[FirstCapacity - 3] /\ Length <= n
      BY <2>4 DEF TwoSlots
    <2>7. Size(Entry(s, k)) \in 1 .. Length
      BY <2>3, QueuedLive DEF DepthInv, SizesGood, QueuedMaps
    <2> QED
      BY <1>3, <2>5, <2>6, <2>7 DEF Excess
  <1> QED
    BY <1>1, <1>2, <1>3, <1>4

(* So the first push makes the array, and no push makes another.           *)
LEMMA RoomInTwoSlots ==
    ASSUME NEW power, TwoSlots(power), SlotInv, WorkInv, DepthInv(power),
           NEW t \in Threads, Divide(t), NEW a, a = slot[t]
    PROVE  /\ a \in Slots
           /\ \A s \in Slots \ {a} : deque'[s] = deque[s]
           /\ deque'[a].head = deque[a].head /\ deque'[a].tail = deque[a].tail
           /\ deque'[a].capacity = FirstCapacity
           /\ \/ deque'[a] = deque[a]
              \/ deque[a].capacity = 0 /\ Queued(a) = {} /\ Queued(a)' = {}
  <1> SUFFICES ASSUME NEW d, d = deque[a], NEW new, new = deque'[a]
               PROVE  /\ a \in Slots
                      /\ \A s \in Slots \ {a} : deque'[s] = deque[s]
                      /\ new.head = d.head /\ new.tail = d.tail
                      /\ new.capacity = FirstCapacity
                      /\ \/ new = d
                         \/ d.capacity = 0 /\ Queued(a) = {} /\ Queued(a)' = {}
    OBVIOUS
  <1>0. pc[t] = "run" /\ deque' = [deque EXCEPT ![a] = MakeRoom(deque[a])]
    BY DEF Divide
  <1>1. a \in Slots
    BY <1>0, AtWork
  <1>2. new = MakeRoom(d) /\ \A s \in Slots \ {a} : deque'[s] = deque[s]
    BY <1>0, <1>1 DEF WorkInv, WorkTypeOK
  <1>3. /\ d = [head |-> d.head, tail |-> d.tail, capacity |-> d.capacity, entry |-> d.entry]
        /\ d.head \in Nat /\ d.tail \in Nat /\ d.capacity \in Nat
        /\ d.head <= d.tail /\ d.tail - d.head <= d.capacity
    BY <1>1 DEF WorkInv, DequesGood, DequeGood
  <1>4. CASE d.capacity # 0
    <2>1. d.capacity = FirstCapacity /\ d.tail - d.head + 1 < FirstCapacity
      BY <1>1, <1>4, NeverCrowded
    <2>2. ~IsCrowded(d)
      BY <1>3, <2>1, CapacityAssumption DEF IsCrowded
    <2> QED
      BY <1>1, <1>2, <2>1, <2>2 DEF MakeRoom
  <1>5. CASE d.capacity = 0
    <2>1. d.head = d.tail /\ IsCrowded(d)
      BY <1>3, <1>5 DEF IsCrowded
    <2>2. PICK e : new = [d EXCEPT !.capacity = FirstCapacity, !.entry = e]
      BY <1>2, <1>5, <2>1 DEF MakeRoom, Grow
    <2>3. new = [head |-> d.head, tail |-> d.tail, capacity |-> FirstCapacity, entry |-> e]
      BY <1>3, <2>2
    <2>4. Queued(a) = {} /\ Queued(a)' = {}
      BY <1>3, <2>1, <2>3 DEF Queued
    <2> QED
      BY <1>1, <1>2, <1>5, <2>3, <2>4
  <1> QED
    BY <1>4, <1>5

(* A task that divides leaves its thread as much as it had.                *)
LEMMA DepthDivide ==
    ASSUME NEW power, TwoSlots(power), SlotInv, WorkInv, DepthInv(power),
           NEW t \in Threads, Divide(t)
    PROVE  DepthInv(power)'
  <1> SUFFICES ASSUME NEW x, x = current[t], NEW a, a = slot[t],
                      NEW join, join = FirstFresh, NEW right, right = SecondFresh
               PROVE  DepthInv(power)'
    OBVIOUS
  <1>1. /\ x \in Live /\ task[x].kind = "map" /\ task[x].state = "ready"
        /\ join \in TaskIds \ Live /\ right \in TaskIds \ Live /\ join # right
        /\ Live' = Live \cup {join, right}
        /\ \A y \in Live \ {x} : task'[y] = task[y]
        /\ task'[x].kind = "map" /\ task'[right].kind = "map"
        /\ task'[join].kind = "continuation"
        /\ Size(x) \in Int /\ Size(x)' \in Int /\ Size(right)' \in Int
        /\ Size(x)' >= 1 /\ Size(right)' >= Size(x)'
        /\ Size(x)' + Size(right)' = Size(x)
    BY DivideDoes
  <1>2. /\ a \in Slots
        /\ \A s \in Slots \ {a} : deque'[s] = deque[s]
        /\ deque'[a].head = deque[a].head /\ deque'[a].tail = deque[a].tail
        /\ deque'[a].capacity = FirstCapacity
        /\ \/ deque'[a] = deque[a]
           \/ deque[a].capacity = 0 /\ Queued(a) = {} /\ Queued(a)' = {}
    BY RoomInTwoSlots
  <1>3. /\ pc[t] = "run" /\ pc' = [pc EXCEPT ![t] = "push"] /\ slot' = slot /\ current' = current
        /\ glance' = [glance EXCEPT ![t].index = right]
    BY DEF Divide, GoTo, arena
  <1>4. /\ pc'[t] = "push" /\ glance'[t].index = right
        /\ \A u \in Threads \ {t} : pc'[u] = pc[u] /\ glance'[u] = glance[u]
    <2>1. pc'[t] = "push" /\ \A u \in Threads \ {t} : pc'[u] = pc[u] /\ glance'[u] = glance[u]
      BY <1>3 DEF SlotInv, SlotTypeOK, WorkInv, WorkTypeOK
    <2>2. glance'[t] = [glance[t] EXCEPT !.index = right] /\ glance[t] \in GlanceType
      BY <1>3 DEF WorkInv, WorkTypeOK
    <2> QED
      BY <2>1, <2>2 DEF GlanceType
  <1>5. \A y \in Live \ {x} : Size(y)' = Size(y) /\ Excess(y)' = Excess(y)
    BY <1>1 DEF Size, Excess
  <1>6. SizesGood'
    <2> SUFFICES ASSUME NEW y \in Live', task'[y].kind = "map" PROVE Size(y)' \in 1 .. Length
      BY DEF SizesGood
    <2>1. Size(x) \in 1 .. Length
      BY <1>1 DEF DepthInv, SizesGood
    <2>2. CASE y \in {x, right}
      <3>1. Size(x)' \in 1 .. Length /\ Size(right)' \in 1 .. Length
        BY <1>1, <2>1, SchedulerAssumption
      <3> QED
        BY <2>2, <3>1
    <2>3. CASE y \in Live \ {x}
      BY <1>1, <1>5, <2>3 DEF DepthInv, SizesGood
    <2> QED
      BY <1>1, <2>2, <2>3
  <1>7. CapacitiesGood'
    BY <1>2 DEF DepthInv, CapacitiesGood
  <1>8. \A s \in Slots : Queued(s)' = Queued(s) /\ \A k \in Queued(s) : Entry(s, k)' = Entry(s, k)
    <2> SUFFICES ASSUME NEW s \in Slots
                 PROVE  Queued(s)' = Queued(s) /\ \A k \in Queued(s) : Entry(s, k)' = Entry(s, k)
      OBVIOUS
    <2>1. CASE deque'[s] = deque[s]
      BY <2>1 DEF Queued, Entry
    <2>2. CASE s = a /\ Queued(a) = {} /\ Queued(a)' = {}
      BY <2>2
    <2> QED
      BY <1>2, <2>1, <2>2
  <1>9. Carries(t) /\ TaskWith(t) = x
    BY <1>3 DEF Carries, TaskWith
  <1>10. \A s \in Slots : \A k \in Queued(s) : Entry(s, k) \in Live \ {x}
    BY <1>9, QueuedLive DEF WorkInv, Placed
  <1>11. QueuedMaps'
    <2> SUFFICES ASSUME NEW s \in Slots, NEW k \in Queued(s)
                 PROVE  task'[Entry(s, k)'].kind = "map"
      BY <1>8 DEF QueuedMaps
    <2>1. PICK y \in Live \ {x} : y = Entry(s, k) /\ Entry(s, k)' = y
      BY <1>8, <1>10
    <2> QED
      BY <1>1, <2>1 DEF DepthInv, QueuedMaps
  <1>12. \A s \in Slots : \A k \in Queued(s) : Excess(Entry(s, k))' = Excess(Entry(s, k))
    <2> SUFFICES ASSUME NEW s \in Slots, NEW k \in Queued(s)
                 PROVE  Excess(Entry(s, k))' = Excess(Entry(s, k))
      OBVIOUS
    <2>1. PICK y \in Live \ {x} : y = Entry(s, k) /\ Entry(s, k)' = y
      BY <1>8, <1>10
    <2>2. Excess(y)' = Excess(y)
      BY <1>5
    <2> QED
      BY <2>1, <2>2 DEF Excess, Size
  <1>13. Halving(power)'
    BY <1>8, <1>12 DEF DepthInv, Halving
  <1>14. ASSUME NEW u \in Threads \ {t}, pc[u] \in {"run", "push"}
         PROVE  /\ slot[u] \in Slots \ {a} /\ current[u] \in Live \ {x}
                /\ pc[u] = "push" => glance[u].index \in Live \ {x}
    <2>1. slot[u] \in Slots \ {a}
      BY <1>3, <1>14, AtWork
    <2>2. current[u] \in Live
      BY <1>14, InHand
    <2>3. current[u] # x
      BY <1>1, <1>3, LiveTasks DEF WorkInv, HandsGood
    <2>4. ASSUME pc[u] = "push" PROVE glance[u].index \in Live \ {x}
      <3>1. Carries(u) /\ TaskWith(u) = glance[u].index
        BY <2>4 DEF Carries, TaskWith
      <3>2. glance[u].index \in Live
        BY <2>4, InHand
      <3> QED
        BY <1>9, <3>1, <3>2 DEF WorkInv, Placed
    <2> QED
      BY <2>1, <2>2, <2>3, <2>4
  <1>15. ASSUME NEW u \in Threads \ {t} PROVE BehindAt(power, u)' /\ PushGoodAt(u)'
    <2>1. CASE pc[u] \notin {"run", "push"}
      BY <1>4, <2>1 DEF BehindAt, PushGoodAt
    <2>2. CASE pc[u] \in {"run", "push"}
      <3>1. BehindAt(power, u) /\ PushGoodAt(u)
        BY DEF DepthInv
      <3>2. /\ task'[current[u]] = task[current[u]] /\ Size(current[u])' = Size(current[u])
            /\ pc[u] = "push" => /\ task'[glance[u].index] = task[glance[u].index]
                                 /\ Size(glance[u].index)' = Size(glance[u].index)
        <4>1. task'[current[u]] = task[current[u]]
          BY <1>1, <1>14, <2>2
        <4>2. pc[u] = "push" => task'[glance[u].index] = task[glance[u].index]
          BY <1>1, <1>14, <2>2
        <4> QED
          BY <1>3, <1>4, <4>1, <4>2 DEF Size
      <3>3. Whole(u)' = Whole(u)
        BY <1>3, <1>4, <2>2, <3>2 DEF Whole
      <3>4. PushGoodAt(u)'
        BY <1>3, <1>4, <3>1, <3>2 DEF PushGoodAt
      <3>5. BehindAt(power, u)'
        <4>1. PICK s \in Slots \ {a} : s = slot[u] /\ slot'[u] = s
          BY <1>3, <1>14, <2>2
        <4> SUFFICES ASSUME task'[current'[u]].kind = "map", NEW k \in Queued(s)'
                     PROVE  Excess(Entry(s, k))' >= power[deque'[s].tail - 1 - k] * (Whole(u)' - 1)
          BY <4>1 DEF BehindAt
        <4>2. k \in Queued(s) /\ task[current[u]].kind = "map"
          BY <1>3, <1>8, <3>2
        <4>3. Excess(Entry(s, k)) >= power[deque[s].tail - 1 - k] * (Whole(u) - 1)
          BY <2>2, <3>1, <4>1, <4>2 DEF BehindAt
        <4>4. Excess(Entry(s, k))' = Excess(Entry(s, k)) /\ deque'[s].tail = deque[s].tail
          BY <1>2, <1>12, <4>2
        <4> QED
          BY <3>3, <4>3, <4>4
      <3> QED
        BY <3>4, <3>5
    <2> QED
      BY <2>1, <2>2
  <1>16. BehindAt(power, t)' /\ PushGoodAt(t)'
    <2>1. /\ Size(current[t])' = Size(x)' /\ Size(glance[t].index)' = Size(right)'
          /\ task'[current'[t]].kind = "map" /\ task'[glance'[t].index].kind = "map"
      BY <1>1, <1>3, <1>4 DEF Size
    <2>2. PushGoodAt(t)'
      BY <1>1, <2>1 DEF PushGoodAt
    <2>3. Whole(t)' = Size(x) /\ Whole(t) = Size(x)
      BY <1>1, <1>3, <1>4, <2>1 DEF Whole
    <2>4. BehindAt(power, t)'
      <3> SUFFICES ASSUME NEW k \in Queued(a)'
                   PROVE  Excess(Entry(a, k))' >= power[deque'[a].tail - 1 - k] * (Whole(t)' - 1)
        BY <1>3 DEF BehindAt
      <3>1. k \in Queued(a)
        BY <1>2, <1>8
      <3>2. Excess(Entry(a, k)) >= power[deque[a].tail - 1 - k] * (Whole(t) - 1)
        BY <1>1, <1>3, <3>1 DEF DepthInv, BehindAt
      <3> QED
        BY <1>2, <1>12, <2>3, <3>1, <3>2
    <2> QED
      BY <2>2, <2>4
  <1> QED
    BY <1>6, <1>7, <1>11, <1>13, <1>15, <1>16 DEF DepthInv

(* The right half is as large as the left one, so whoever is behind it in  *)
(* the deque has twice as much to give away as is still to be divided.     *)
LEMMA DepthPush ==
    ASSUME NEW power, TwoSlots(power), SlotInv, WorkInv, DepthInv(power),
           NEW t \in Threads, Push(t)
    PROVE  DepthInv(power)'
  <1> SUFFICES ASSUME NEW x, x = current[t], NEW right, right = glance[t].index,
                      NEW a, a = slot[t], NEW last, last = deque[a].tail
               PROVE  DepthInv(power)'
    OBVIOUS
  <1>0. /\ pc[t] = "push"
        /\ deque' = [deque EXCEPT ![a] = PushTail(@, right)]
        /\ glance' = [glance EXCEPT ![t] = NoGlance]
        /\ pc' = [pc EXCEPT ![t] = "run"]
        /\ current' = current /\ slot' = slot
    BY DEF Push, GoTo, arena
  <1>1. /\ x \in Live /\ task[x].kind = "map" /\ Live' = Live
        /\ \A y \in Live : FormKept(y)
    BY PushDoes
  <1>2. a \in Slots
    BY <1>0, AtWork
  <1>3. /\ pc'[t] = "run" /\ \A u \in Threads \ {t} : pc'[u] = pc[u] /\ glance'[u] = glance[u]
        /\ deque'[a] = PushTail(deque[a], right)
        /\ \A r \in Slots \ {a} : deque'[r] = deque[r]
    BY <1>0, <1>2 DEF SlotInv, SlotTypeOK, WorkInv, WorkTypeOK
  <1>4. deque[a].tail - deque[a].head < deque[a].capacity
    BY <1>0 DEF WorkInv, HandsGood
  <1>5. /\ DequeGood(deque'[a])
        /\ deque'[a].capacity = deque[a].capacity
        /\ Queued(a)' = Queued(a) \cup {last}
        /\ last \notin Queued(a)
        /\ Entry(a, last)' = right
        /\ \A k \in Queued(a) : Entry(a, k)' = Entry(a, k)
    <2>1. DequesGood
      BY DEF WorkInv
    <2>2. deque'[a] = PushTail(deque[a], right)
      BY <1>3
    <2> QED
      BY <1>2, <1>4, <2>1, <2>2, TailPushed
  <1>6. last \in Nat /\ deque'[a].tail = last + 1 /\ \A k \in Queued(a) : k \in Nat /\ k < last
    <2>1. PICK d : d = deque[a]
      OBVIOUS
    <2>2. /\ d = [head |-> d.head, tail |-> d.tail, capacity |-> d.capacity, entry |-> d.entry]
          /\ d.head \in Nat /\ d.tail \in Nat
      BY <1>2, <2>1 DEF WorkInv, DequesGood, DequeGood
    <2>3. PICK e : deque'[a] = [d EXCEPT !.entry = e, !.tail = last + 1]
      BY <1>3, <2>1 DEF PushTail
    <2> QED
      BY <2>1, <2>2, <2>3 DEF Queued
  <1>7. \A s \in Slots \ {a} : Queued(s)' = Queued(s) /\ \A k \in Queued(s) : Entry(s, k)' = Entry(s, k)
    BY <1>3 DEF Queued, Entry
  <1>8. \A y \in Live : Size(y)' = Size(y) /\ Excess(y)' = Excess(y)
    BY <1>1 DEF FormKept, Size, Excess
  <1>9. /\ right \in Live /\ task[right].kind = "map"
        /\ Size(x) \in 1 .. Length /\ Size(right) \in 1 .. Length /\ Size(right) >= Size(x)
    <2>1. right \in Live
      BY <1>0, InHand
    <2>2. task[right].kind = "map" /\ Size(right) >= Size(x)
      BY <1>0 DEF DepthInv, PushGoodAt
    <2> QED
      BY <1>1, <2>1, <2>2 DEF DepthInv, SizesGood
  <1>10. PICK m \in Nat \ {0}, n \in Nat \ {0} : m = Size(x) /\ n = Size(right) /\ n >= m
    BY <1>9, SchedulerAssumption
  <1>11. \A s \in Slots : \A k \in Queued(s) :
            /\ Entry(s, k)' = Entry(s, k) /\ Entry(s, k) \in Live
            /\ Excess(Entry(s, k))' = Excess(Entry(s, k))
            /\ task'[Entry(s, k)'].kind = "map" /\ Excess(Entry(s, k)) \in Int
    <2> SUFFICES ASSUME NEW s \in Slots, NEW k \in Queued(s)
                 PROVE  /\ Entry(s, k)' = Entry(s, k) /\ Entry(s, k) \in Live
                        /\ Excess(Entry(s, k))' = Excess(Entry(s, k))
                        /\ task'[Entry(s, k)'].kind = "map" /\ Excess(Entry(s, k)) \in Int
      OBVIOUS
    <2>1. PICK y \in Live : y = Entry(s, k) /\ Entry(s, k)' = y
      BY <1>5, <1>7, QueuedLive
    <2>2. Size(y)' = Size(y) /\ Excess(y)' = Excess(y) /\ task'[y].kind = task[y].kind
      BY <1>1, <1>8 DEF FormKept
    <2>3. task[y].kind = "map"
      BY <2>1 DEF DepthInv, QueuedMaps
    <2>4. Size(y) \in 1 .. Length
      BY <2>3 DEF DepthInv, SizesGood
    <2>5. Excess(y) \in Int
      BY <2>4, SchedulerAssumption DEF Excess
    <2> QED
      BY <2>1, <2>2, <2>3, <2>5 DEF Excess, Size
  <1>12. Excess(Entry(a, last))' = n - 1 /\ task'[Entry(a, last)'].kind = "map"
    <2>1. Excess(right)' = Size(right) - 1 /\ task'[right].kind = "map"
      BY <1>1, <1>8, <1>9 DEF Excess, FormKept
    <2> QED
      BY <1>5, <1>10, <2>1 DEF Excess, Size
  \* What is behind the new entry.
  <1>13. ASSUME NEW k \in Queued(a)
         PROVE  /\ Excess(Entry(a, k)) >= power[last - 1 - k]
                /\ Excess(Entry(a, k)) >= power[last - 1 - k] * (n - 1)
                /\ Excess(Entry(a, k)) >= power[last - k] * (m - 1)
    <2>1. PICK i \in Nat : i = last - 1 - k
      BY <1>6
    <2>2. PICK p \in Nat : p = power[i]
      BY DEF TwoSlots
    <2>3. Whole(t) = m + n
      BY <1>0, <1>10 DEF Whole
    <2>4. Excess(Entry(a, k)) >= p * (m + n - 1)
      <3>1. Excess(Entry(a, k)) >= power[last - 1 - k] * (Whole(t) - 1)
        BY <1>0, <1>1 DEF DepthInv, BehindAt
      <3> QED
        BY <2>1, <2>2, <2>3, <3>1
    <2>5. p * (m + n - 1) >= p * (n - 1) /\ p * (m + n - 1) >= p * 1
      BY TimesKeepsOrder
    <2>6. p * (m + n - 1) >= p * (2 * (m - 1))
      BY <1>10, TimesKeepsOrder
    <2>7. power[last - k] * (m - 1) = p * (2 * (m - 1))
      <3>1. last - k = i + 1
        BY <1>6, <2>1
      <3>2. power[last - k] = 2 * p
        BY <2>2, <3>1 DEF TwoSlots
      <3> QED
        BY <3>2
    <2>8. /\ Excess(Entry(a, k)) \in Int /\ p * (m + n - 1) \in Int
          /\ p * (n - 1) \in Int /\ p * (2 * (m - 1)) \in Int /\ p * 1 = p
      BY <1>2, <1>11
    <2>9. Excess(Entry(a, k)) >= p * (n - 1) /\ Excess(Entry(a, k)) >= p
      BY <2>4, <2>5, <2>8
    <2>10. Excess(Entry(a, k)) >= p * (2 * (m - 1))
      BY <2>4, <2>6, <2>8
    <2> QED
      BY <2>1, <2>2, <2>7, <2>9, <2>10
  <1>14. SizesGood'
    BY <1>1, <1>8 DEF DepthInv, SizesGood, FormKept
  <1>15. CapacitiesGood'
    BY <1>3, <1>5 DEF DepthInv, CapacitiesGood
  <1>16. QueuedMaps'
    BY <1>5, <1>7, <1>11, <1>12 DEF QueuedMaps
  <1>17. Halving(power)'
    <2> SUFFICES ASSUME NEW s \in Slots, NEW k \in Queued(s)', NEW l \in Queued(s)', k < l
                 PROVE  /\ Excess(Entry(s, k))' >= power[l - 1 - k]
                        /\ Excess(Entry(s, k))' >= power[l - 1 - k] * Excess(Entry(s, l))'
      BY DEF Halving
    <2>1. CASE k \in Queued(s) /\ l \in Queued(s)
      BY <1>11, <2>1 DEF DepthInv, Halving
    <2>2. CASE s = a /\ k \in Queued(a) /\ l = last
      BY <1>11, <1>12, <1>13, <2>2
    <2>3. CASE s = a /\ k = last
      BY <1>5, <1>6, <2>3
    <2> QED
      BY <1>5, <1>7, <2>1, <2>2, <2>3
  <1>18. ASSUME NEW u \in Threads PROVE BehindAt(power, u)' /\ PushGoodAt(u)'
    <2>1. CASE u = t
      <3>1. PushGoodAt(t)'
        BY <1>3 DEF PushGoodAt
      <3>2. Whole(t)' = m
        BY <1>0, <1>1, <1>3, <1>8, <1>10 DEF Whole, Size
      <3>3. ASSUME NEW k \in Queued(a)'
            PROVE  Excess(Entry(a, k))' >= power[deque'[a].tail - 1 - k] * (m - 1)
        <4>1. CASE k \in Queued(a)
          <5>1. deque'[a].tail - 1 - k = last - k
            BY <1>6, <4>1
          <5> QED
            BY <1>2, <1>11, <1>13, <4>1, <5>1
        <4>2. CASE k = last
          <5>1. deque'[a].tail - 1 - k = 0
            BY <1>6, <4>2
          <5>2. power[deque'[a].tail - 1 - k] * (m - 1) = m - 1
            BY <5>1 DEF TwoSlots
          <5> QED
            BY <1>10, <1>12, <4>2, <5>2
        <4> QED
          BY <1>5, <4>1, <4>2
      <3>4. BehindAt(power, t)'
        BY <1>0, <3>2, <3>3 DEF BehindAt
      <3> QED
        BY <2>1, <3>1, <3>4
    <2>2. CASE u # t /\ pc[u] \notin {"run", "push"}
      BY <1>3, <2>2 DEF BehindAt, PushGoodAt
    <2>3. CASE u # t /\ pc[u] \in {"run", "push"}
      <3>1. BehindAt(power, u) /\ PushGoodAt(u)
        BY DEF DepthInv
      <3>2. PICK s \in Slots \ {a} : s = slot[u] /\ slot'[u] = s
        BY <1>0, <2>3, AtWork
      <3>3. current[u] \in Live /\ (pc[u] = "push" => glance[u].index \in Live)
        BY <2>3, InHand
      <3>4. /\ Size(current[u])' = Size(current[u]) /\ task'[current[u]].kind = task[current[u]].kind
            /\ pc[u] = "push" =>
                 /\ task'[glance[u].index].kind = task[glance[u].index].kind
                 /\ Size(glance[u].index)' = Size(glance[u].index)
        <4>1. task'[current[u]].kind = task[current[u]].kind /\ Size(current[u])' = Size(current[u])
          BY <1>0, <1>1, <3>3 DEF FormKept, Size
        <4>2. pc[u] = "push" =>
                 /\ task'[glance[u].index].kind = task[glance[u].index].kind
                 /\ Size(glance[u].index)' = Size(glance[u].index)
          BY <1>1, <1>3, <2>3, <3>3 DEF FormKept, Size
        <4> QED
          BY <4>1, <4>2
      <3>5. Whole(u)' = Whole(u)
        BY <1>0, <1>3, <2>3, <3>4 DEF Whole
      <3>6. PushGoodAt(u)'
        BY <1>0, <1>3, <2>3, <3>1, <3>4 DEF PushGoodAt
      <3>7. BehindAt(power, u)'
        <4> SUFFICES ASSUME task'[current'[u]].kind = "map", NEW k \in Queued(s)'
                     PROVE  Excess(Entry(s, k))' >= power[deque'[s].tail - 1 - k] * (Whole(u)' - 1)
          BY <3>2 DEF BehindAt
        <4>1. k \in Queued(s) /\ task[current[u]].kind = "map"
          BY <1>0, <1>7, <3>4
        <4>2. Excess(Entry(s, k)) >= power[deque[s].tail - 1 - k] * (Whole(u) - 1)
          BY <2>3, <3>1, <3>2, <4>1 DEF BehindAt
        <4> QED
          BY <1>3, <1>11, <3>5, <4>1, <4>2
      <3> QED
        BY <3>6, <3>7
    <2> QED
      BY <2>1, <2>2, <2>3
  <1> QED
    BY <1>14, <1>15, <1>16, <1>17, <1>18 DEF DepthInv

(* A map begins with an empty deque and with all its elements in one task. *)
LEMMA DepthMapStart ==
    ASSUME NEW power, TwoSlots(power), SlotInv, WorkInv, WorkInv', DepthInv(power), MapStart
    PROVE  DepthInv(power)'
  <1> SUFFICES ASSUME NEW waiting, waiting = FirstFresh, NEW root, root = SecondFresh
               PROVE  DepthInv(power)'
    OBVIOUS
  <1>1. /\ waiting \in TaskIds \ Live /\ root \in TaskIds \ Live /\ waiting # root
        /\ Live' = Live \cup {waiting, root}
        /\ \A y \in Live : task'[y] = task[y]
        /\ task'[waiting].kind = "wait" /\ task'[root].kind = "map"
        /\ Size(root)' = Length
    BY MapStartDoes
  <1>2. /\ pc[Master] = "wake" /\ pc' = [pc EXCEPT ![Master] = "run"]
        /\ current' = [current EXCEPT ![Master] = root]
        /\ deque' = deque /\ glance' = glance /\ slot' = slot
    BY DEF MapStart, GoTo, arena
  <1>3. /\ pc'[Master] = "run"
        /\ \A u \in Threads \ {Master} : pc'[u] = pc[u] /\ current'[u] = current[u]
    BY <1>2 DEF SlotInv, SlotTypeOK, WorkInv, WorkTypeOK, Threads
  <1>4. \A y \in Live : /\ Size(y)' = Size(y) /\ Excess(y)' = Excess(y)
                        /\ task'[y].kind = task[y].kind
    BY <1>1 DEF Size, Excess
  <1>5. SizesGood'
    BY <1>1, <1>4, SchedulerAssumption DEF DepthInv, SizesGood
  <1>6. CapacitiesGood'
    BY <1>2 DEF DepthInv, CapacitiesGood
  <1>7. \A s \in Slots : Queued(s)' = Queued(s) /\ \A k \in Queued(s) :
            /\ Entry(s, k)' = Entry(s, k) /\ Entry(s, k) \in Live
            /\ Excess(Entry(s, k))' = Excess(Entry(s, k))
    <2>1. \A s \in Slots : Queued(s)' = Queued(s) /\ \A k \in Queued(s) :
            Entry(s, k)' = Entry(s, k) /\ Entry(s, k) \in Live
      BY <1>2, QueuedLive DEF Queued, Entry
    <2> SUFFICES ASSUME NEW s \in Slots, NEW k \in Queued(s)
                 PROVE  Excess(Entry(s, k))' = Excess(Entry(s, k))
      BY <2>1
    <2>2. PICK y \in Live : y = Entry(s, k) /\ Entry(s, k)' = y
      BY <2>1
    <2>3. Excess(y)' = Excess(y)
      BY <1>4
    <2> QED
      BY <2>2, <2>3 DEF Excess, Size
  <1>8. QueuedMaps'
    BY <1>4, <1>7 DEF DepthInv, QueuedMaps
  <1>9. Halving(power)'
    BY <1>7 DEF DepthInv, Halving
  <1>10. slot[Master] \in Slots /\ Queued(slot[Master]) = {}
    <2>1. Master \in Threads /\ pc[Master] \notin Outside
      BY <1>2 DEF Threads, Outside
    <2> QED
      BY <1>2, <2>1, OwnDequeEmpty
  <1>11. ASSUME NEW u \in Threads PROVE BehindAt(power, u)' /\ PushGoodAt(u)'
    <2>1. CASE u = Master
      <3>1. PICK s \in Slots : s = slot[Master] /\ slot'[Master] = s /\ Queued(s) = {}
        BY <1>2, <1>10
      <3>2. Queued(s)' = {}
        BY <1>7, <3>1
      <3> QED
        BY <1>3, <2>1, <3>1, <3>2 DEF BehindAt, PushGoodAt
    <2>2. CASE u # Master /\ pc[u] \notin {"run", "push"}
      BY <1>3, <2>2 DEF BehindAt, PushGoodAt
    <2>3. CASE u # Master /\ pc[u] \in {"run", "push"}
      <3>1. BehindAt(power, u) /\ PushGoodAt(u)
        BY DEF DepthInv
      <3>2. current[u] \in Live /\ (pc[u] = "push" => glance[u].index \in Live)
        BY <2>3, InHand
      <3>3. /\ pc'[u] = pc[u] /\ current'[u] = current[u] /\ glance'[u] = glance[u]
            /\ slot'[u] = slot[u]
        BY <1>2, <1>3, <2>3
      <3>4. /\ Size(current[u])' = Size(current[u])
            /\ pc[u] = "push" => Size(glance[u].index)' = Size(glance[u].index)
        BY <1>1, <3>2, <3>3 DEF Size
      <3>5. Whole(u)' = Whole(u)
        BY <3>3, <3>4 DEF Whole
      <3>6. PushGoodAt(u)'
        BY <1>4, <3>1, <3>2, <3>3, <3>4 DEF PushGoodAt
      <3>7. PICK s \in Slots : s = slot[u] /\ slot'[u] = s
        BY <2>3, <3>3, AtWork
      <3>8. BehindAt(power, u)'
        <4> SUFFICES ASSUME task'[current'[u]].kind = "map", NEW k \in Queued(s)'
                     PROVE  Excess(Entry(s, k))' >= power[deque'[s].tail - 1 - k] * (Whole(u)' - 1)
          BY <3>7 DEF BehindAt
        <4>1. k \in Queued(s) /\ task[current[u]].kind = "map"
          BY <1>4, <1>7, <3>2, <3>3
        <4>2. Excess(Entry(s, k)) >= power[deque[s].tail - 1 - k] * (Whole(u) - 1)
          BY <2>3, <3>1, <3>7, <4>1 DEF BehindAt
        <4> QED
          BY <1>2, <1>7, <3>5, <4>1, <4>2
      <3> QED
        BY <3>6, <3>8
    <2> QED
      BY <2>1, <2>2, <2>3
  <1> QED
    BY <1>5, <1>6, <1>8, <1>9, <1>11 DEF DepthInv

(* A deque that loses a task keeps its array.                              *)
LEMMA SameArrays ==
    ASSUME \A s \in Slots : deque'[s].entry = deque[s].entry /\ deque'[s].capacity = deque[s].capacity,
           WorkTypeOK
    PROVE  EntriesKept
  <1>1. ArraysKept
    BY DEF ArraysKept
  <1>2. StolenKept
    BY DEF StolenKept, WorkTypeOK, GlanceType
  <1> QED
    BY <1>1, <1>2 DEF EntriesKept

(* The owner's next push does not use the entry that a thief is to read:   *)
(* that one lies just before the head, and the deque is never that full.   *)
LEMMA PushStays ==
    ASSUME NEW power, TwoSlots(power), SlotInv, WorkInv, TheftInv, DepthInv(power),
           NEW t \in Threads, Push(t)
    PROVE  EntriesKept
  <1> SUFFICES ASSUME NEW a, a = slot[t], NEW d, d = deque[a], NEW x, x = glance[t].index
               PROVE  EntriesKept
    OBVIOUS
  <1>1. pc[t] = "push" /\ deque' = [deque EXCEPT ![a] = PushTail(d, x)]
    BY DEF Push
  <1>2. a \in Slots
    BY <1>1, AtWork
  <1>3. deque'[a] = PushTail(d, x) /\ \A s \in Slots \ {a} : deque'[s] = deque[s]
    BY <1>1, <1>2 DEF WorkInv, WorkTypeOK
  <1>4. /\ d = [head |-> d.head, tail |-> d.tail, capacity |-> d.capacity, entry |-> d.entry]
        /\ d.head \in Nat /\ d.tail \in Nat /\ d.capacity \in Nat /\ d.head <= d.tail
        /\ d.entry = [k \in 0 .. d.capacity - 1 |-> d.entry[k]]
        /\ d.tail - d.head < d.capacity
    <2>1. DequeGood(d)
      BY <1>2 DEF WorkInv, DequesGood
    <2>2. d.tail - d.head < d.capacity
      BY <1>1 DEF WorkInv, HandsGood
    <2> QED
      BY <2>1, <2>2 DEF DequeGood
  <1>5. PICK c \in Nat \ {0} : c = d.capacity
    BY <1>4
  <1>6. PICK i \in 0 .. c - 1 : i = d.tail % c
    BY <1>4, <1>5, ModRange
  <1>7. PICK e : e = [d.entry EXCEPT ![i] = x]
    OBVIOUS
  <1>8. /\ deque'[a] = [head |-> d.head, tail |-> d.tail + 1, capacity |-> c, entry |-> e]
        /\ \A k \in 0 .. c - 1 : k # i => e[k] = d.entry[k]
    BY <1>3, <1>4, <1>5, <1>6, <1>7 DEF PushTail
  <1>9. ArraysKept
    BY <1>3, <1>5, <1>8 DEF ArraysKept
  <1>10. StolenKept
    <2> SUFFICES ASSUME NEW u \in Threads, pc[u] = "take", NEW g, g = glance[u]
                 PROVE  deque'[g.victim].entry[g.index] = deque[g.victim].entry[g.index]
      BY DEF StolenKept
    <2>1. g.victim \in Slots /\ g.head \in Int
      BY DEF WorkInv, WorkTypeOK, GlanceType
    <2>2. CASE g.victim # a
      BY <1>3, <2>1, <2>2
    <2>3. CASE g.victim = a
      <3>1. ~OwnerAway(u)
        BY <1>1, <2>3 DEF OwnerAway, Working
      <3>2. d.head = g.head + 1 /\ g.index = g.head % c
        BY <1>5, <2>3, <3>1 DEF TheftInv, HeadMoved
      <3>3. d.tail - d.head + 1 < c
        BY <1>2, <1>5, NeverCrowded
      <3>4. PICK h \in Int, head \in Int, tail \in Int :
                h = g.head /\ head = d.head /\ tail = d.tail
        BY <1>4, <2>1
      <3>5. h < tail /\ tail - h < c
        <4>1. head = h + 1 /\ tail - head + 1 < c /\ head <= tail
          BY <1>4, <3>2, <3>3, <3>4
        <4> QED
          BY <4>1
      <3>6. h % c # tail % c
        BY <3>5, ModApart
      <3>7. h % c \in 0 .. c - 1
        BY ModRange
      <3>8. e[g.index] = d.entry[g.index]
        BY <1>6, <1>8, <3>2, <3>4, <3>6, <3>7
      <3> QED
        BY <1>8, <2>3, <3>8
    <2> QED
      BY <2>2, <2>3
  <1> QED
    BY <1>9, <1>10 DEF EntriesKept

(* Nothing doubles, and no stolen entry is used again under its thief.     *)
LEMMA EntriesStay ==
    ASSUME NEW power, TwoSlots(power), SlotInv, WorkInv, TheftInv, DepthInv(power), Next
    PROVE  EntriesKept
  <1>0. WorkTypeOK /\ DequesGood
    BY DEF WorkInv
  <1>1. ASSUME deque' = deque PROVE EntriesKept
    BY <1>0, <1>1, SameArrays
  <1>2. ASSUME NEW t \in Threads, Pop(t) PROVE EntriesKept
    <2>1. PICK a, d : a = slot[t] /\ d = deque[a]
      OBVIOUS
    <2>2. pc[t] = "pop" /\ (deque' = [deque EXCEPT ![a] = Reset(d)]
                            \/ deque' = [deque EXCEPT ![a] = PopTail(d)])
      BY <1>2, <2>1 DEF Pop
    <2>3. a \in Slots
      BY <2>1, <2>2, AtWork
    <2>4. d = [head |-> d.head, tail |-> d.tail, capacity |-> d.capacity, entry |-> d.entry]
      BY <1>0, <2>1, <2>3 DEF DequesGood, DequeGood
    <2>5. PICK h, k : deque' = [deque EXCEPT ![a] = [d EXCEPT !.head = h, !.tail = k]]
      <3>1. CASE deque' = [deque EXCEPT ![a] = Reset(d)]
        BY <3>1 DEF Reset
      <3>2. CASE deque' = [deque EXCEPT ![a] = PopTail(d)]
        <4>1. PICK k : k = d.tail - 1
          OBVIOUS
        <4>2. PopTail(d) = [d EXCEPT !.head = d.head, !.tail = k]
          BY <2>4, <4>1 DEF PopTail
        <4> QED
          BY <3>2, <4>2
      <3> QED
        BY <2>2, <3>1, <3>2
    <2>6. \A s \in Slots : deque'[s].entry = deque[s].entry /\ deque'[s].capacity = deque[s].capacity
      BY <1>0, <2>1, <2>3, <2>4, <2>5 DEF WorkTypeOK
    <2> QED
      BY <1>0, <2>6, SameArrays
  <1>3. ASSUME NEW t \in Threads, Steal(t) PROVE EntriesKept
    <2>1. PICK g, v, d : g = glance[t] /\ v = g.victim /\ d = deque[v]
      OBVIOUS
    <2>2. PICK h : deque' = [deque EXCEPT ![v] = [d EXCEPT !.head = h]]
      BY <1>3, <2>1 DEF Steal, PopHead
    <2>3. v \in Slots
      BY <1>0, <2>1 DEF WorkTypeOK, GlanceType
    <2>4. d = [head |-> d.head, tail |-> d.tail, capacity |-> d.capacity, entry |-> d.entry]
      BY <1>0, <2>1, <2>3 DEF DequesGood, DequeGood
    <2>5. \A s \in Slots : deque'[s].entry = deque[s].entry /\ deque'[s].capacity = deque[s].capacity
      BY <1>0, <2>1, <2>2, <2>3, <2>4 DEF WorkTypeOK
    <2> QED
      BY <1>0, <2>5, SameArrays
  <1>4. ASSUME NEW t \in Threads, Divide(t) PROVE EntriesKept
    <2>1. PICK a : a = slot[t]
      OBVIOUS
    <2>2. /\ a \in Slots
          /\ \A s \in Slots \ {a} : deque'[s] = deque[s]
          /\ deque'[a] = deque[a] \/ deque[a].capacity = 0
      BY <1>4, <2>1, RoomInTwoSlots
    <2>3. ArraysKept
      BY <2>2 DEF ArraysKept
    <2>4. StolenKept
      <3> SUFFICES ASSUME NEW u \in Threads, pc[u] = "take", NEW g, g = glance[u]
                   PROVE  deque'[g.victim].entry[g.index] = deque[g.victim].entry[g.index]
        BY DEF StolenKept
      <3>1. g.victim \in Slots
        BY <1>0 DEF WorkTypeOK, GlanceType
      <3>2. g.index \in 0 .. deque[g.victim].capacity - 1
        BY DEF WorkInv, GlancesGood, GlanceGood
      <3>3. deque[g.victim].capacity # 0
        BY <3>2
      <3> QED
        BY <2>2, <3>1, <3>3
    <2> QED
      BY <2>3, <2>4 DEF EntriesKept
  <1>5. ASSUME NEW t \in Threads, Push(t) PROVE EntriesKept
    BY <1>5, PushStays
  <1>6. ASSUME NEW t \in Threads, Execute(t) PROVE EntriesKept
    <2>1. CASE Run(t) \/ Free(t) \/ Look(t) \/ LookAgain(t) \/ Take(t)
      BY <1>1, <2>1 DEF Run, Free, Look, LookAgain, Take
    <2> QED
      BY <1>2, <1>3, <1>4, <1>5, <1>6, <2>1 DEF Execute
  <1>7. CASE MasterStep
    <2>1. CASE Execute(Master)
      BY <1>6, <2>1 DEF Threads
    <2>2. CASE ~Execute(Master)
      <3>1. deque' = deque
        BY <1>7, <2>2 DEF MasterStep, Enter, Mark, Wake, MapStart, MapReturn, Sleep, Leave, Unmark,
                          Unslot, work
      <3> QED
        BY <1>1, <3>1
    <2> QED
      BY <2>1, <2>2
  <1>8. ASSUME NEW w \in Workers, Worker(w) PROVE EntriesKept
    <2>1. CASE Execute(w)
      BY <1>6, <2>1 DEF Threads
    <2>2. CASE ~Execute(w)
      <3>1. deque' = deque
        BY <1>8, <2>2 DEF Worker, Awake, PassOn, Attach, FindNoSlot, Mark, GiveUp, Unmark, Unslot, work
      <3> QED
        BY <1>1, <3>1
    <2> QED
      BY <2>1, <2>2
  <1> QED
    BY <1>7, <1>8 DEF Next

(* At first nobody steals.                                                 *)
LEMMA TheftInit == Init => TheftInv
  <1> SUFFICES ASSUME Init PROVE TheftInv
    OBVIOUS
  <1>1. \A t \in Threads : pc[t] \in {"out", "idle"}
    BY DEF Init
  <1> QED
    BY <1>1 DEF TheftInv

(* In an arena of two slots a step of executing and stealing keeps what is *)
(* known of thieves and of depths.                                         *)
LEMMA ExecuteKeepsTwo ==
    ASSUME NEW power, TwoSlots(power), SlotInv, WorkInv, WorkInv', TheftInv, DepthInv(power),
           NEW t \in Threads, Execute(t)
    PROVE  TheftInv' /\ DepthInv(power)'
  <1>0. Capacity = 2
    BY DEF TwoSlots
  <1>1. ASSUME NEW place \in {"run", "free", "push", "pop", "steal"}, pc[t] \in Working,
               GoTo(t, place), slot' = slot,
               \A u \in Threads \ {t} : glance'[u] = glance[u],
               \A s \in Slots : /\ deque'[s].head = deque[s].head
                                /\ deque[s].capacity # 0 => deque'[s].capacity = deque[s].capacity
        PROVE  TheftInv'
    <2>1. pc'[t] \notin {"cas", "take"} /\ \A u \in Threads \ {t} : pc'[u] = pc[u]
      BY <1>1 DEF GoTo, SlotInv, SlotTypeOK
    <2> QED
      BY <1>1, <2>1, TheftStays
  <1>2. CASE Run(t)
    <2>1. pc[t] \in Working /\ GoTo(t, "free") /\ slot' = slot /\ deque' = deque /\ glance' = glance
      BY <1>2 DEF Run, Working, arena
    <2> QED
      BY <1>1, <1>2, <2>1, DepthRun
  <1>3. CASE Free(t)
    <2>1. PICK place \in {"run", "pop"} :
            pc[t] \in Working /\ GoTo(t, place) /\ slot' = slot /\ deque' = deque /\ glance' = glance
      BY <1>3 DEF Free, Working, arena
    <2> QED
      BY <1>1, <1>3, <2>1, DepthFree
  <1>4. CASE Divide(t)
    <2>1. /\ pc[t] \in Working /\ GoTo(t, "push") /\ slot' = slot
          /\ \A u \in Threads \ {t} : glance'[u] = glance[u]
      BY <1>4 DEF Divide, Working, arena, WorkInv, WorkTypeOK
    <2>2. PICK a : a = slot[t]
      OBVIOUS
    <2>3. /\ \A s \in Slots \ {a} : deque'[s] = deque[s]
          /\ deque'[a].head = deque[a].head
          /\ deque'[a] = deque[a] \/ deque[a].capacity = 0
      BY <1>4, <2>2, RoomInTwoSlots
    <2>4. \A s \in Slots : /\ deque'[s].head = deque[s].head
                           /\ deque[s].capacity # 0 => deque'[s].capacity = deque[s].capacity
      BY <2>3
    <2>5. TheftInv'
      BY <1>1, <2>1, <2>4
    <2> QED
      BY <1>4, <2>5, DepthDivide
  <1>5. CASE Push(t)
    <2>1. /\ pc[t] = "push" /\ GoTo(t, "run") /\ slot' = slot
          /\ \A u \in Threads \ {t} : glance'[u] = glance[u]
      BY <1>5 DEF Push, arena, WorkInv, WorkTypeOK
    <2>2. PICK a, d, x : a = slot[t] /\ d = deque[a] /\ x = glance[t].index
      OBVIOUS
    <2>3. a \in Slots
      BY <2>1, <2>2, AtWork
    <2>4. deque' = [deque EXCEPT ![a] = PushTail(d, x)]
      BY <1>5, <2>2 DEF Push
    <2>5. PushTail(d, x).head = d.head /\ PushTail(d, x).capacity = d.capacity
      <3>1. d = [head |-> d.head, tail |-> d.tail, capacity |-> d.capacity, entry |-> d.entry]
        BY <2>2, <2>3 DEF WorkInv, DequesGood, DequeGood
      <3>2. PICK i, k : i = d.tail % d.capacity /\ k = d.tail + 1
        OBVIOUS
      <3>3. PICK e : e = [d.entry EXCEPT ![i] = x]
        OBVIOUS
      <3>4. PushTail(d, x) = [d EXCEPT !.entry = e, !.tail = k]
        BY <3>2, <3>3 DEF PushTail
      <3>5. PushTail(d, x) = [head |-> d.head, tail |-> k, capacity |-> d.capacity, entry |-> e]
        BY <3>1, <3>4
      <3> QED
        BY <3>5
    <2>6. \A s \in Slots : deque'[s].head = deque[s].head /\ deque'[s].capacity = deque[s].capacity
      <3>1. deque'[a] = PushTail(d, x) /\ \A s \in Slots \ {a} : deque'[s] = deque[s]
        BY <2>3, <2>4 DEF WorkInv, WorkTypeOK
      <3> QED
        BY <2>2, <2>5, <3>1
    <2>7. TheftInv'
      BY <1>1, <2>1, <2>6 DEF Working
    <2> QED
      BY <1>5, <2>7, DepthPush
  <1>6. CASE Pop(t)
    <2>1. CASE IsEmpty(deque[slot[t]])
      BY <1>6, <2>1, TheftPopNothing, DepthPop
    <2>2. CASE ~IsEmpty(deque[slot[t]])
      <3>1. PICK a, d : a = slot[t] /\ d = deque[a]
        OBVIOUS
      <3>2. /\ pc[t] = "pop" /\ GoTo(t, "run") /\ slot' = slot /\ glance' = glance
            /\ deque' = [deque EXCEPT ![a] = PopTail(d)]
        BY <1>6, <2>2, <3>1 DEF Pop, arena
      <3>3. a \in Slots
        BY <3>1, <3>2, AtWork
      <3>4. d = [head |-> d.head, tail |-> d.tail, capacity |-> d.capacity, entry |-> d.entry]
        BY <3>1, <3>3 DEF WorkInv, DequesGood, DequeGood
      <3>5. PICK k : PopTail(d) = [d EXCEPT !.tail = k]
        BY DEF PopTail
      <3>6. \A s \in Slots : deque'[s].head = deque[s].head /\ deque'[s].capacity = deque[s].capacity
        BY <3>1, <3>2, <3>3, <3>4, <3>5 DEF WorkInv, WorkTypeOK
      <3>7. TheftInv'
        BY <1>1, <3>2, <3>6 DEF Working
      <3> QED
        BY <1>6, <3>7, DepthPop
    <2> QED
      BY <2>1, <2>2
  <1>7. CASE Look(t)
    <2>1. TheftInv'
      BY <1>0, <1>7, TheftLook
    <2>2. /\ deque' = deque /\ task' = task /\ pc' = [pc EXCEPT ![t] = "cas"]
          /\ current' = current /\ slot' = slot
          /\ \A u \in Threads \ {t} : glance'[u] = glance[u]
      BY <1>7 DEF Look, GoTo, arena, WorkInv, WorkTypeOK
    <2>3. pc'[t] \notin {"run", "push"} /\ \A u \in Threads \ {t} : pc'[u] = pc[u]
      BY <2>2 DEF SlotInv, SlotTypeOK
    <2> QED
      BY <2>1, <2>2, <2>3, DepthQuiet
  <1>8. CASE Steal(t)
    BY <1>0, <1>8, TheftSteal, DepthSteal
  <1>9. CASE LookAgain(t)
    <2>1. /\ deque' = deque /\ task' = task /\ GoTo(t, "steal") /\ pc[t] = "cas"
          /\ current' = current /\ slot' = slot
          /\ \A u \in Threads \ {t} : glance'[u] = glance[u]
      BY <1>9 DEF LookAgain, arena, WorkInv, WorkTypeOK
    <2>2. TheftInv'
      BY <1>1, <2>1 DEF Working
    <2>3. pc'[t] \notin {"run", "push"} /\ \A u \in Threads \ {t} : pc'[u] = pc[u]
      BY <2>1 DEF GoTo, SlotInv, SlotTypeOK
    <2> QED
      BY <2>1, <2>2, <2>3, DepthQuiet
  <1>10. CASE Take(t)
    <2>1. /\ deque' = deque /\ GoTo(t, "run") /\ pc[t] = "take" /\ slot' = slot
          /\ \A u \in Threads \ {t} : glance'[u] = glance[u]
      BY <1>10 DEF Take, arena, WorkInv, WorkTypeOK
    <2>2. TheftInv'
      BY <1>1, <2>1 DEF Working
    <2> QED
      BY <1>10, <2>2, DepthTake
  <1> QED
    BY <1>2, <1>3, <1>4, <1>5, <1>6, <1>7, <1>8, <1>9, <1>10 DEF Execute

(* So does one of coming, going, waking or sleeping.                       *)
LEMMA MoverKeepsTwo ==
    ASSUME NEW power, SlotInv, WorkInv, WorkInv', TheftInv, DepthInv(power),
           UNCHANGED work, NEW t \in Threads, NEW place \in Quiet, pc[t] \in Quiet,
           GoTo(t, place),
           \A u \in Threads \ {t} : slot'[u] = slot[u]
    PROVE  TheftInv' /\ DepthInv(power)'
  <1>1. pc'[t] = place /\ \A u \in Threads \ {t} : pc'[u] = pc[u]
    BY DEF GoTo, SlotInv, SlotTypeOK
  <1>2. TheftInv'
    BY <1>1, TheftQuiet
  <1>3. deque' = deque /\ task' = task /\ current' = current /\ glance' = glance
    BY DEF work
  <1>4. pc'[t] \notin {"run", "push"}
    BY <1>1 DEF Quiet
  <1> QED
    BY <1>1, <1>2, <1>3, <1>4, DepthQuiet

(* And one that moves no thread.                                           *)
LEMMA StillKeepsTwo ==
    ASSUME NEW power, SlotInv, WorkInv, WorkInv', TheftInv, DepthInv(power),
           UNCHANGED work, UNCHANGED <<pc, slot>>
    PROVE  TheftInv' /\ DepthInv(power)'
  <1>1. TheftInv'
    BY TheftQuiet
  <1>2. deque' = deque /\ task' = task /\ current' = current /\ glance' = glance
    BY DEF work
  <1>3. DepthInv(power)'
    BY <1>2 DEF DepthInv, SizesGood, CapacitiesGood, QueuedMaps, Halving, BehindAt, PushGoodAt,
                Live, Size, Excess, Whole, Queued, Entry
  <1> QED
    BY <1>1, <1>3

\* What is true of an arena of two slots.
TwoInv(power) == SlotInv /\ WorkInv /\ TreeInv /\ TheftInv /\ DepthInv(power)

(* The steps of a master.                                                  *)
LEMMA MasterKeepsTwo ==
    ASSUME NEW power, TwoSlots(power), TwoInv(power), WorkInv', MasterStep
    PROVE  TheftInv' /\ DepthInv(power)'
  <1>0. SlotInv /\ WorkInv /\ TreeInv /\ TheftInv /\ DepthInv(power) /\ Master \in Threads
    BY DEF TwoInv, Threads
  <1>1. CASE Execute(Master)
    BY <1>0, <1>1, ExecuteKeepsTwo
  <1>2. CASE MapStart
    BY <1>0, <1>2, TheftMapStart, DepthMapStart
  <1>3. CASE Wake \/ Sleep
    <2>1. UNCHANGED work /\ UNCHANGED <<pc, slot>>
      BY <1>3 DEF Wake, Sleep, arena
    <2> QED
      BY <1>0, <2>1, StillKeepsTwo
  <1>4. CASE Enter \/ Mark(Master, "wake") \/ MapReturn \/ Leave \/ Unmark(Master)
    <2>1. PICK place \in Quiet : GoTo(Master, place) /\ pc[Master] \in Quiet
      BY <1>4 DEF Enter, Mark, MapReturn, Leave, Unmark, Quiet, Places, Outside
    <2>2. UNCHANGED work /\ slot' = slot
      BY <1>4 DEF Enter, Mark, MapReturn, Leave, Unmark, arena
    <2> QED
      BY <1>0, <2>1, <2>2, MoverKeepsTwo
  <1>5. CASE Unslot(Master, "out")
    <2>1. "out" \in Quiet /\ GoTo(Master, "out") /\ pc[Master] \in Quiet
      BY <1>5 DEF Unslot, Quiet, Places, Outside
    <2>2. UNCHANGED work /\ \A u \in Threads \ {Master} : slot'[u] = slot[u]
      BY <1>0, <1>5 DEF Unslot, SlotInv, SlotTypeOK
    <2> QED
      BY <1>0, <2>1, <2>2, MoverKeepsTwo
  <1> QED
    BY <1>1, <1>2, <1>3, <1>4, <1>5 DEF MasterStep

(* The steps of a worker.                                                  *)
LEMMA WorkerKeepsTwo ==
    ASSUME NEW power, TwoSlots(power), TwoInv(power), WorkInv', NEW w \in Workers, Worker(w)
    PROVE  TheftInv' /\ DepthInv(power)'
  <1>0. SlotInv /\ WorkInv /\ TreeInv /\ TheftInv /\ DepthInv(power) /\ w \in Threads
    BY DEF TwoInv, Threads
  <1>1. CASE Execute(w)
    BY <1>0, <1>1, ExecuteKeepsTwo
  <1>2. CASE Awake(w) \/ PassOn(w) \/ FindNoSlot(w) \/ Mark(w, "steal") \/ GiveUp(w) \/ Unmark(w)
    <2>1. PICK place \in Quiet : GoTo(w, place) /\ pc[w] \in Quiet
      BY <1>2 DEF Awake, PassOn, FindNoSlot, Mark, GiveUp, Unmark, Quiet, Places, Outside
    <2>2. UNCHANGED work /\ slot' = slot
      BY <1>2 DEF Awake, PassOn, FindNoSlot, Mark, GiveUp, Unmark, arena
    <2> QED
      BY <1>0, <2>1, <2>2, MoverKeepsTwo
  <1>3. CASE Attach(w)
    <2>1. "mark" \in Quiet /\ GoTo(w, "mark") /\ pc[w] \in Quiet
      BY <1>3 DEF Attach, Quiet, Places, Outside
    <2>2. UNCHANGED work /\ \A u \in Threads \ {w} : slot'[u] = slot[u]
      BY <1>0, <1>3 DEF Attach, SlotInv, SlotTypeOK
    <2> QED
      BY <1>0, <2>1, <2>2, MoverKeepsTwo
  <1>4. CASE Unslot(w, "idle")
    <2>1. "idle" \in Quiet /\ GoTo(w, "idle") /\ pc[w] \in Quiet
      BY <1>4 DEF Unslot, Quiet, Places, Outside
    <2>2. UNCHANGED work /\ \A u \in Threads \ {w} : slot'[u] = slot[u]
      BY <1>0, <1>4 DEF Unslot, SlotInv, SlotTypeOK
    <2> QED
      BY <1>0, <2>1, <2>2, MoverKeepsTwo
  <1> QED
    BY <1>1, <1>2, <1>3, <1>4 DEF Worker

(* In an arena of two slots, whose deques never double, every step keeps   *)
(* the entries of the deques, and the invariant.                           *)
LEMMA TwoInvInductive ==
    ASSUME NEW power, TwoSlots(power), TwoInv(power), [Next]_vars
    PROVE  TwoInv(power)'
  <1>0. SlotInv /\ WorkInv /\ TreeInv /\ TheftInv /\ DepthInv(power)
    BY DEF TwoInv
  <1>1. SlotInv' /\ TreeInv'
    BY <1>0, SlotInvInductive, TreeInvInductive
  <1>2. [EntriesKept]_vars
    BY <1>0, EntriesStay
  <1>3. WorkInv'
    BY <1>0, <1>2, WorkInvInductive
  <1>4. TheftInv' /\ DepthInv(power)'
    <2>1. CASE UNCHANGED vars
      <3>1. UNCHANGED work /\ UNCHANGED <<pc, slot>>
        BY <2>1 DEF vars, work
      <3> QED
        BY <1>0, <1>3, <3>1, StillKeepsTwo
    <2>2. CASE Next
      BY <1>3, <2>2, MasterKeepsTwo, WorkerKeepsTwo DEF Next
    <2> QED
      BY <2>1, <2>2
  <1> QED
    BY <1>1, <1>3, <1>4 DEF TwoInv

(* It holds at first.                                                     *)
LEMMA TwoInvInit ==
    ASSUME NEW power, Init
    PROVE  TwoInv(power)
  BY SlotInit, WorkInit, TreeInit, TheftInit, DepthInit DEF TwoInv

-----------------------------------------------------------------------------
\* What follows for every execution

(* In an arena of two slots whose deques never double, in every execution, *)
(* every task that is executed is Ready and executed by one thread, as     *)
(* assert(m_TrackState == Ready) demands, however TaskDeque_Push,          *)
(* _Pop_Private and _Pop_Public interleave and workers come and go.  With  *)
(* three slots the assertion can fail.                                     *)
THEOREM TasksRunReady ==
    ASSUME NEW power, TwoSlots(power)
    PROVE  Spec => []OnlyReadyTasksRun
  <1>1. Init => TwoInv(power)
    BY TwoInvInit
  <1>2. TwoInv(power) /\ [Next]_vars => TwoInv(power)'
    BY TwoInvInductive
  <1>3. TwoInv(power) => OnlyReadyTasksRun
    BY WorkInvRunsReady DEF TwoInv
  <1> QED
    BY <1>1, <1>2, <1>3, PTL DEF Spec

(* In the same arenas every ready task is in exactly one deque or in the   *)
(* hands of exactly one thread, and a deque that is not empty belongs to a *)
(* thread that will come to pop it: Slot_Release strands no task.          *)
THEOREM TasksPlaced ==
    ASSUME NEW power, TwoSlots(power)
    PROVE  Spec => []NoTaskLost
  <1>1. Init => TwoInv(power)
    BY TwoInvInit
  <1>2. TwoInv(power) /\ [Next]_vars => TwoInv(power)'
    BY TwoInvInductive
  <1>3. TwoInv(power) => NoTaskLost
    BY PlacedIsEnough DEF TwoInv, WorkInv
  <1> QED
    BY <1>1, <1>2, <1>3, PTL DEF Spec

(* In the same arenas the reference count of a task is the number of its   *)
(* predecessors that are not freed yet, through Set_Ref_Count, the         *)
(* recycling of the left half and FreeAndTestSuccessor.                    *)
THEOREM CountsExact ==
    ASSUME NEW power, TwoSlots(power)
    PROVE  Spec => []PredecessorsCounted
  <1>1. Init => TwoInv(power)
    BY TwoInvInit
  <1>2. TwoInv(power) /\ [Next]_vars => TwoInv(power)'
    BY TwoInvInductive
  <1>3. TwoInv(power) => PredecessorsCounted
    BY DEF TwoInv, WorkInv
  <1> QED
    BY <1>1, <1>2, <1>3, PTL DEF Spec

=============================================================================
