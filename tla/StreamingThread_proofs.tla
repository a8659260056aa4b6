------------------------ MODULE StreamingThread_proofs ------------------------
(***************************************************************************)
(* Safety of the streaming slots for any number of threads and slots and   *)
(* any junk in m_streaming_native_thread_id.                               *)
(***************************************************************************)
EXTENDS StreamingThread, TLAPS

Misled(t) == \E s \in Slots : junk[s] = t

\* The mask says which slots were taken, and an id is its taker's or junk.
IdsExplained ==
    /\ \A s \in Slots : s \in mask <=> holder[s] # NoThread
    /\ \A s \in Slots : ids[s] = junk[s] \/ (s \in mask /\ ids[s] = holder[s])

\* Who uses a slot took it or was misled into it.
UsersExplained ==
    \A t \in Threads :
        /\ at[t] \in Recording \cup {"own"} => slot[t] \in Slots
        /\ at[t] = "own" => holder[slot[t]] = t
        /\ at[t] = "cas" => i[t] \in Slots \ seen[t]
        /\ at[t] = "scan" => seen[t] \subseteq mask
        /\ slot[t] \in Slots =>
              slot[t] \in mask /\ t \in {holder[slot[t]], junk[slot[t]]}

\* A taker's id is written once it is past "own".
IdsWritten ==
    \A t \in Threads, s \in Slots :
        holder[s] = t /\ ids[s] # t => at[t] = "own" /\ slot[t] = s

\* Where a thread that no junk misleads can be with respect to its own slot.
OwnSlotAhead ==
    \A t \in Threads, s \in Slots : ~Misled(t) /\ holder[s] = t =>
        /\ at[t] = "scan" => s \in seen[t] /\ i[t] <= s
        /\ at[t] \notin {"allocate", "cas", "refused"}
        /\ at[t] = "own" => s = slot[t]

\* NULL is still NULL when the buffer is allocated.
BuffersOnce ==
    \A s \in Slots : junk[s] \notin Threads =>
        /\ buffers[s] <= 1
        /\ \A t \in Threads : at[t] = "new_buffer" /\ slot[t] = s => buffers[s] = 0

RefusedSawAll ==
    \A t \in Threads : at[t] = "refused" => Slots \subseteq mask

IInv ==
    /\ TypeOK
    /\ IdsExplained
    /\ UsersExplained
    /\ IdsWritten
    /\ OwnSlotAhead
    /\ OneSlotEach
    /\ BuffersOnce
    /\ RefusedSawAll

-----------------------------------------------------------------------------

(* The shared use of a slot in IInv is what SlotHasOneOwner excludes.      *)
LEMMA UsersAreOne == IInv => SlotHasOneOwner
  BY DEF IInv, TypeOK, IdsExplained, UsersExplained, SlotHasOneOwner, Recording

(* At first no slot is taken and no thread is in a call.                   *)
LEMMA InitIInv == Init => IInv
  <1> SUFFICES ASSUME Init PROVE IInv
    OBVIOUS
  <1> USE StreamingThreadAssumption DEF Init, Slots, Recording
  <1>1. TypeOK
    BY DEF TypeOK
  <1>2. IdsExplained /\ UsersExplained /\ IdsWritten /\ OwnSlotAhead
    BY DEF IdsExplained, UsersExplained, IdsWritten, OwnSlotAhead
  <1>3. OneSlotEach /\ BuffersOnce /\ RefusedSawAll
    BY DEF OneSlotEach, BuffersOnce, RefusedSawAll
  <1> QED
    BY <1>1, <1>2, <1>3 DEF IInv

(* The scan of the slots keeps the invariant: it never passes a slot that  *)
(* the thread took itself.                                                 *)
LEMMA GetIInv ==
  ASSUME IInv, NEW t \in Threads, Get(t)
  PROVE  IInv'
  <1> USE StreamingThreadAssumption DEF Slots, Recording, Goto
  <1>1. CASE LoadMask(t)
    BY <1>1 DEF LoadMask, IInv, TypeOK, IdsExplained, UsersExplained, IdsWritten,
       OwnSlotAhead, Misled, OneSlotEach, BuffersOnce, RefusedSawAll
  <1>2. CASE ScanFound(t)
    BY <1>2 DEF ScanFound, Matches, IInv, TypeOK, IdsExplained, UsersExplained, IdsWritten,
       OwnSlotAhead, Misled, OneSlotEach, BuffersOnce, RefusedSawAll
  <1>3. CASE ScanNext(t)
    BY <1>3 DEF ScanNext, Matches, IInv, TypeOK, IdsExplained, UsersExplained, IdsWritten,
       OwnSlotAhead, Misled, OneSlotEach, BuffersOnce, RefusedSawAll
  <1>4. CASE ScanMissed(t)
    BY <1>4 DEF ScanMissed, IInv, TypeOK, IdsExplained, UsersExplained, IdsWritten,
       OwnSlotAhead, Misled, OneSlotEach, BuffersOnce, RefusedSawAll
  <1>5. CASE Own(t)
    BY <1>5 DEF Own, IInv, TypeOK, IdsExplained, UsersExplained, IdsWritten,
       OwnSlotAhead, Misled, OneSlotEach, BuffersOnce, RefusedSawAll
  <1> QED
    BY <1>1, <1>2, <1>3, <1>4, <1>5 DEF Get

(* A CAS that succeeds takes a slot nobody took, for a thread with none.   *)
LEMMA AllocateIInv ==
  ASSUME IInv, NEW t \in Threads, Allocate(t)
  PROVE  IInv'
  <1> USE StreamingThreadAssumption DEF Slots, Recording, Goto
  <1>1. CASE PickFree(t)
    BY <1>1 DEF PickFree, IInv, TypeOK, IdsExplained, UsersExplained, IdsWritten,
       OwnSlotAhead, Misled, OneSlotEach, BuffersOnce, RefusedSawAll
  <1>2. CASE PickNone(t)
    BY <1>2 DEF PickNone, IInv, TypeOK, IdsExplained, UsersExplained, IdsWritten,
       OwnSlotAhead, Misled, OneSlotEach, BuffersOnce, RefusedSawAll
  <1>3. CASE CasTakes(t)
    <2>1. TypeOK'
      BY <1>3 DEF CasTakes, IInv, TypeOK, IdsExplained, UsersExplained
    <2>2. IdsExplained'
      <3> SUFFICES ASSUME NEW s \in Slots
                   PROVE  /\ s \in mask' <=> holder'[s] # NoThread
                          /\ ids'[s] = junk'[s] \/ (s \in mask' /\ ids'[s] = holder'[s])
        BY DEF IdsExplained
      <3>1. i[t] \in Slots \ mask
        BY <1>3 DEF CasTakes, IInv, UsersExplained
      <3>2. s = i[t] => holder'[s] = t /\ ids[s] = junk[s]
        BY <1>3, <3>1 DEF CasTakes, IInv, TypeOK, IdsExplained
      <3>3. s # i[t] => holder'[s] = holder[s]
        BY <1>3 DEF CasTakes, IInv, TypeOK
      <3> QED
        BY <1>3, <3>1, <3>2, <3>3 DEF CasTakes, IInv, TypeOK, IdsExplained
    <2>3. UsersExplained'
      BY <1>3 DEF CasTakes, IInv, TypeOK, IdsExplained, UsersExplained
    <2>4. IdsWritten'
      BY <1>3 DEF CasTakes, IInv, TypeOK, IdsExplained, UsersExplained, IdsWritten
    <2>5. OwnSlotAhead'
      BY <1>3 DEF CasTakes, IInv, TypeOK, IdsExplained, UsersExplained, OwnSlotAhead, Misled
    <2>6. OneSlotEach'
      BY <1>3 DEF CasTakes, IInv, TypeOK, IdsExplained, UsersExplained, OwnSlotAhead, Misled, OneSlotEach
    <2>7. BuffersOnce'
      BY <1>3 DEF CasTakes, IInv, TypeOK, UsersExplained, BuffersOnce
    <2>8. RefusedSawAll'
      BY <1>3 DEF CasTakes, IInv, TypeOK, IdsExplained, UsersExplained, RefusedSawAll
    <2> QED
      BY <2>1, <2>2, <2>3, <2>4, <2>5, <2>6, <2>7, <2>8 DEF IInv
  <1>4. CASE CasRetries(t)
    BY <1>4 DEF CasRetries, IInv, TypeOK, IdsExplained, UsersExplained, IdsWritten,
       OwnSlotAhead, Misled, OneSlotEach, BuffersOnce, RefusedSawAll
  <1> QED
    BY <1>1, <1>2, <1>3, <1>4 DEF Allocate

(* Recording touches only the slot of its one user.                        *)
LEMMA CopyIInv ==
  ASSUME IInv, NEW t \in Threads, Copy(t)
  PROVE  IInv'
  <1> USE StreamingThreadAssumption DEF Slots, Recording, Goto
  <1>0. SlotHasOneOwner
    BY UsersAreOne
  <1>1. CASE UseBuffer(t)
    BY <1>1 DEF UseBuffer, IInv, TypeOK, IdsExplained, UsersExplained, IdsWritten,
       OwnSlotAhead, Misled, OneSlotEach, BuffersOnce, RefusedSawAll
  <1>2. CASE FindNull(t)
    BY <1>2 DEF FindNull, IInv, TypeOK, IdsExplained, UsersExplained, IdsWritten,
       OwnSlotAhead, Misled, OneSlotEach, BuffersOnce, RefusedSawAll
  <1>3. CASE NewBuffer(t)
    <2>1. TypeOK'
      BY <1>3 DEF NewBuffer, IInv, TypeOK, IdsExplained, UsersExplained
    <2>2. IdsExplained'
      BY <1>3 DEF NewBuffer, IInv, TypeOK, IdsExplained, UsersExplained
    <2>3. UsersExplained'
      BY <1>3 DEF NewBuffer, IInv, TypeOK, IdsExplained, UsersExplained
    <2>4. IdsWritten'
      BY <1>3 DEF NewBuffer, IInv, TypeOK, IdsExplained, UsersExplained, IdsWritten
    <2>5. OwnSlotAhead'
      BY <1>3 DEF NewBuffer, IInv, TypeOK, IdsExplained, UsersExplained, OwnSlotAhead, Misled
    <2>6. OneSlotEach'
      BY <1>3 DEF NewBuffer, IInv, TypeOK, IdsExplained, UsersExplained, OwnSlotAhead, Misled, OneSlotEach
    <2>7. BuffersOnce'
      <3> SUFFICES ASSUME NEW s \in Slots, junk[s] \notin Threads
                   PROVE  /\ buffers'[s] <= 1
                          /\ \A u \in Threads : at'[u] = "new_buffer" /\ slot[u] = s => buffers'[s] = 0
        BY <1>3 DEF NewBuffer, BuffersOnce
      <3>1. /\ buffers \in [Slots -> Nat]
            /\ at \in [Threads -> Recording \cup {"idle", "scan", "allocate", "cas", "own", "refused"}]
            /\ at[t] = "new_buffer" /\ at' = [at EXCEPT ![t] = "record"]
            /\ buffers' = [buffers EXCEPT ![slot[t]] = @ + 1]
        BY <1>3 DEF NewBuffer, IInv, TypeOK
      <3>2. buffers[s] <= 1 /\ \A u \in Threads : at[u] = "new_buffer" /\ slot[u] = s => buffers[s] = 0
        BY DEF IInv, BuffersOnce
      <3>3. CASE slot[t] = s
        <4>1. \A u \in Threads \ {t} : at[u] = "new_buffer" => slot[u] # s
          BY <1>0, <3>1, <3>3 DEF SlotHasOneOwner
        <4> QED
          BY <3>1, <3>2, <3>3, <4>1
      <3>4. CASE slot[t] # s
        BY <3>1, <3>2, <3>4
      <3> QED
        BY <3>3, <3>4
    <2>8. RefusedSawAll'
      BY <1>3 DEF NewBuffer, IInv, TypeOK, IdsExplained, UsersExplained, RefusedSawAll
    <2> QED
      BY <2>1, <2>2, <2>3, <2>4, <2>5, <2>6, <2>7, <2>8 DEF IInv
  <1>4. CASE Record(t)
    BY <1>4 DEF Record, IInv, TypeOK, IdsExplained, UsersExplained, IdsWritten,
       OwnSlotAhead, Misled, OneSlotEach, BuffersOnce, RefusedSawAll
  <1> QED
    BY <1>1, <1>2, <1>3, <1>4 DEF Copy

(* Every access to the shared fields keeps the invariant.                  *)
LEMMA NextIInv == IInv /\ [Next]_vars => IInv'
  <1> SUFFICES ASSUME IInv, [Next]_vars PROVE IInv'
    OBVIOUS
  <1>1. CASE UNCHANGED vars
    BY <1>1 DEF vars, IInv, TypeOK, IdsExplained, UsersExplained, IdsWritten, OwnSlotAhead,
       Misled, OneSlotEach, BuffersOnce, RefusedSawAll
  <1>2. CASE Next
    BY <1>2, GetIInv, AllocateIInv, CopyIInv DEF Next
  <1> QED
    BY <1>1, <1>2

(* The strengthening holds throughout.                                     *)
THEOREM Inductive == Spec => []IInv
  BY InitIInv, NextIInv, PTL DEF Spec

(* Every field and local keeps its type.                                   *)
THEOREM TypeCorrect == Spec => []TypeOK
  <1>1. IInv => TypeOK
    BY DEF IInv
  <1> QED
    BY <1>1, Inductive, PTL

(* Two threads never record into one slot, unless junk named one of them.  *)
THEOREM SlotExclusive == Spec => []SlotHasOneOwner
  BY UsersAreOne, Inductive, PTL

(* A thread that junk does not mislead takes at most one slot.             *)
THEOREM SlotUnique == Spec => []OneSlotEach
  <1>1. IInv => OneSlotEach
    BY DEF IInv
  <1> QED
    BY <1>1, Inductive, PTL

(* The index assertion of copy_buffer_to_image fails only in a crowd.      *)
THEOREM RefusalExplained == Spec => []RefusedOnlyWhenCrowded
  <1>1. IInv => RefusedOnlyWhenCrowded
    BY DEF IInv, TypeOK, IdsExplained, OwnSlotAhead, Misled, RefusedSawAll, RefusedOnlyWhenCrowded
  <1> QED
    BY <1>1, Inductive, PTL

(* A slot's command buffer is allocated once.                              *)
THEOREM OneBufferPerSlot == Spec => []BufferAllocatedOnce
  <1>1. IInv => BufferAllocatedOnce
    BY DEF IInv, TypeOK, BuffersOnce, BufferAllocatedOnce
  <1> QED
    BY <1>1, Inductive, PTL
=============================================================================
