--------------------------- MODULE StreamingThread ---------------------------
(***************************************************************************)
(* How a thread that streams textures gets a slot of gfx_connection_vk     *)
(* (streaming_thread_index_get, streaming_thread_index_allocate), and what *)
(* copy_buffer_to_image does with it: record into the slot's own command   *)
(* buffer, with no lock.  Slots are never given back.                      *)
(*                                                                         *)
(* m_streaming_affinity_mask is read and changed with atomics;             *)
(* m_streaming_native_thread_id is plain memory that nothing initializes   *)
(* and that is written after the mask says the slot is taken.  So a reader *)
(* of a taken slot may see the junk the memory held before.                *)
(***************************************************************************)
EXTENDS Integers, FiniteSets

CONSTANTS
    Threads,    \* native thread ids of the threads that stream
    NoThread,   \* stands for junk that is no streaming thread's id
    Count       \* STREAMING_THREAD_COUNT

ASSUME StreamingThreadAssumption ==
    /\ NoThread \notin Threads
    /\ Count \in Nat \ {0}

VARIABLES
    mask,       \* m_streaming_affinity_mask, as the set of bits that are 1
    ids,        \* m_streaming_native_thread_id
    buffers,    \* command buffers ever allocated for each slot
    at,         \* where each thread is
    i,          \* its loop counter, then the slot it found
    seen,       \* its copy of the mask
    slot,       \* the slot its last call returned, -1 for none
    junk,       \* ghost: what ids held at first
    holder      \* ghost: the thread whose CAS took each slot

vars == <<mask, ids, buffers, at, i, seen, slot, junk, holder>>

Slots == 0 .. Count - 1

Init ==
    /\ mask = {}
    /\ junk \in [Slots -> Threads \cup {NoThread}]
    /\ ids = junk
    /\ buffers = [s \in Slots |-> 0]
    /\ at = [t \in Threads |-> "idle"]
    /\ i = [t \in Threads |-> 0]
    /\ seen = [t \in Threads |-> {}]
    /\ slot = [t \in Threads |-> -1]
    /\ holder = [s \in Slots |-> NoThread]

Goto(t, from, to) == at[t] = from /\ at' = [at EXCEPT ![t] = to]

-----------------------------------------------------------------------------
(* streaming_thread_index_get                                              *)

LoadMask(t) ==
    /\ Goto(t, "idle", "scan")
    /\ seen' = [seen EXCEPT ![t] = mask]
    /\ i' = [i EXCEPT ![t] = 0]
    /\ UNCHANGED <<mask, ids, buffers, slot, junk, holder>>

\* A test that trusts the id alone.
MatchesIgnoringMask(t) == i[t] < Count /\ ids[i[t]] = t

\* The slot at the loop counter is taken and says it is this thread's.
Matches(t) == i[t] < Count /\ i[t] \in seen[t] /\ ids[i[t]] = t

ScanFound(t) ==
    /\ Matches(t)
    /\ Goto(t, "scan", "use")
    /\ slot' = [slot EXCEPT ![t] = i[t]]
    /\ UNCHANGED <<mask, ids, buffers, i, seen, junk, holder>>

ScanNext(t) ==
    /\ at[t] = "scan" /\ i[t] < Count /\ ~Matches(t)
    /\ i' = [i EXCEPT ![t] = @ + 1]
    /\ UNCHANGED <<mask, ids, buffers, at, seen, slot, junk, holder>>

ScanMissed(t) ==
    /\ i[t] = Count
    /\ Goto(t, "scan", "allocate")
    /\ UNCHANGED <<mask, ids, buffers, i, seen, slot, junk, holder>>

-----------------------------------------------------------------------------
(* streaming_thread_index_allocate                                         *)

\* Load the mask and pick the lowest bit that is 0.
PickFree(t) ==
    /\ Goto(t, "allocate", "cas")
    /\ seen' = [seen EXCEPT ![t] = mask]
    /\ \E s \in Slots \ mask :
          /\ \A r \in Slots \ mask : s <= r
          /\ i' = [i EXCEPT ![t] = s]
    /\ UNCHANGED <<mask, ids, buffers, slot, junk, holder>>

\* No bit is 0: the index is uint32_t(-1), which copy_buffer_to_image asserts
\* it never gets.  The thread goes no further.
PickNone(t) ==
    /\ Slots \subseteq mask
    /\ Goto(t, "allocate", "refused")
    /\ slot' = [slot EXCEPT ![t] = -1]
    /\ UNCHANGED <<mask, ids, buffers, i, seen, junk, holder>>

\* A CAS that stores whatever the mask has become.
CasUnchecked(t) ==
    /\ Goto(t, "cas", "own")
    /\ mask' = seen[t] \cup {i[t]}
    /\ holder' = [holder EXCEPT ![i[t]] = t]
    /\ slot' = [slot EXCEPT ![t] = i[t]]
    /\ UNCHANGED <<ids, buffers, i, seen, junk>>

CasTakes(t) ==
    /\ mask = seen[t]
    /\ Goto(t, "cas", "own")
    /\ mask' = mask \cup {i[t]}
    /\ holder' = [holder EXCEPT ![i[t]] = t]
    /\ slot' = [slot EXCEPT ![t] = i[t]]
    /\ UNCHANGED <<ids, buffers, i, seen, junk>>

\* A retry that keeps the mask it loaded first.
CasRetriesStale(t) ==
    /\ mask # seen[t] /\ at[t] = "cas"
    /\ UNCHANGED vars

\* Another thread took a slot in between: load the mask again.
CasRetries(t) ==
    /\ mask # seen[t]
    /\ Goto(t, "cas", "allocate")
    /\ UNCHANGED <<mask, ids, buffers, i, seen, slot, junk, holder>>

\* An owner that leaves the slot's id as it found it.
OwnUnwritten(t) ==
    /\ Goto(t, "own", "use")
    /\ UNCHANGED <<mask, ids, buffers, i, seen, slot, junk, holder>>

\* Back in streaming_thread_index_get: write the id.
Own(t) ==
    /\ Goto(t, "own", "use")
    /\ ids' = [ids EXCEPT ![slot[t]] = t]
    /\ UNCHANGED <<mask, buffers, i, seen, slot, junk, holder>>

-----------------------------------------------------------------------------
(* copy_buffer_to_image                                                    *)

\* The slot has a command buffer already.
UseBuffer(t) ==
    /\ Goto(t, "use", "record")
    /\ buffers[slot[t]] > 0
    /\ UNCHANGED <<mask, ids, buffers, i, seen, slot, junk, holder>>

\* It is NULL: allocate and begin one, two steps.
FindNull(t) ==
    /\ Goto(t, "use", "new_buffer")
    /\ buffers[slot[t]] = 0
    /\ UNCHANGED <<mask, ids, buffers, i, seen, slot, junk, holder>>

NewBuffer(t) ==
    /\ Goto(t, "new_buffer", "record")
    /\ buffers' = [buffers EXCEPT ![slot[t]] = @ + 1]
    /\ UNCHANGED <<mask, ids, i, seen, slot, junk, holder>>

\* The barriers and the copy are recorded; the call's locals are gone.
Record(t) ==
    /\ Goto(t, "record", "idle")
    /\ i' = [i EXCEPT ![t] = 0]
    /\ seen' = [seen EXCEPT ![t] = {}]
    /\ UNCHANGED <<mask, ids, buffers, slot, junk, holder>>

-----------------------------------------------------------------------------

Get(t) == LoadMask(t) \/ ScanFound(t) \/ ScanNext(t) \/ ScanMissed(t) \/ Own(t)
Allocate(t) == PickFree(t) \/ PickNone(t) \/ CasTakes(t) \/ CasRetries(t)
Copy(t) == UseBuffer(t) \/ FindNull(t) \/ NewBuffer(t) \/ Record(t)

Next == \E t \in Threads : Get(t) \/ Allocate(t) \/ Copy(t)

\* A thread that is inside a call goes on running; nothing makes it call again.
Fairness ==
    \A t \in Threads : WF_vars((at[t] # "idle") /\ (Get(t) \/ Allocate(t) \/ Copy(t)))

Spec == Init /\ [][Next]_vars /\ Fairness

-----------------------------------------------------------------------------

Recording == {"use", "new_buffer", "record"}

(* Types of the shared fields and of each thread's locals.                 *)
TypeOK ==
    /\ mask \subseteq Slots
    /\ ids \in [Slots -> Threads \cup {NoThread}]
    /\ buffers \in [Slots -> Nat]
    /\ at \in [Threads -> Recording \cup {"idle", "scan", "allocate", "cas", "own", "refused"}]
    /\ i \in [Threads -> 0 .. Count]
    /\ seen \in [Threads -> SUBSET Slots]
    /\ slot \in [Threads -> Slots \cup {-1}]
    /\ junk \in [Slots -> Threads \cup {NoThread}]
    /\ holder \in [Slots -> Threads \cup {NoThread}]

(* Two threads never record into one slot's command buffer at a time,      *)
(* whatever the interleaving of scans, CAS and id writes; the one way to   *)
(* share a slot is that its uninitialized id happened to name one of them. *)
SlotHasOneOwner ==
    \A t, u \in Threads :
        /\ t # u
        /\ at[t] \in Recording /\ at[u] \in Recording
        /\ slot[t] = slot[u]
        => junk[slot[t]] \in {t, u}

(* A thread finds its own slot again: it never takes a second one, unless  *)
(* junk misled it, so that Count threads can always stream.                *)
OneSlotEach ==
    \A s, r \in Slots :
        s # r /\ holder[s] # NoThread /\ holder[s] = holder[r] =>
            \E q \in Slots : junk[q] = holder[s]

(* copy_buffer_to_image's assert that the index is below                   *)
(* STREAMING_THREAD_COUNT fails only for a thread that meets Count other   *)
(* owners.                                                                 *)
RefusedOnlyWhenCrowded ==
    \A t \in Threads : at[t] = "refused" =>
        \/ \A s \in Slots : holder[s] \in Threads \ {t}
        \/ \E s \in Slots : junk[s] = t

(* A slot's command buffer is allocated once: NULL is tested and the       *)
(* buffer allocated in separate steps, which only sharing can interleave.  *)
BufferAllocatedOnce ==
    \A s \in Slots : buffers[s] > 1 => junk[s] \in Threads

(* The CAS loop ends: a call that has begun records its copy or is refused *)
(* although other threads may keep changing the mask.                      *)
CallsEnd ==
    \A t \in Threads : (at[t] # "idle") ~> (at[t] \in {"idle", "refused"})
=============================================================================
