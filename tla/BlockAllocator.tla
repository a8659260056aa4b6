---------------------------- MODULE BlockAllocator --------------------------
(***************************************************************************)
(* The thread-caching allocator of                                         *)
(* src/src/obsolete-private/McRT/PTSMemoryAllocator.cpp, for objects of    *)
(* one bucket.  A thread owns blocks and allocates from them without       *)
(* synchronization.  An object freed by another thread than the owner goes *)
(* on the public list of its block, which the owner repatriates when its   *)
(* private list and the bump pointer have run dry.  When a thread ends,    *)
(* its blocks go to two lock-free stacks that all threads share, one for   *)
(* blocks with live objects and one for empty blocks.                      *)
(*                                                                         *)
(* A step is one access to shared memory with the owner's own work around  *)
(* it.  A push is one step, since a failed compare-and-set changes         *)
(* nothing; a pop is three, since what it read may be stale when it sets.  *)
(* The version that tags the top of a stack is modelled by what it tells:  *)
(* whether the stack was changed since a thread read it.  A thread that     *)
(* comes to read or write a block that is unmapped never goes on: the      *)
(* program has crashed for it (PopNext, Tally).                            *)
(***************************************************************************)
EXTENDS SizeClasses, Sequences, FiniteSetsExt, SequencesExt

CONSTANTS
    Threads,
    Blocks,         \* addresses where a block can be mapped
    Request,        \* bytes of each object
    EmptyLimit,     \* s_BucketBlockManager_QueueEmpty_CountThreshold: 64
    Scanned,        \* full blocks looked at before a new one is taken: 8
    MaxHeld         \* bound: objects the program holds at a time

ASSUME BlockAllocatorAssumption ==
    /\ IsFiniteSet(Threads) /\ IsFiniteSet(Blocks)
    /\ Request \in 1 .. LargestObject
    /\ EmptyLimit \in Nat
    /\ Scanned \in Nat \ {0}
    /\ MaxHeld \in Nat
    /\ "nobody" \notin Threads /\ "no_block" \notin Blocks

Size == ObjectSize(Request)
PerBlock == ObjectsPerBlock(Size)
Slots == 0 .. PerBlock - 1
Objects == Blocks \X Slots
Nobody == "nobody"
NoBlock == "no_block"
Stacks == {"nonempty", "empty"}

VARIABLES
    block,      \* the header of each block, or Unmapped
    top,        \* m_QueueNonEmptyTops of the bucket and m_QueueEmptyTop
    emptyCount, \* m_QueueEmpty_Count
    bucket,     \* blocks of a thread, from m_pPrevious_InBucket to m_pNext
    active,     \* m_BlockActiveVector of each thread
    lastNext,   \* m_BlockLastNextVector of each thread
    held,       \* how many times the program has each object
    pc,         \* where each thread is in the code
    loc         \* its locals

store == <<top, emptyCount>>
lists == <<bucket, active, lastNext>>
vars == <<block, store, lists, held, pc, loc>>

Unmapped == [mapped |-> FALSE]

\* PTS_BucketBlockHeader::Construct.  The ghost "late" is how many threads have
\* still to count an object that they freed into an earlier block at this address.
NewBlock(late) ==
    [mapped |-> TRUE, owner |-> Nobody, thread |-> Nobody, private |-> {}, public |-> {},
     bump |-> PerBlock, allocated |-> 0, number |-> 0, inPrevious |-> FALSE, next |-> NoBlock,
     late |-> late]

NoLocals ==
    [block |-> NoBlock, full |-> NoBlock, stage |-> "walk", taken |-> {}, object |-> 0,
     stack |-> "nonempty", top |-> NoBlock, next |-> NoBlock, fresh |-> FALSE, todo |-> <<>>]

Init ==
    /\ block = [b \in Blocks |-> Unmapped]
    /\ top = [s \in Stacks |-> NoBlock]
    /\ emptyCount = 0
    /\ bucket = [t \in Threads |-> <<>>]
    /\ active = [t \in Threads |-> NoBlock]
    /\ lastNext = [t \in Threads |-> NoBlock]
    /\ held = [x \in Objects |-> 0]
    /\ pc = [t \in Threads |-> "idle"]
    /\ loc = [t \in Threads |-> NoLocals]

\* The objects that the program has and may free.
InUse == {x \in Objects : held[x] > 0}

\* Threads at one of the places, working on block b.
At(places, b) == {t \in Threads : pc[t] \in places /\ loc[t].block = b}

GoTo(t, place) == pc' = [pc EXCEPT ![t] = place]
Back(t) == GoTo(t, "idle") /\ loc' = [loc EXCEPT ![t] = NoLocals]

-----------------------------------------------------------------------------
\* A block

\* The private list is tried first, then the bump pointer.
HasRoom(B) == B.private # {} \/ B.bump < PerBlock
Object(B) == IF B.private # {} THEN Min(B.private) ELSE B.bump
Used(B) ==
    IF B.private # {}
      THEN [B EXCEPT !.private = @ \ {Min(@)}, !.allocated = @ + 1]
      ELSE [B EXCEPT !.bump = @ + 1, !.allocated = @ + 1]

\* _BumpPointerRestore.
RestoreBumpOnly(B) == [B EXCEPT !.bump = 0]
Restore(B) == [B EXCEPT !.bump = 0, !.private = {}]

RestoreIfEmpty(B) == IF B.allocated = 0 THEN Restore(B) ELSE B

\* The objects of the public list become private, and both counts go down.
RepatriatedButFirst(taken) == Cardinality(taken) - 1
Repatriated(taken) == Cardinality(taken)

Repatriate(B, taken) ==
    [B EXCEPT !.private = @ \cup taken,
              !.allocated = @ - Repatriated(taken),
              !.number = @ - Repatriated(taken)]

\* IsReadyInPrevious: empty enough and not full.
IsReadyOrFull(B) == B.allocated - B.number <= PerBlock
IsReady(B) == EmptyEnough(Size, B.allocated - B.number)

-----------------------------------------------------------------------------
\* The blocks of a thread: those before the active one are empty enough, those
\* after it were full.

PosOf(s, b) == CHOOSE i \in 1 .. Len(s) : s[i] = b
PrevOf(s, b) == IF b = NoBlock \/ PosOf(s, b) = 1 THEN NoBlock ELSE s[PosOf(s, b) - 1]
NextOf(s, b) == IF b = NoBlock \/ PosOf(s, b) = Len(s) THEN NoBlock ELSE s[PosOf(s, b) + 1]

\* A thread's lists as one value, so that operations on them compose.
ListsOf(t) == [bucket |-> bucket[t], active |-> active[t], lastNext |-> lastNext[t]]

SetLists(t, L) ==
    /\ bucket' = [bucket EXCEPT ![t] = L.bucket]
    /\ active' = [active EXCEPT ![t] = L.active]
    /\ lastNext' = [lastNext EXCEPT ![t] = L.lastNext]

RemoveFrom(L, b) ==
    LET prev == PrevOf(L.bucket, b)
        next == NextOf(L.bucket, b)
    IN  [bucket |-> RemoveAt(L.bucket, PosOf(L.bucket, b)),
         active |-> IF L.active # b THEN L.active ELSE IF prev # NoBlock THEN prev ELSE next,
         lastNext |-> IF L.lastNext = b THEN next ELSE L.lastNext]

InsertToPrevious(L, b) ==
    IF L.active = NoBlock
      THEN [L EXCEPT !.bucket = <<b>>, !.active = b]
      ELSE [L EXCEPT !.bucket = InsertAt(@, PosOf(@, L.active), b)]

InsertToNext(L, b) ==
    IF L.active = NoBlock
      THEN [L EXCEPT !.bucket = <<b>>, !.active = b]
      ELSE [L EXCEPT !.bucket = InsertAt(@, PosOf(@, L.active) + 1, b)]

-----------------------------------------------------------------------------
\* Alloc

\* Block b, which has become B, gives an object to the program.
Grant(t, b, B) ==
    /\ block' = [block EXCEPT ![b] = Used(B)]
    /\ held' = [held EXCEPT ![<<b, Object(B)>>] = @ + 1]
    /\ Back(t)

\* PTS_BucketBlockHeader::Alloc for a block that has become B: an object now,
\* or a look at the public list.
TryBlock(t, b, B, stage) ==
    IF HasRoom(B) THEN Grant(t, b, B)
    ELSE /\ block' = [block EXCEPT ![b] = B]
         /\ loc' = [loc EXCEPT ![t].block = b, ![t].stage = stage]
         /\ GoTo(t, "swap")
         /\ UNCHANGED held

\* The call begins with the active block.
Alloc(t) ==
    /\ pc[t] = "idle" /\ Cardinality(InUse) < MaxHeld
    /\ LET a == active[t]
       IN  IF a = NoBlock
             THEN GoTo(t, "pop") /\ UNCHANGED <<block, held, loc>>
             ELSE IF HasRoom(block[a]) THEN Grant(t, a, block[a])
             ELSE /\ loc' = [loc EXCEPT ![t].block = a, ![t].full = NextOf(bucket[t], a)]
                  /\ GoTo(t, "swap")
                  /\ UNCHANGED <<block, held>>
    /\ UNCHANGED <<store, lists>>

\* ObjectFreeVector_Public_Repatriate takes the public list away ...
Swap(t, next) ==
    LET b == loc[t].block
    IN  /\ loc' = [loc EXCEPT ![t].taken = block[b].public]
        /\ block' = [block EXCEPT ![b].public = {}]
        /\ GoTo(t, next)
        /\ UNCHANGED <<store, lists, held>>

AllocSwaps(t) == pc[t] = "swap" /\ Swap(t, "count")

\* ... and then counts it.  A block that gives nothing is left for the next.
AllocCounts(t) ==
    LET b == loc[t].block
        B == RestoreIfEmpty(Repatriate(block[b], loc[t].taken))
    IN  /\ pc[t] = "count"
        /\ IF HasRoom(B) THEN Grant(t, b, B)
           ELSE /\ block' = [block EXCEPT ![b] = B]
                /\ GoTo(t, loc[t].stage)
                /\ loc' = [loc EXCEPT ![t].taken = {}]
                /\ UNCHANGED held
        /\ UNCHANGED <<store, lists>>

\* The next block of those that were empty enough becomes the active one.
Walk(t) ==
    LET p == PrevOf(bucket[t], loc[t].block)
    IN  /\ pc[t] = "walk"
        /\ IF p = NoBlock
             THEN GoTo(t, "scan") /\ UNCHANGED <<block, held, loc, active>>
             ELSE active' = [active EXCEPT ![t] = p] /\ TryBlock(t, p, block[p], "walk")
        /\ UNCHANGED <<store, bucket, lastNext>>

ScanStart(t) ==
    IF NextOf(bucket[t], lastNext[t]) # NoBlock THEN NextOf(bucket[t], lastNext[t])
    ELSE loc[t].full

\* The positions of bucket[t] that the scan looks at.
ScanRange(t) ==
    LET s == bucket[t]
        from == PosOf(s, ScanStart(t))
    IN  IF ScanStart(t) = NoBlock THEN {}
        ELSE from .. Min({Len(s), from + Scanned - 1})

ScanHits(t) == {i \in ScanRange(t) : IsReady(block[bucket[t][i]])}

\* A block that was full is empty enough again: it moves before the active one
\* and becomes active.
ScanFinds(t) ==
    /\ pc[t] = "scan" /\ ScanHits(t) # {}
    /\ LET b == bucket[t][Min(ScanHits(t))]
           L == RemoveFrom([ListsOf(t) EXCEPT !.lastNext = b], b)
       IN  /\ SetLists(t, [InsertToPrevious(L, b) EXCEPT !.active = b])
           /\ TryBlock(t, b, [block[b] EXCEPT !.inPrevious = TRUE], "none")
    /\ UNCHANGED store

\* A block that was found gives nothing, which Alloc asserts cannot be (line 900):
\* it returns NULL.
FoundGivesNothing(t) ==
    /\ pc[t] = "none"
    /\ Back(t)
    /\ UNCHANGED <<block, store, lists, held>>

ScanMisses(t) ==
    /\ pc[t] = "scan" /\ ScanHits(t) = {}
    /\ lastNext' = [lastNext EXCEPT ![t] =
          IF Cardinality(ScanRange(t)) < Scanned THEN NoBlock
          ELSE bucket[t][Max(ScanRange(t))]]
    /\ GoTo(t, "pop")
    /\ UNCHANGED <<block, store, bucket, active, held, loc>>

-----------------------------------------------------------------------------
\* The stacks of PTS_BucketBlockManager

\* Whoever has read stack s must see that it changed.
Touch(s, L) == [u \in Threads |-> IF L[u].stack = s THEN [L[u] EXCEPT !.fresh = FALSE] ELSE L[u]]

PopTop(t) ==
    LET s == loc[t].stack
    IN  /\ pc[t] = "pop"
        /\ IF top[s] # NoBlock
             THEN /\ loc' = [loc EXCEPT ![t].top = top[s], ![t].fresh = TRUE]
                  /\ GoTo(t, "pop_next")
             ELSE IF s = "nonempty"
             THEN loc' = [loc EXCEPT ![t].stack = "empty"] /\ GoTo(t, "pop")
             ELSE GoTo(t, "map") /\ UNCHANGED loc
        /\ UNCHANGED <<block, store, lists, held>>

PopNext(t) ==
    /\ pc[t] = "pop_next" /\ block[loc[t].top].mapped
    /\ loc' = [loc EXCEPT ![t].next = block[loc[t].top].next]
    /\ GoTo(t, "pop_cas")
    /\ UNCHANGED <<block, store, lists, held>>

TopIsTheSame(t) == top[loc[t].stack] = loc[t].top
CasPasses(t) == loc[t].fresh

PopCas(t) ==
    LET s == loc[t].stack
    IN  /\ pc[t] = "pop_cas" /\ CasPasses(t)
        /\ top' = [top EXCEPT ![s] = loc[t].next]
        /\ loc' = Touch(s, [loc EXCEPT ![t].block = loc[t].top])
        /\ GoTo(t, IF s = "nonempty" THEN "own" ELSE "uncount")
        /\ UNCHANGED <<block, emptyCount, lists, held>>

PopFails(t) ==
    /\ pc[t] = "pop_cas" /\ ~CasPasses(t)
    /\ GoTo(t, "pop")
    /\ UNCHANGED <<block, store, lists, held, loc>>

\* A block with live objects gets its owner: first the allocator ...
OwnBlock(t) ==
    /\ pc[t] = "own"
    /\ block' = [block EXCEPT ![loc[t].block].owner = t]
    /\ GoTo(t, "own_thread")
    /\ UNCHANGED <<store, lists, held, loc>>

\* ... then the thread id.  If it gives nothing the next one is popped.
OwnThread(t) ==
    LET b == loc[t].block
        ready == IsReady(block[b])
        B == [block[b] EXCEPT !.thread = t, !.inPrevious = ready]
        L == IF ready THEN [InsertToPrevious(ListsOf(t), b) EXCEPT !.active = b]
             ELSE InsertToNext(ListsOf(t), b)
    IN  /\ pc[t] = "own_thread"
        /\ SetLists(t, L)
        /\ TryBlock(t, b, B, "pop")
        /\ UNCHANGED store

Uncount(t) ==
    /\ pc[t] = "uncount"
    /\ emptyCount' = emptyCount - 1
    /\ GoTo(t, "own_empty")
    /\ UNCHANGED <<block, top, lists, held, loc>>

\* PTS_MemoryMap_Alloc and Construct.  The system may map an address again.
MapBlock(t) ==
    /\ pc[t] = "map"
    /\ \E b \in Blocks :
          /\ ~block[b].mapped
          /\ block' = [block EXCEPT ![b] = NewBlock(Cardinality(At({"tally"}, b)))]
          /\ loc' = [loc EXCEPT ![t].block = b]
    /\ GoTo(t, "own_empty")
    /\ UNCHANGED <<store, lists, held>>

\* Out of memory: Alloc returns NULL.
MapFails(t) ==
    /\ pc[t] = "map" /\ \A b \in Blocks : block[b].mapped
    /\ Back(t)
    /\ UNCHANGED <<block, store, lists, held>>

OwnEmpty(t) ==
    LET b == loc[t].block
    IN  /\ pc[t] = "own_empty"
        /\ SetLists(t, [InsertToPrevious(ListsOf(t), b) EXCEPT !.active = b])
        /\ Grant(t, b, Restore([block[b] EXCEPT !.owner = t, !.thread = t, !.inPrevious = TRUE]))
        /\ UNCHANGED store

-----------------------------------------------------------------------------
\* Free.  Any thread may free any object.

Owns(t, b) == block[b].owner # Nobody /\ block[b].thread = t

\* The owner puts the object back, and the block before the active one if it
\* was full and is now empty, or empty enough.
FreeOwn(t) ==
    /\ pc[t] = "idle"
    /\ \E x \in InUse :
          LET b == x[1]
              B == RestoreIfEmpty([block[b] EXCEPT !.allocated = @ - 1, !.private = @ \cup {x[2]}])
              u == B.owner
          IN  /\ Owns(t, b)
              /\ held' = [held EXCEPT ![x] = @ - 1]
              /\ IF ~B.inPrevious /\ (B.allocated = 0 \/ IsReady(B))
                   THEN /\ block' = [block EXCEPT ![b] = [B EXCEPT !.inPrevious = TRUE]]
                        /\ SetLists(u, InsertToPrevious(RemoveFrom(ListsOf(u), b), b))
                   ELSE block' = [block EXCEPT ![b] = B] /\ UNCHANGED lists
    /\ UNCHANGED <<store, pc, loc>>

FreeForeign(t) ==
    /\ pc[t] = "idle"
    /\ \E x \in InUse :
          /\ ~Owns(t, x[1])
          /\ held' = [held EXCEPT ![x] = @ - 1]
          /\ loc' = [loc EXCEPT ![t].block = x[1], ![t].object = x[2]]
    /\ GoTo(t, "publish")
    /\ UNCHANGED <<block, store, lists>>

\* The object is pushed on the public list before it is counted.
Publish(t) ==
    /\ pc[t] = "publish"
    /\ block' = [block EXCEPT ![loc[t].block].public = @ \cup {loc[t].object}]
    /\ GoTo(t, "tally")
    /\ UNCHANGED <<store, lists, held, loc>>

Tally(t) ==
    LET b == loc[t].block
    IN  /\ pc[t] = "tally" /\ block[b].mapped
        /\ block' = [block EXCEPT ![b].number = @ + 1]
        /\ Back(t)
        /\ UNCHANGED <<store, lists, held>>

-----------------------------------------------------------------------------
\* Destruct: the thread ends.

\* The active block first, the ones before it, then the ones after it.
DestructOrder(t) ==
    LET s == bucket[t]
        i == PosOf(s, active[t])
    IN  Reverse(SubSeq(s, 1, i)) \o SubSeq(s, i + 1, Len(s))

PlaceFor(todo) == IF todo = <<>> THEN "gone" ELSE "destruct"
LocalsFor(todo) ==
    IF todo = <<>> THEN NoLocals ELSE [NoLocals EXCEPT !.block = Head(todo), !.todo = Tail(todo)]

Exit(t) ==
    LET todo == IF bucket[t] = <<>> THEN <<>> ELSE DestructOrder(t)
    IN  /\ pc[t] = "idle"
        /\ GoTo(t, PlaceFor(todo))
        /\ loc' = [loc EXCEPT ![t] = LocalsFor(todo)]
        /\ UNCHANGED <<block, store, lists, held>>

DestructSwaps(t) == pc[t] = "destruct" /\ Swap(t, "lose")

\* A lost block keeps the id of its last owner, unless the build has asserts.
Lose(t) ==
    LET b == loc[t].block
        B == Repatriate(block[b], loc[t].taken)
    IN  /\ pc[t] = "lose"
        /\ block' = [block EXCEPT ![b] = [B EXCEPT !.owner = Nobody, !.inPrevious = FALSE]]
        /\ bucket' = [bucket EXCEPT ![t] = RemoveAt(@, PosOf(@, b))]
        /\ active' = [active EXCEPT ![t] = NoBlock]
        /\ lastNext' = [lastNext EXCEPT ![t] = NoBlock]
        /\ loc' = [loc EXCEPT ![t].taken = {}]
        /\ GoTo(t, IF B.allocated = 0 THEN "keep" ELSE "push")
        /\ UNCHANGED <<store, held>>

PushOn(s, t) ==
    LET b == loc[t].block
    IN  /\ block' = [block EXCEPT ![b].next = top[s]]
        /\ top' = [top EXCEPT ![s] = b]
        /\ loc' = Touch(s, [loc EXCEPT ![t] = LocalsFor(loc[t].todo)])
        /\ GoTo(t, PlaceFor(loc[t].todo))

PushNonEmpty(t) == pc[t] = "push" /\ PushOn("nonempty", t) /\ UNCHANGED <<emptyCount, lists, held>>

\* PushEmpty reads the count, adds to it and pushes; too many are unmapped.
Keep(t) ==
    /\ pc[t] = "keep" /\ emptyCount <= EmptyLimit
    /\ GoTo(t, "count_empty")
    /\ UNCHANGED <<block, store, lists, held, loc>>

CountEmpty(t) ==
    /\ pc[t] = "count_empty"
    /\ emptyCount' = emptyCount + 1
    /\ GoTo(t, "push_empty")
    /\ UNCHANGED <<block, top, lists, held, loc>>

PushEmpty(t) == pc[t] = "push_empty" /\ PushOn("empty", t) /\ UNCHANGED <<emptyCount, lists, held>>

Unmap(t) ==
    /\ pc[t] = "keep" /\ emptyCount > EmptyLimit
    /\ block' = [block EXCEPT ![loc[t].block] = Unmapped]
    /\ GoTo(t, PlaceFor(loc[t].todo))
    /\ loc' = [loc EXCEPT ![t] = LocalsFor(loc[t].todo)]
    /\ UNCHANGED <<store, lists, held>>

-----------------------------------------------------------------------------
\* Steps a thread takes once it is inside a call or ending.
Continue(t) ==
    \/ AllocSwaps(t) \/ AllocCounts(t) \/ Walk(t) \/ ScanFinds(t) \/ FoundGivesNothing(t) \/ ScanMisses(t)
    \/ PopTop(t) \/ PopNext(t) \/ PopCas(t) \/ PopFails(t)
    \/ OwnBlock(t) \/ OwnThread(t) \/ Uncount(t) \/ MapBlock(t) \/ MapFails(t) \/ OwnEmpty(t)
    \/ Publish(t) \/ Tally(t)
    \/ DestructSwaps(t) \/ Lose(t) \/ PushNonEmpty(t)
    \/ Keep(t) \/ CountEmpty(t) \/ PushEmpty(t) \/ Unmap(t)

Step(t) == Alloc(t) \/ FreeOwn(t) \/ FreeForeign(t) \/ Exit(t) \/ Continue(t)

Next == \E t \in Threads : Step(t)

Spec == Init /\ [][Next]_vars

-----------------------------------------------------------------------------
\* Properties

Mapped == {b \in Blocks : block[b].mapped}

\* The objects of block b that the program has, and those that a thread is about
\* to put on the public list or has taken from it and not yet counted.
Program(b) == {i \in Slots : <<b, i>> \in InUse}
Carried(t, b) ==
    IF loc[t].block # b THEN {}
    ELSE IF pc[t] = "publish" THEN {loc[t].object}
    ELSE IF pc[t] \in {"count", "lose"} THEN loc[t].taken
    ELSE {}

\* Every object of a block is in one place only: with the program, carried by a
\* thread, on the public list, on the private list or above the bump pointer.
\* m_ObjectAllocated_Number counts those of the first three places, and
\* m_ObjectFreeVector_Public_Number those of the public list, those taken from it
\* included, whose thread has come to count them (Free, Repatriate,
\* _BumpPointerRestore).
ObjectsAccounted ==
    \A b \in Mapped : At({"own_empty"}, b) = {} =>
        LET B == block[b]
            published == B.public \cup UNION {Carried(t, b) : t \in At({"count", "lose"}, b)}
            away == Program(b) \cup B.public \cup UNION {Carried(t, b) : t \in Threads}
            untouched == B.bump .. PerBlock - 1
        IN  /\ Slots = away \cup B.private \cup untouched
            /\ away \cap B.private = {} /\ away \cap untouched = {}
            /\ B.private \cap untouched = {} /\ B.public \cap Program(b) = {}
            /\ \A t \in Threads :
                  /\ Carried(t, b) \cap (Program(b) \cup B.public) = {}
                  /\ \A u \in Threads \ {t} : Carried(t, b) \cap Carried(u, b) = {}
            /\ B.allocated = Cardinality(away)
            /\ B.number = Cardinality(published) - Cardinality(At({"tally"}, b)) + B.late

\* Stack s is the chain q of blocks, from the top along m_pNext.
IsStack(s, q) ==
    /\ top[s] = IF q = <<>> THEN NoBlock ELSE q[1]
    /\ IsInjective(q)
    /\ \A i \in 1 .. Len(q) :
          /\ block[q[i]].mapped
          /\ block[q[i]].next = IF i = Len(q) THEN NoBlock ELSE q[i + 1]

InHands == {"own", "own_thread", "uncount", "own_empty", "keep", "push", "count_empty", "push_empty"}

\* A block is with one keeper: in the list of the thread that owns it, on one of
\* the two stacks, or with one thread that moves it between them; an unmapped one
\* is with none.  The count of empty blocks is behind none of its changes
\* (PTS_AtomicQueue_Push and _Pop, OwnNonEmpty, Destruct, PushEmpty).
BlocksAccounted ==
    /\ \A t \in Threads :
          /\ IsInjective(bucket[t])
          /\ \A b \in ToSet(bucket[t]) : block[b].mapped /\ Owns(t, b) /\ block[b].owner = t
    /\ \E chain \in [Stacks -> SeqOf(Blocks, Cardinality(Blocks))] :
          /\ \A s \in Stacks : IsStack(s, chain[s])
          /\ \A b \in Blocks :
                Cardinality({t \in Threads : b \in ToSet(bucket[t])})
                  + Cardinality({s \in Stacks : b \in ToSet(chain[s])})
                  + Cardinality(At(InHands, b)) = IF block[b].mapped THEN 1 ELSE 0
          /\ emptyCount = Len(chain["empty"])
                            + Cardinality({t \in Threads : pc[t] \in {"uncount", "push_empty"}})

\* A full block that the scan judges empty enough has an object to give, unless
\* foreign frees into an earlier block at its address are in its count: the two
\* counts may be behind the lists, yet never so that a full block seems to have
\* room (the scan of Alloc, IsReadyInPrevious, ObjectFreeVector_Public_Repatriate).
FoundBlockHasRoom ==
    \A t \in Threads : pc[t] = "none" => block[loc[t].block].late > 0

\* assert(pObjectToAlloc != NULL) of Alloc (line 900): a full block that the scan
\* judges empty enough always has an object to give.
FoundBlockGives == \A t \in Threads : pc[t] # "none"

\* Every request for which the buckets have a size gets an object that holds it,
\* aligned as asked, and all requests but the large ones with the two largest
\* alignments are such (EveryRequestFits, PTS_Size_ResolveRequestSize); Free finds
\* the block of every object in use (PTS_Internal_Free), blocks being at
\* multiples of BlockSize.
ObjectsFit ==
    /\ EveryRequestFits
    /\ \A x \in InUse :
          LET address == BlockSize + ObjectAt(Size, x[2])
          IN  IsObject(address) /\ AlignDown(address, BlockSize) = BlockSize

Pool == INSTANCE ObjectPool WITH held <- held, Objects <- Objects

\* The allocator hands out objects that nobody holds, and takes them back.
ImplementsObjectPool == Pool!Spec
=============================================================================
