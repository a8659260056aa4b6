# PatriotEngine in TLA+

This directory holds TLA+ models of the parts of PatriotEngine that carry state
between calls or between threads, the TLC configurations that check them and the
TLAPS proofs about them. Paths below are relative to the root of the repository,
which `PROJECT.json` calls `src/`: `src/pt_gfx_malloc.cpp` here is
`src/src/pt_gfx_malloc.cpp` there.

## 1. Inventory of the system

PatriotEngine is a rendering engine at an early stage. What exists is a runtime
layer (`mcrt`: threads, events, atomics, TBB tasks, allocation), a Vulkan back end
that can create a device, manage memory and upload textures, and a launcher that
starts an application against it. Nothing draws yet. Beside it lies the first runtime
layer (`src/obsolete-private/McRT`), superseded by TBB but complete: a work-stealing task
scheduler and a thread-caching allocator, the two most concurrent parts of the repository.

| component | state | operations | talks to |
|---|---|---|---|
| **slob page** `gfx_malloc::slob_page` (`src/pt_gfx_malloc.cpp`) | `m_free_block_list` (a `std::set` by offset), `m_sum_free_size` | `alloc`, `free`, `destroy_on_free_page_list` | called by slob with its lock held |
| **slob** `gfx_malloc::slob` | three page lists by size class, the full list, each page's `m_page_list` and flag | `alloc`, `free` | callbacks into the device for whole pages, *outside* the lock |
| **ring buffer** `gfx_malloc::ring_buffer` | size, begin, end, remainder | `offset`, `validate_offset`, `alloc`, `free` between `lock` and `unlock` | the texture upload (staging memory) |
| **streaming slots** (`src/pt_gfx_connection_vk.cpp`) | `m_streaming_affinity_mask` (atomic), thread ids and command buffers (plain) | `streaming_thread_index_get`, `..._allocate`, `copy_buffer_to_image` | threads that load textures, with no lock |
| **mcrt events** (`include/pt_mcrt_thread.inl`) | the signalled flag of each event; a mutex and a condition shared by several | `set`, `reset`, `wait_one`, `wait_multiple`, timed or not | any threads |
| **task graph** (`examples/mcrt/general_acyclic_graphs_of_tasks`) | reference counts and two values per task | `execute`, `tally_completion_of_predecessor` | the TBB scheduler through `mcrt_task_*` |
| **launcher and app** (`examples/launcher/pt_wsi_window_x11.cpp`, `pt_wsi_window_app.cpp`) | `m_loop`, two running flags, the gfx connection, the app object, the window | `init`, `run`, `destroy`; `draw_request_main`, `app_main` | X server; three threads that share the flags |
| **texture upload** (`src/pt_gfx_texture_vk.cpp`) | the call's footprints, its range of the ring; image and memory | `read_input_stream`, `get_copyable_footprints` | ring, slob, streaming slot, file loaders |
| **task scheduler** (`src/obsolete-private/McRT/PTSTaskSchedulerImpl.cpp`, `PT_McRT_Parallel_Map.h`) | the market's semaphore; per arena an affinity mask and slots; per slot `m_HasBeenAcquired` and a deque with two indices in one word; the tasks | masters allocate and release slot 0, wake workers and put them to sleep; spawn, pop, steal, execute, free | any master threads; the functions that are mapped |
| **thread-caching allocator** (`src/obsolete-private/McRT/PTSMemoryAllocator.cpp`) | per block a private and a public list, a bump pointer and counts; per thread the lists of a bucket; two stacks of blocks all threads share | `Alloc`, `Free` (by owner or by another thread), `Destruct` when a thread ends | the system's memory map; the scheduler's tasks |
| file loaders (DDS, PVR) | none between calls | header, data | texture upload |
| Vulkan device, memory types, wrappers, other back ends and launchers, build | | | |

What is hard in it, and what makes each part correct:

* **slob**: alignment gaps, coalescing after long sequences, pages that move between
  lists while iterators name them, callbacks outside the lock. Correct means:
  allocations are disjoint, aligned and inside memory the device still gives; no
  byte is lost; a page is on one list; pages return to the device, exactly when empty.
* **ring**: two kinds of wrap and the bytes a wrap skips. Correct means: ranges in
  flight are disjoint, frees in order are recognized, skipped bytes come back.
* **streaming slots**: lock-free ownership of command buffers, thread ids that are
  written late and never initialized. Correct means: one owner, one slot per owner.
* **events**: broadcast after unlock, one condition for many events, multi-event
  waits, timeouts. Correct means: no lost wakeup, each wait takes what it returns
  for at one instant.
* **task graph**: a plain read of a count mixed with atomic decrements. Correct
  means: each task runs once, after its predecessors, and the wait ends with all done.
* **launcher**: three threads tied by flags, spins and joins. Correct means: nothing
  is used before it exists or after it is gone, and closing the window ends all.
* **texture upload**: the footprints are computed before the range is allocated, by bytes
  for the host and by texels for the device; several early returns. Correct means: a
  load writes in its own range, and the device reads what was written.
* **task scheduler**: thieves and an owner on two indices without a lock, a deque that is
  reset and grows under its thieves, slots that change hands, a semaphore whose tokens
  go round. Correct means: each task runs once, when its predecessors are done, none is
  left in a slot that nobody owns, and each map and each wait for the workers ends.
* **allocator**: objects freed by strangers at any moment of the life of a block, counts that
  run behind the lists they count, stacks popped while others pop and push the same block.
  Correct means: an object is handed out to one holder, a block is in one place, and
  judgements made from the counts hold when they are acted on.

`PROJECT.json` lists the hazards line by line, with the properties that cover them.

## 2. Modules and how they correspond to the code

```
SlobBlocks ── SlobPage ── (implements) PageMemory         Slob_proofs
     └─────── Slob ────── (implements) DeviceHeap         Slob_proofs
Ring ──────── RingBuffer ─(implements) RangeFifo          RingBuffer_proofs
  └────────── TextureUpload ── TextureFootprints          TextureUpload_proofs
              StreamingThread                             StreamingThread_proofs
              McrtEvent ── (implements) EventObjects      McrtEvent_proofs
              DagTasks                                    DagTasks_proofs
              Launcher
TaskDeque ─── TaskScheduler (implements) ParallelMap      TaskScheduler_proofs
SizeClasses ─ BlockAllocator (implements) ObjectPool      BlockAllocator_proofs
```

* `SlobBlocks` holds the value-level part of `internal_alloc` and `internal_free`
  (`Fits`, `FirstFit`, `Carve`, `Release`) and the debug validators (`Coalesced`,
  `IsLastFree`). The ordered `std::set` is a set of `[offset, size]` records.
* `SlobPage` is one page with the clients that hold its blocks. `Alloc`, `AllocFails`,
  `FreeBlock` and `DestroyPage` are `slob_page::alloc` (two outcomes), `free` and
  `destroy_on_free_page_list`. The ghost `pageLive` is what clients hold. What `Slob` has too has
  names with `page` here, so that the proofs about the heap can build on those about a page.
* `PageMemory` has only `live`: an allocation gets the lowest aligned hole.
* `Slob` has one action per locked section of `slob::alloc` and `slob::free` and one
  per callback: `Serve` or `Miss`, `NewPages`, `LinkPage`; `Free` or `Destroy`,
  `FreePages`. `ListsAfterServe` is the pair of moves the code makes after serving a
  request, including the one it should not make (see the findings). The model is of
  the release build: asserts are invariants.
* `DeviceHeap` is what a user of the heap sees: pages come and go, allocations are
  aligned and disjoint, and a page goes only when nothing lives in it.
* `Ring` holds the ring's operations on a record; `RingBuffer` drives them with a client
  that asks for any of some sizes and frees in allocation order. `alloc` grants some wraps that it
  should refuse (the second finding): the ghost `overtaken` remembers the first of them (`Overtakes`).
  `RangeFifo` is a queue of ranges of any sizes that promises nothing after such a request.
* `TextureFootprints` is `get_copyable_footprints` as operators on a subresource's number,
  and the rows the DDS loader writes. `TextureUpload` is `read_input_stream` over `Ring`: `Announce`
  (lock, offset, footprints, `validate_offset`), `Allocate` or `AllocateFails`, `LoadData` or
  `LoadDataFails`, `CopyBufferToImage`. `staged` holds the rows written, `copies` the recorded
  regions; the property compares them by the addressing rule of Vulkan that the code quotes
  (`src/pt_gfx_texture_vk.cpp:487-502`). The build is the one with asserts: a thread that finds the
  ring locked stops the program, so locked sections do not overlap.
* `StreamingThread` has a step per access to shared memory: loading the mask, reading
  one id, the compare-and-swap, writing the id, testing and filling the command buffer.
  `Init` gives the ids any content, because nothing initializes them.
* `McrtEvent` makes what runs under the mutex one step, and the broadcast after the
  unlock another. `EventObjects` has neither mutex nor condition.
* `DagTasks` splits `tally_completion_of_predecessor` at its plain read. The pool and the
  return of a task to the scheduler are external, as TBB behaves under the wrappers.
* `TaskDeque` has the operators of a slot's deque, `Grow` with the direction in which the code
  copies. `TaskScheduler` splits what threads share: a theft is `Look` (both indices), `Steal`
  (the compare-and-set) and `Take` (the read of the entry, which the code does last); a spawn
  is `Divide` and `Push`; a slot is `acquired` and its bit in `mask`, changed one after the
  other (`Attach`, `Mark`, `Unmark`, `Unslot`). `Free` is `FreeAndTestSuccessor` with the run of
  the successor it returns. `GiveUp` stands for the 1500 failures after which a worker leaves.
  One simplification: `FindNoSlot` is one step, where the code tries one slot after the other. That
  is the same with the one worker's slot of `scheduler`; with more slots the code may also miss one
  that is released behind the scan, and then waits for the semaphore as if all had been taken.
* `ParallelMap` is what the caller sees: each element once, between call and return.
* `SizeClasses` is `PTS_Size_ResolveRequestSize`, the layout of a block and `IsReadyInPrevious`
  with the code's numbers; `EveryRequestFits` says which requests are served at all and compares
  those with the table in the code's comment, for every size and alignment. A realloc is an
  `Alloc` and a `Free` and has no action.
* `BlockAllocator` has one action per access to shared memory. `FreeForeign`, `Publish` and
  `Tally` are a free by a stranger; `AllocSwaps` and `AllocCounts` its repatriation; `PopTop`,
  `PopNext` and `PopCas` or `PopFails` a pop, where `fresh` says whether the version that
  tags the top is still the one read; `Exit` to `Unmap` are `Destruct`, block by block.
  `Walk`, `ScanFinds` and `ScanMisses` are the search for a block with room. The system may map an
  address again after `Unmap`; the ghost `late` of a block counts the threads that were then still to
  add to the count of an earlier block there. Two simplifications: a scan reads the counts of its
  (at most `Scanned`) blocks in one step, where the code reads one atomic count after the other, and
  `FoundGivesNothing` is the build without asserts.
* `ObjectPool` hands out objects that nobody holds.
* `Launcher` gives each thread its place in the code. The X server is external.

The `MC*` modules give constants their values. Operators beside a mapped one, with a
comment that says what they get wrong (`FitsIgnoringAlign`, `SignalOne`, ...), are
plausible bugs: put in place of the mapped operator, each makes the property named in
`PROJECT.json` fail, which shows that the property looks at that code.

## 3. The runs

| run | bounds | shows |
|---|---|---|
| `slob_page` | 8 bytes, sizes 1-3, alignments 1, 2, 4 | blocks disjoint, no leak, coalesced, destroyed with the last block, refines `PageMemory` |
| `slob` | 32-byte pages, sizes 1, 4, 12, 16, alignments 1, 8, two callers, two pages, three live allocations | one list per page, bytes partitioned, device memory accounted for, refines `DeviceHeap` |
| `ring` | every buffer of 4-10 units, every one or two sizes of 1-5, none or one range kept | disjoint ranges, frees recognized and refines `RangeFifo` up to the first request granted wrongly; that one does harm |
| `streaming` | three threads, two slots, all initial ids | one owner, one slot each, calls end |
| `event` | three threads, an auto-reset and a manual-reset event, five kinds of wait | no lost wakeup, refines `EventObjects`, satisfied waits end |
| `dag` | the program's 4 by 5 grid, three workers | tasks run once and in order, result complete, the wait ends |
| `launcher` | none: the whole state space | order of start and teardown, closing ends |
| `upload` | two threads, three loads, five textures, six pairs of alignments, a ring of 256 bytes | rows in the announced range; the device reads what was written |
| `scheduler` | two workers, two slots, maps of five elements, two masters in turn, a deque that begins with 2 entries | no task lost or run twice, counts of predecessors, one owner per slot, all rounds end, refines `ParallelMap` |
| `scheduler_theft` | three slots, ten elements, one master | **violated**: a stolen entry is read after the owner has overwritten it |
| `malloc` | three threads, two blocks of two objects, at most four objects held | objects and blocks are in one place, counts agree, full blocks judged ready have room unless a late addition is in their count, which sizes and alignments fit, refines `ObjectPool` |
| `malloc_late` | the same | **violated**: a late addition goes to another block at the same address, and the assert of line 900 fails |

Why these bounds are enough:

* `slob_page`: 8 bytes hold blocks with a gap before and a rest after an aligned
  allocation, a free between two free blocks, and every shape of a last block. Beyond
  them the proofs hold for every size.
* `slob`: the sizes span all classes (the breaks of a 32-byte page are 2 and 8). Two
  pages are needed for the splice of a page that is not first, and two callers for a
  section between another's callback. A page can be filled by two allocations of 16 or
  by 16, 12 and 4, so three live allocations reach a full page beside another one.
  Callers and pages are symmetric.
* `ring`: sizes that do and do not fill the buffer, alone and mixed, so wraps that skip bytes and
  wraps that do not, several laps, and both ways in which a request overtakes: over the oldest
  range, and with nothing in flight after a skip. `keep` is the number of ranges the client always
  keeps: with none in flight even requests of one size lose track when the buffer is no
  multiple of it (`OneSize`).
* `streaming`: one more thread than slots, so one can be refused; with two slots a
  thread can meet a foreign one. The code's `STREAMING_THREAD_COUNT` is 1; the model
  takes it as a constant because the code is written for more.
* `event`: two waiters and one setter, or two setters.
* `dag`: the grid of the program; at most four tasks of it are ready at a time.
* `upload`: an array, a volume, compressed blocks of sizes no multiple of 4, a texel that
  makes later loads begin at odd offsets, and a format that the loader refuses; three mip
  levels reach the dimension that stays 1. Three loads can fill the 256 bytes, so that the
  next fails. Alignments and block sizes are powers of two, where the division in
  `bufferRowLength` is exact.
* `scheduler`: five elements make a tree of three levels whose halves differ, and more tasks
  than the first 2 entries of the deque, so that it grows. Two masters let slot 0 and the
  worker slot change hands while workers still leave. Two workers compete for the one slot
  beside the master's, so a slot's two facts are raced for. In this instance the
  late read of a stolen entry finds what was stolen: the overwrite needs a second thief
  and a longer map, which is the instance of `scheduler_theft` (that two slots never show it,
  however long the map, is proved, section 4). So the properties of
  `scheduler` are about everything else; in the larger instance those about tasks fail too.
* `malloc`: a stack's ABA needs a reader and two threads that pop and push meanwhile. Objects
  of 7168 bytes, the largest bucket, come two to a block, so every block is full, empty
  enough and empty in turn. `EmptyLimit` 0 in place of 64 makes the second empty block go
  back to the system, whose address is then mapped again; `Scanned` 2 in place of 8 stops a scan
  within a list of two. With three threads at most one addition to a count is late when the owner
  looks. Threads and blocks are symmetric.

Deadlock is not checked in `dag`, `launcher` and `scheduler`, which end (their liveness
properties say where), in `upload`, where `MaxLoads` bounds the loads and a failed `assert`
stops the program, and in `malloc` and `malloc_late`, where threads end and one that touches an unmapped
block stops the program.

### Fairness

* `StreamingThread`: a thread inside a call keeps running (an operating-system thread);
  nothing makes it call again. `CallsEnd` needs no fairness of the compare-and-swap: one
  fails only because another succeeded, and only `Count` can.
* `McrtEvent`: each thread's step, the mutex included, is weakly fair. `Wake` (spurious)
  and `Expire` have none, so no property rests on luck.
* `DagTasks`: TBB runs its workers while there are tasks, and main's wait notices the count.
* `Launcher`: the three threads are scheduled. `Event` has no fairness: the X server may
  send nothing. So nothing is claimed of the main thread after
  the app's return: it may wait for an event for ever, with the rendering ended.
* `TaskScheduler`: each worker and the master take a step when they can; `Sleep` (the master's
  `Passern`) is strongly fair, as a semaphore that does not pass over a thread for ever:
  workers take and return the tokens it waits for. `GiveUp` is one of a worker's steps and is
  not fair by itself: a worker may steal as long as there is something to steal.
* `BlockAllocator` states no fairness; nothing in it waits for another thread.

## 4. What is proved

The proofs hold for every value of the constants, under the `ASSUME`s of the modules; the
three about the tasks of `TaskScheduler` have a hypothesis of their own, `TwoSlots`, given below.

* **`Slob_proofs`, one page**. The inductive invariant joins the types, disjoint live blocks, the
  partition of the page, strict coalescing and the sum. Partition alone is not inductive:
  `Carve` is right only when the list has no overlapping blocks, and `Release` only when
  the free block it meets is unique, which strict coalescing gives. Its lemmas about
  `SlobBlocks` say what `Delta`, `FirstFit`, `Carve` and `Release` do to the bytes, and
  that both keep a page good (`GoodPage`: all of the above for one page);
  `HoleFits` (an aligned hole lies in one free block, and that block fits) carries the
  refinement of `PageMemory`. The destruction of the last block uses that the free
  bytes and the live blocks count up to the page.
* **`Slob_proofs`, the heap**. All four invariants of the heap and its refinement of `DeviceHeap`, for every
  number of callers and pages. The inductive invariant has three parts beside `TypeOK`. The lists
  are tidy (`ListsGood`: they name the linked pages, each of them once on all lists together), which
  splices and unlinkings keep. Every linked page is a `GoodPage` with something live in it, whose
  flag says whether it has free blocks (`PagesGood`); this is where the lemmas about one page are used again.
  And memory that callers hold between two locked sections is counted (`DeviceMemoryAccounted`).
  Each is needed for the others: that a page unlinked by `Destroy` is on one list only needs the
  lists, that it may go needs the page.
* **`RingBuffer_proofs`**, for buffers and requests of any sizes, without a hypothesis on the
  client. Up to the first request that overtakes (`~overtaken`), the inductive invariant says that
  the ranges in flight follow one another, cut into at most two runs by a wrap; that the second run
  begins at 0 and `m_buffer_begin` is after the newest; that `m_buffer_end` is before the oldest,
  a lap further when nothing has wrapped; and that `m_buffer_remainder` is what lies between the end of
  the first run and that of the buffer. The refinement of `RangeFifo` follows: `alloc` takes the place
  after the newest, or 0, and refuses only when that is not free. Of the step that ends the promise,
  `NothingElseEndsThePromise` proves that it does harm at once, so `Overtakes` is exact: a code
  that refused these requests and no others would keep the promise for ever. `OneSizeKeepsThePromise`
  adds to the invariant that ranges of one size lie at its multiples.
* **`StreamingThread_proofs`**. The inductive invariant relates the mask, the ghost
  `holder` and the place of each thread: a slot in the mask has one holder, which is
  before its id write or has written it. The junk ids appear in every conclusion,
  because they appear in the code.
* **`TaskScheduler_proofs`**. `SlotHasOneOwner` needs to know where each thread is: a worker has a
  slot exactly between its compare-and-set and its release, the slot is acquired all that time, and
  at `unslot` its bit is gone from the mask. The tasks play no part, so neither do the findings.
  `OnlyReadyTasksRun`, `NoTaskLost` and `PredecessorsCounted` are proved of every execution of an
  arena of two slots whose deques never double (`TwoSlots`), for any number of workers and masters.
  Both conditions are needed. With three slots `OnlyReadyTasksRun` is false: the run
  `scheduler_theft` is the fifth finding. A deque that doubles may lose tasks, the ninth finding;
  `TwoSlots` asks that a map have no more than 2^(FirstCapacity - 3) elements, which with the
  64 entries of the code is 2^61, which no map comes near. The run
  `scheduler` begins with 2 entries, to reach the doubling, and is not an instance of the theorems: what it
  says of small deques that double is only model-checked. Arenas of three slots and more have the
  theorem about slots and the finding. The argument has two layers.

  *A step that keeps the entries keeps the tasks.* `EntriesKept` says of a step that no deque that has
  an array doubles and that no entry of a task is written between its theft and the read of it.
  `WorkInvInductive` shows that such a step, in an arena of any size, keeps `WorkInv`. That invariant
  says of every ready task that it is in one entry of one deque, in a
  thread's hands or in the entry a thief is about to read (`Placed`); of every thread what it may
  hold at each place (`HandsGood`); of every task with successors that the successor waits, is in
  nobody's hands and counts it (`SuccessorsWait`, `PredecessorsCounted`). The parts need each
  other: that the task a thief gets is ready when it runs it needs that the owner did not pop
  the same index, which the compare-and-set of both indices gives (`StealKeeps`), and that a
  successor turns ready once needs exact counts (`FreeKeeps`). `OwnersBusy` makes a release safe:
  only a thread at `pop` that found its deque empty comes to release its slot.

  *In two slots every step keeps the entries* (`EntriesStay`). This needs three more invariants.
  `DepthInv` bounds a deque: whatever lies in it has at least twice as much to give away as the
  entry after it (`Halving`) and as what its owner is dividing (`BehindAt`), because `middle` makes
  the right half no smaller than the left; so there is always room for one entry more than the code
  asks for (`NeverCrowded`). `TheftInv` says what stands between a thief and the owner's next push:
  either the thief's compare-and-set was the last change of the head, and then the entry is the one
  before the head, which a push reaches only in a full deque; or the owner has reset its deque and
  has no work. It could get work only by stealing from the thief, who is the only other thread
  with a slot and whose own deque is empty (`TheftLook`, `OneThief`: with a third slot there is
  somebody else to steal from, and this is where the proof and the code fail); or by
  beginning another map. `TreeInv` excludes that: successors never form a cycle (`Ranked`), so when the task that
  waits is ready nothing else of the map is left (`ReadyWaitIsLast`), no stolen task either.
* **`DagTasks_proofs`**. `HandedOnce` and `InputsReady`, for a grid of any size and any number of
  workers. The inductive invariant says where each task is (`Located`: in the pool, in a bypass
  slot, with a worker, done or nowhere), and that its count is the number of its predecessors that
  have still to tally (`Counted`). That makes the plain read safe: a worker that read 1
  is the only one that has still to tally for that task, and stays it (`ReadsHold`). The values
  follow the counts (`ValuesGood`). Two arguments go by the least element of a set of naturals
  (`LeastNatural`), since induction proper is out of the provers' reach: the recursive function
  `Paths` has a solution, diagonal after diagonal (`PathsOf`), and when the end point has executed
  so has every task, followed back from it by distance (`AllExecuted`).
* **`BlockAllocator_proofs`**. `BlocksAccounted` and the refinement of `ObjectPool`, for any threads,
  blocks and size of object, and whether or not the system maps an address again. The invariant
  (`KeepInv`) has five parts beside the types. `BlocksKept` names the chains of the two stacks and
  says that every mapped block has one keeper; `ReadsFresh` is what a pop may trust: while the version
  it read is the current one, so are the top and the `next` it read, which makes the compare-and-set
  take the block and leave the rest of the chain (without the version it may not: the ABA that the
  mutant of `BlocksAccounted` shows). `ListsGood` and `OwnersGood` say that the lists of a thread
  hold its own blocks and that, as long as it has not begun to end, a block with its id is in them;
  so the owner's unsynchronized `FreeOwn` works on a block that nobody else moves. `ObjectsPlaced`
  partitions the slots of each block between the program, the threads that carry objects, the
  public list, the private list and the bump pointer, and says that `m_ObjectAllocated_Number` counts
  the first three, in every block but one that is about to be reset. The parts need each other: an
  empty block may be reset (`Restore`) or unmapped only because nothing of it is with the program,
  which is its count of objects; and that its count is 0 on the empty stack is `BlocksKept`.
  There is one lemma per action (`...Keeps`), and one for each operation on the lists and headers.

  `ObjectsAccounted` and `FoundBlockHasRoom` rest on a second invariant (`CountInv`):
  `m_ObjectFreeVector_Public_Number` is the number of objects that are published or taken and not yet
  counted, less the threads that have still to add, plus `late`, the threads that had still to add for
  an earlier block at the address when this one was mapped (`NumberRight`). So it may be too low, even
  negative, and is too high only by late additions. A full block whose two counts differ by less than all
  its objects has therefore something on its public list, or late additions in its count
  (`FullButReady`), and nobody but its owner, who has just found it, takes the former away (`FoundFor`).
  So line 900's assert fails only as the sixth finding says.

  `ObjectsFit`, and in it `EveryRequestFits`, needs no invariant: `Served` says of each request which
  place of the code's table (`Table`) it is served from, by the power of two below it and its
  quotient (`ClassAbove`). Of two powers of two the lesser divides the other (`PowersDivide`), so an
  aligned request gets a size that is as aligned, whichever of its alignment and the bucket's is larger
  (`ServedAligned`); objects fill the block from its end, so they are too (`ObjectsAligned`). Which
  requests are served is `ServedUnlessOutgrown`: alignments up to 1024 divide the largest size.
* **`TextureUpload_proofs`**. `StagedWhereAnnounced`, for textures of any dimensions, levels and
  layers, any ring and any number of threads. Of the alignments `TextureUploadAssumption` says that
  one divides the other, as two powers of two do. The invariant (`IInv`) rests on `RingGood`: nothing
  frees a staging range, so the ring never wraps, and `m_buffer_begin` stays at whole rows because
  every footprint is whole rows. Hence a place that was computed before the ring was asked is either
  its begin, or so near the end that the request finds no room (`Announced`): the assert that the
  range is the announced one is never reached with another. `GrantsGood`, `StagedGood` and `CopyGood`
  say that ranges of different loads are disjoint, that every staged row is in the range of its load
  and apart from all other rows, and that a recorded copy has its rows staged. `StagingOrder`,
  `RowsInside` and `RowsApart` say of the footprints that subresources, slices and rows follow each
  other without overlap. Footprints are sums and halvings computed by recursive functions; that these
  have a solution goes by the least argument where it fails (`BySteps`, `Iterates`).

  `DeviceReadsWhatWasWritten` is proved with the hypothesis `BlocksMeetRows`: the bytes of a block
  and the alignment of rows divide one another. The row pitch is then whole blocks, so
  `bufferRowLength`, in texels, loses nothing in its division and the address the device computes is
  the row the loader wrote (`AddressIsRow`). Formats of 3, 6 or 12 bytes do not meet the hypothesis
  when a device aligns rows to 4 bytes or more, and for them the property is false: TLC finds it with
  one texture of 1 by 2 texels of 3 bytes, whose second row is written at 4 and read at 3.
* **`McrtEvent_proofs`**. `NoLostWakeup` is inductive with `TypeOK`: only `set` makes a
  sleeper's events signalled, and its setter is then between unlock and broadcast. The
  refinement needs in addition that only timed waits expire.

Only model-checked: all liveness (`CallsEnd`, `SatisfiedWaitEnds`, `WaitEnds`, `CloseEnds`,
`RoundsEnd`), which is out of the prover's reach, and with it
`ImplementsParallelMap`, whose specification has fairness; and `Launcher`, which has no constants, so
TLC's run is the whole state space.

## 5. What the code does that it should not

1. **Full pages stay on the scanned list**: each page that becomes full is moved to the full list
   and at once spliced back (`ListsAfterServe`), so the assert of the next scan of its class fails.
   The properties of `slob` hold all the same: such a page serves nothing and is on one list.
2. **The ring grants some wraps that it should refuse**, with requests of mixed sizes as the texture
   loader's: over a range in flight, or such that `free` will not know the range (`ring`:
   `OvertakingBreaks`; `Overtakes` is the exact condition).
3. **The gfx connection is used after it is destroyed**: `Launcher` reaches `main = "resize"`
   with the connection gone.
4. **A failed load leaves the staging ring locked**: `TextureUpload` reaches it.
5. **A stolen task is read too late** (`scheduler_theft`).
6. **A foreign free counts its object too late** (`malloc_late`): by then the block may be
   unmapped, or be another one, whose count is then too high. Two other asserts (613 and 1414) fail
   while an addition is late, without any new mapping.
7. **An arena of one slot divides by zero** when it looks for a worker's slot (`PTSTaskSchedulerImpl.cpp:278`).
8. **An aligned request may outgrow the buckets**: 6145 bytes aligned to 2048, or 4097 aligned
   to 4096, become a request of 8192, which no bucket serves (`PTSMemoryAllocator.cpp:1681`).
   `EveryRequestFits` says that these and no others fail (`Outgrows`).
9. **A deque that doubles copies its tasks the wrong way** (424-480; `Clobbered`).
10. **A pop reads a block that may be unmapped**: the `next` of the top, after another thread has
    popped the block and given it back (`PTSMemoryAllocator.cpp:573`); `PopNext` then never happens.
11. **An assert about the active block is false** when `Alloc` inserts a block it has popped behind
    the active one (929; `OwnThread` takes that branch).

`PROJECT.json` has the lines and the quotes. Read while modelling, without a run:

* `mcrt_os_event_timedwait_*` do not look at the events again after a timeout, and return
  -1 although they may be signalled by then (`ReturnExpired`; `include/pt_mcrt_thread.h:130`
  says they are not).
* Staging ranges are never freed, and neither are the arrays of a load that fails.
* `bufferRowLength` rounds down for formats of 3, 6 and 12 bytes.
* Offsets are multiples of the device's alignments only, which may be 1; the code quotes that
  `bufferOffset` must be a multiple of 4 (`src/pt_gfx_texture_vk.cpp:481`).
* The barriers around the copies cover one layer, the copies all of them (192).
* The PVR loader loads all faces of a cube map into layer 0.
* A block that `Alloc` walks past, because it gives nothing, keeps `m_bInPrevious`: a later free
  by the owner does not move it, and it waits until the active block comes back to it.

## 6. What is not modelled

* The exclusion that `lock` and `unlock` of the allocators do not provide: they assert that
  callers take turns, and the models let them.
* 64-bit overflow of offsets and sums: sizes are bounded by page and buffer sizes far below.
* Time: a timeout may fire at any moment; its length is not modelled.
* Weak memory: atomic accesses are sequentially consistent steps; the plain fields of a
  streaming slot are read and written in whole words.
* Of the scheduler: a second arena, maps within maps, the recycling of safe continuations, and
  the count of 1500 failures (a worker may give up at any failure).
* Of the allocator: several buckets at once, objects larger than a block, the reuse of
  thread ids by the operating system, and the finite number of bits of a version.
* Properties that would be about nothing but a time or a missing call: relative timeouts given
  anew to each wait (`include/pt_mcrt_thread_posix.inl:170`), and the ring's ranges, which
  nobody frees.
* Of a texture load: the headers of the files, the image, its memory and its layouts.
* The device, the memory types, the wrappers, the other back ends and launchers: straight
  sequences of external calls, or stubs.

## 7. Plan

1. (done) slob page, slob, ring, streaming slots, events, task graph, launcher, texture upload
   with the DDS loader, task scheduler, thread-caching allocator; the first proofs.
2. (done) proofs: `Slob`, `DagTasks`, `RingBuffer` refines `RangeFifo`, the tasks of
   `TaskScheduler`, the blocks, objects, counts and sizes of `BlockAllocator`, the staged ranges and the
   reads of `TextureUpload`.
3. The PVR loader's order of subresources; the image's memory, layouts and barriers in
   `TextureUpload`, composed with the heap and the streaming slot.
4. The choice of memory types, as an operator checked against a reference definition.
