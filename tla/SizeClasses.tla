------------------------------ MODULE SizeClasses ----------------------------
(***************************************************************************)
(* The sizes of src/src/obsolete-private/McRT/PTSMemoryAllocator.cpp: which *)
(* bucket a request goes to, how large its objects are, where they lie in  *)
(* a block and how many may be in use for the block to count as empty      *)
(* enough.  Pure operators with the numbers of the 64-bit release build.   *)
(***************************************************************************)
EXTENDS Integers, FiniteSets

BlockSize == 16 * 1024
HeaderSize == 128           \* sizeof(PTS_BucketBlockHeader): two cache lines
LargestObject == 7168       \* s_NonLargeObject_SizeMax; more goes to the system

Alignments == {2 ^ k : k \in 0 .. 12}   \* the powers of two up to LargestObject

\* For n > 0 and a power of two.
AlignUp(n, alignment) == ((n + alignment - 1) \div alignment) * alignment
AlignDown(n, alignment) == (n \div alignment) * alignment

\* PTS_Size_BitScanReverse.
HighestBit(n) == CHOOSE k \in 0 .. 12 : n \in 2 ^ k .. 2 ^ (k + 1) - 1

\* PTS_Size_ResolveRequestSize: five small buckets from a table, then four for
\* each power of two.
SmallSizes == <<8, 16, 32, 48, 64>>
SmallBuckets == <<0, 1, 2, 2, 3, 3, 4, 4>>
IsSmall(n) == n <= 64

Bucket(n) ==
    LET order == HighestBit(n - 1)
    IN  IF IsSmall(n) THEN SmallBuckets[(n - 1) \div 8 + 1]
        ELSE 5 + 4 * (order - 6) + (n - 1) \div 2 ^ (order - 2) - 4

ObjectSize(n) ==
    IF IsSmall(n) THEN SmallSizes[Bucket(n) + 1]
    ELSE AlignUp(n, 2 ^ (HighestBit(n - 1) - 2))

\* PTS_Internal_Alloc_Aligned asks for more bytes and trusts that objects of
\* that size are aligned.
Requested(n, alignment) == AlignUp(n, alignment)

\* _BumpPointerRestore: objects fill a block from its end.
ObjectsPerBlock(size) == (BlockSize - HeaderSize) \div size
FirstObjectAfterHeader(size) == HeaderSize
FirstObject(size) == BlockSize - size * ObjectsPerBlock(size)
ObjectAt(size, i) == FirstObject(size) + i * size
ObjectsAt(size) == {ObjectAt(size, i) : i \in 0 .. ObjectsPerBlock(size) - 1}

\* PTS_Internal_Free: what is not at a multiple of the block size is an object,
\* and its block is at the multiple below.
IsObject(address) == AlignDown(address, BlockSize) # address

\* IsReadyInPrevious: four fifths in use at most, and not full.  Unsigned numbers
\* of 32 bits: a count below zero makes a product far above the block's bytes.
EmptyEnough(size, used) ==
    /\ used >= 0
    /\ size * used <= ((BlockSize - HeaderSize) \div 5) * 4
    /\ size * (used + 1) <= BlockSize - HeaderSize

-----------------------------------------------------------------------------
\* The table of the comment in PTS_Size_ResolveRequestSize.
Sizes ==
    {8, 16, 32, 48, 64} \cup {m * 2 ^ k : m \in {5, 6, 7, 8}, k \in 4 .. 9}
                        \cup {m * 2 ^ 10 : m \in {5, 6, 7}}

\* What Alloc_Aligned may hand to Alloc, which asserts RequestSize <=
\* s_NonLargeObject_SizeMax (line 815).  The code does not look.
IsServed(n, alignment) == Requested(n, alignment) <= LargestObject

\* Requests of at most LargestObject bytes that Alloc_Aligned enlarges to 8192.
Outgrows(n, alignment) ==
    \/ alignment = 2048 /\ n > 6144
    \/ alignment = 4096 /\ n > 4096

\* The requests that the buckets serve are all those that do not outgrow them.
\* A request gets the least size of the table that holds it, and the bucket
\* of that size; the object is as aligned as was asked ("for every size
\* aligned to some power of 2, the allocated object is at least that aligned",
\* lines 1678-1680), lies in its block behind the header, and leads Free back to the
\* block: it is never at a multiple of the block size, which says large object.
EveryRequestFits ==
    /\ \A n \in 1 .. LargestObject :
          /\ ObjectSize(n) \in Sizes
          /\ ObjectSize(n) >= n
          /\ \A s \in Sizes : s >= n => s >= ObjectSize(n)
          /\ Bucket(n) = Cardinality({s \in Sizes : s < ObjectSize(n)})
    /\ \A n \in 1 .. LargestObject, a \in Alignments : IsServed(n, a) <=> ~Outgrows(n, a)
    /\ \A a \in Alignments :
          LET sizes == {ObjectSize(Requested(n, a)) :
                            n \in {m \in 1 .. LargestObject : IsServed(m, a)}}
          IN  \A s \in sizes : \A x \in ObjectsAt(s) :
                /\ x % a = 0
                /\ x >= HeaderSize /\ x + s <= BlockSize
                /\ IsObject(x)
=============================================================================
