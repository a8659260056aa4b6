------------------------ MODULE BlockAllocator_proofs ------------------------
(***************************************************************************)
(* Proofs about the allocator for any threads, blocks and sizes: where its *)
(* blocks and its objects are, and what the counts of a block say.         *)
(***************************************************************************)
EXTENDS BlockAllocator, FiniteSetTheorems, SequenceTheorems, TLAPS

\* A thread at one of these places has left its lists to their end.
Ending == {"destruct", "lose", "keep", "push", "count_empty", "push_empty", "gone"}
Places == Ending \cup
    {"idle", "swap", "count", "walk", "scan", "none", "pop", "pop_next", "pop_cas",
     "own", "own_thread", "uncount", "map", "own_empty", "publish", "tally"}

Header ==
    [mapped : {TRUE}, owner : Threads \cup {Nobody}, thread : Threads \cup {Nobody},
     private : SUBSET Slots, public : SUBSET Slots, bump : Int, allocated : Int,
     number : Int, inPrevious : BOOLEAN, next : Blocks \cup {NoBlock}, late : Nat]
NoHeader == [mapped : {FALSE}]
Locals ==
    [block : Blocks \cup {NoBlock}, full : Blocks \cup {NoBlock}, stage : {"walk", "none", "pop"},
     taken : SUBSET Slots, object : Slots, stack : Stacks, top : Blocks \cup {NoBlock},
     next : Blocks \cup {NoBlock}, fresh : BOOLEAN, todo : Seq(Blocks)]

TypeOK ==
    /\ block \in [Blocks -> Header \cup NoHeader]
    /\ top \in [Stacks -> Blocks \cup {NoBlock}]
    /\ emptyCount \in Int
    /\ bucket \in [Threads -> Seq(Blocks)]
    /\ active \in [Threads -> Blocks \cup {NoBlock}]
    /\ lastNext \in [Threads -> Blocks \cup {NoBlock}]
    /\ held \in [Objects -> {0, 1}]
    /\ pc \in [Threads -> Places]
    /\ loc \in [Threads -> Locals]

-----------------------------------------------------------------------------
\* The lists of a thread

GoodLists(L) ==
    /\ L \in [bucket : Seq(Blocks), active : Blocks \cup {NoBlock}, lastNext : Blocks \cup {NoBlock}]
    /\ IsInjective(L.bucket)
    /\ IF L.bucket = <<>> THEN L.active = NoBlock ELSE L.active \in ToSet(L.bucket)
    /\ L.lastNext \in ToSet(L.bucket) \cup {NoBlock}

AtWork == {"swap", "count", "walk", "none", "destruct", "lose"}

GoodThread(t) ==
    /\ IsInjective(bucket[t])
    /\ pc[t] \notin Ending =>
          /\ GoodLists(ListsOf(t))
          /\ loc[t].full \in ToSet(bucket[t]) \cup {NoBlock}
    /\ pc[t] \in AtWork => loc[t].block \in ToSet(bucket[t])
    /\ pc[t] \in Ending =>
          /\ ToSet(loc[t].todo) \subseteq ToSet(bucket[t]) \ {loc[t].block}
          /\ IsInjective(loc[t].todo)
    /\ pc[t] \in {"publish", "tally"} => loc[t].block \in Blocks

ListsGood == \A t \in Threads : GoodThread(t)

-----------------------------------------------------------------------------
\* Where the blocks are

InHand(t) == IF pc[t] \in InHands THEN {loc[t].block} ELSE {}
Kept(t) == ToSet(bucket[t]) \cup InHand(t)

\* With the chains Q of the two stacks, every mapped block has one keeper.
OneKeeper(Q) ==
    /\ \A s \in Stacks : IsStack(s, Q[s])
    /\ \A t \in Threads : ToSet(bucket[t]) \cap InHand(t) = {}
    /\ \A t, u \in Threads : t # u => Kept(t) \cap Kept(u) = {}
    /\ \A t \in Threads, s \in Stacks : Kept(t) \cap ToSet(Q[s]) = {}
    /\ \A r, s \in Stacks : r # s => ToSet(Q[r]) \cap ToSet(Q[s]) = {}
    /\ \A t \in Threads : Kept(t) \subseteq Mapped
    /\ \A s \in Stacks : ToSet(Q[s]) \subseteq Mapped
    /\ \A b \in Mapped : (\E t \in Threads : b \in Kept(t)) \/ (\E s \in Stacks : b \in ToSet(Q[s]))

\* Blocks that count as empty are.
EmptyHands == {"uncount", "own_empty", "keep", "count_empty", "push_empty"}
EmptiesEmpty(Q) ==
    /\ \A b \in ToSet(Q["empty"]) : block[b].allocated = 0
    /\ \A t \in Threads : pc[t] \in EmptyHands => block[loc[t].block].allocated = 0

EmptiesCounted(Q) ==
    emptyCount = Len(Q["empty"]) + Cardinality({t \in Threads : pc[t] \in {"uncount", "push_empty"}})

BlocksKept ==
    \E Q \in [Stacks -> Seq(Blocks)] : OneKeeper(Q) /\ EmptiesEmpty(Q) /\ EmptiesCounted(Q)

\* m_bumpPointer's owner and thread id are right for the threads that live.
OwnersGood ==
    /\ \A t \in Threads : \A b \in ToSet(bucket[t]) : block[b].owner = t /\ block[b].thread = t
    /\ \A t \in Threads, b \in Mapped :
          block[b].thread = t /\ pc[t] \notin Ending => b \in ToSet(bucket[t])
    /\ \A t \in Threads : pc[t] = "own_thread" => block[loc[t].block].owner = t

\* A thread that finds the version it has read may trust what it has read.
ReadIsFresh(t) ==
    /\ pc[t] \in {"pop_next", "pop_cas"} => loc[t].top \in Blocks
    /\ loc[t].fresh =>
          /\ pc[t] \in {"pop_next", "pop_cas"}
          /\ top[loc[t].stack] = loc[t].top
          /\ pc[t] = "pop_cas" => loc[t].next = block[loc[t].top].next

ReadsFresh == \A t \in Threads : ReadIsFresh(t)

-----------------------------------------------------------------------------
\* Where the objects are

\* A header is right if the objects of `away' are with the program or under way.
Right(B, away) ==
    /\ B.private \subseteq Slots /\ B.bump \in 0 .. PerBlock
    /\ Slots = away \cup B.private \cup (B.bump .. PerBlock - 1)
    /\ away \cap B.private = {} /\ away \cap (B.bump .. PerBlock - 1) = {}
    /\ B.private \cap (B.bump .. PerBlock - 1) = {}
    /\ B.allocated = Cardinality(away)

CarriedAll(b) == UNION {Carried(t, b) : t \in Threads}
Away(b) == Program(b) \cup block[b].public \cup CarriedAll(b)

Apart(b) ==
    /\ block[b].public \cap Program(b) = {}
    /\ \A t \in Threads : Carried(t, b) \cap (Program(b) \cup block[b].public) = {}
    /\ \A t, u \in Threads : t # u => Carried(t, b) \cap Carried(u, b) = {}

Placed(b) ==
    IF b \in Mapped
    THEN /\ Apart(b)
         /\ IF At({"own_empty"}, b) = {} THEN Right(block[b], Away(b))
            ELSE Away(b) = {} /\ block[b].allocated = 0
    ELSE Program(b) = {} /\ CarriedAll(b) = {}

ObjectsPlaced == \A b \in Blocks : Placed(b)

KeepInv == TypeOK /\ ListsGood /\ BlocksKept /\ OwnersGood /\ ReadsFresh /\ ObjectsPlaced

-----------------------------------------------------------------------------
\* Sizes

(* The alignment of the buckets above 64 bytes.                            *)
LEMMA QuarterPower ==
    ASSUME NEW n \in 65 .. LargestObject
    PROVE  2 ^ (HighestBit(n - 1) - 2) \in 1 .. 1024
  <1>1. \E k \in 0 .. 12 : n - 1 \in 2 ^ k .. 2 ^ (k + 1) - 1
    <2>1. CASE n - 1 \in 64 .. 127
      BY <2>1, 2 ^ 6 = 64, 2 ^ (6 + 1) = 128
    <2>2. CASE n - 1 \in 128 .. 255
      BY <2>2, 2 ^ 7 = 128, 2 ^ (7 + 1) = 256
    <2>3. CASE n - 1 \in 256 .. 511
      BY <2>3, 2 ^ 8 = 256, 2 ^ (8 + 1) = 512
    <2>4. CASE n - 1 \in 512 .. 1023
      BY <2>4, 2 ^ 9 = 512, 2 ^ (9 + 1) = 1024
    <2>5. CASE n - 1 \in 1024 .. 2047
      BY <2>5, 2 ^ 10 = 1024, 2 ^ (10 + 1) = 2048
    <2>6. CASE n - 1 \in 2048 .. 4095
      BY <2>6, 2 ^ 11 = 2048, 2 ^ (11 + 1) = 4096
    <2>7. CASE n - 1 \in 4096 .. 8191
      BY <2>7, 2 ^ 12 = 4096, 2 ^ (12 + 1) = 8192
    <2> QED
      BY <2>1, <2>2, <2>3, <2>4, <2>5, <2>6, <2>7 DEF LargestObject
  <1>2. PICK k \in 0 .. 12 : k = HighestBit(n - 1) /\ n - 1 \in 2 ^ k .. 2 ^ (k + 1) - 1
    BY <1>1 DEF HighestBit
  <1>3. k \notin 0 .. 5
    <2> SUFFICES ASSUME k \in 0 .. 5 PROVE 2 ^ (k + 1) \in 2 .. 64
      BY <1>2
    <2>1. PICK j \in {1, 2, 3, 4, 5, 6} : j = k + 1
      OBVIOUS
    <2>2. 2 ^ 1 = 2 /\ 2 ^ 2 = 4 /\ 2 ^ 3 = 8 /\ 2 ^ 4 = 16 /\ 2 ^ 5 = 32 /\ 2 ^ 6 = 64
      OBVIOUS
    <2>3. 2 ^ j \in {2, 4, 8, 16, 32, 64}
      BY <2>1, <2>2, Zenon
    <2> QED
      BY <2>1, <2>3
  <1>4. PICK j \in {4, 5, 6, 7, 8, 9, 10} : j = k - 2
    BY <1>2, <1>3
  <1>5. 2 ^ j \in {2 ^ 4, 2 ^ 5, 2 ^ 6, 2 ^ 7, 2 ^ 8, 2 ^ 9, 2 ^ 10}
    OBVIOUS
  <1>6. 2 ^ j \in 1 .. 1024
    BY <1>5
  <1> QED
    BY <1>2, <1>4, <1>6

LEMMA AlignUpBounds ==
    ASSUME NEW n \in Nat \ {0}, NEW a \in Nat \ {0}
    PROVE  AlignUp(n, a) \in Nat \ {0} /\ AlignUp(n, a) <= n + a - 1
  <1>1. PICK q \in Int, r \in 0 .. a - 1 : q = (n + a - 1) \div a /\ n + a - 1 = a * q + r
    OBVIOUS
  <1>2. q >= 1
    <2> SUFFICES ASSUME q <= 0 PROVE FALSE
      BY <1>1
    <2>1. a * q <= 0
      BY <1>1
    <2> QED
      BY <1>1, <2>1
  <1>3. q * a = a * q /\ a * q >= a
    BY <1>1, <1>2
  <1>4. AlignUp(n, a) = q * a
    BY <1>1 DEF AlignUp
  <1> QED
    BY <1>1, <1>3, <1>4

(* A block has room for at least one object of the bucket.                 *)
LEMMA SizeBounds == Size \in 1 .. BlockSize - HeaderSize /\ PerBlock \in Nat \ {0}
  <1>1. Request \in 1 .. LargestObject
    BY BlockAllocatorAssumption
  <1>2. ObjectSize(Request) \in 1 .. BlockSize - HeaderSize
    <2>1. CASE IsSmall(Request)
      <3>1. (Request - 1) \div 8 + 1 \in 1 .. 8
        BY <1>1, <2>1 DEF IsSmall
      <3>2. Bucket(Request) + 1 \in 1 .. 5
        BY <2>1, <3>1 DEF Bucket, SmallBuckets
      <3>3. ObjectSize(Request) = SmallSizes[Bucket(Request) + 1]
        BY <2>1 DEF ObjectSize
      <3>4. \A i \in 1 .. 5 : SmallSizes[i] \in 8 .. 64
        BY DEF SmallSizes
      <3>5. ObjectSize(Request) \in 8 .. 64
        BY <3>2, <3>3, <3>4, Zenon
      <3>6. 8 .. 64 \subseteq 1 .. BlockSize - HeaderSize
        BY DEF BlockSize, HeaderSize
      <3> QED
        BY <3>5, <3>6, Zenon
    <2>2. CASE ~IsSmall(Request)
      <3>1. Request \in 65 .. LargestObject
        BY <1>1, <2>2 DEF IsSmall, LargestObject
      <3>2. PICK a \in 1 .. 1024 : a = 2 ^ (HighestBit(Request - 1) - 2)
        BY <3>1, QuarterPower, SMTT(30)
      <3>3. PICK n \in Nat \ {0} : n = AlignUp(Request, a) /\ n <= Request + a - 1
        <4>1. Request \in Nat \ {0} /\ a \in Nat \ {0}
          BY <3>1
        <4>2. AlignUp(Request, a) \in Nat \ {0} /\ AlignUp(Request, a) <= Request + a - 1
          BY <4>1, AlignUpBounds
        <4> QED
          BY <4>2
      <3>4. ObjectSize(Request) = n
        BY <2>2, <3>2, <3>3 DEF ObjectSize
      <3>5. Request \in Int /\ a \in Int /\ Request <= 7168 /\ a <= 1024
        BY <3>1, <3>2 DEF LargestObject
      <3>6. n \in 1 .. BlockSize - HeaderSize
        <4>1. n <= 8191
          BY <3>3, <3>5
        <4>2. BlockSize - HeaderSize = 16256
          BY DEF BlockSize, HeaderSize
        <4> QED
          BY <3>3, <4>1, <4>2
      <3> QED
        BY <3>4, <3>6
    <2> QED
      BY <2>1, <2>2
  <1>3. \A s \in 1 .. BlockSize - HeaderSize : (BlockSize - HeaderSize) \div s \in Nat \ {0}
    <2> SUFFICES ASSUME NEW s \in 1 .. BlockSize - HeaderSize
                 PROVE  (BlockSize - HeaderSize) \div s \in Nat \ {0}
      OBVIOUS
    <2>1. PICK c \in Nat : c = BlockSize - HeaderSize /\ s <= c
      BY DEF BlockSize, HeaderSize
    <2>2. PICK q \in Int, r \in 0 .. s - 1 : q = c \div s /\ c = s * q + r
      OBVIOUS
    <2>3. q >= 1
      <3> SUFFICES ASSUME q <= 0 PROVE FALSE
        BY <2>2
      <3>1. s * q <= 0
        BY <2>2
      <3> QED
        BY <2>1, <2>2, <3>1
    <2> QED
      BY <2>1, <2>2, <2>3
  <1> QED
    BY <1>2, <1>3 DEF Size, PerBlock, ObjectsPerBlock

LEMMA SlotsFacts == IsFiniteSet(Slots) /\ Cardinality(Slots) = PerBlock /\ 0 \in Slots
  BY SizeBounds, FS_Interval DEF Slots

(* A block that is empty enough has an object that is not in use.          *)
LEMMA EmptyEnoughIsNotFull ==
    ASSUME NEW used \in Int, EmptyEnough(Size, used)
    PROVE  used < PerBlock
  <1>1. PICK s \in Nat \ {0}, c \in Nat, q \in Nat :
            s = Size /\ c = BlockSize - HeaderSize /\ q = PerBlock /\ c < s * (q + 1)
    <2>1. PICK s \in Nat \ {0}, c \in Nat : s = Size /\ c = BlockSize - HeaderSize
      BY SizeBounds DEF BlockSize, HeaderSize
    <2>2. PICK q \in Int : q = c \div s /\ c < s * (q + 1)
      OBVIOUS
    <2> QED
      BY <2>1, <2>2, SizeBounds DEF PerBlock, ObjectsPerBlock
  <1>2. s * (used + 1) <= c
    BY <1>1 DEF EmptyEnough
  <1> SUFFICES ASSUME used + 1 >= q + 1 PROVE FALSE
    BY <1>1
  <1>3. s * (used + 1) >= s * (q + 1)
    BY <1>1
  <1> QED
    BY <1>1, <1>2, <1>3

-----------------------------------------------------------------------------
\* What the operators of a block do to a header that is right

(* A nonempty set of naturals has a least element.                         *)
LEMMA LeastIsIn ==
    ASSUME NEW T \in SUBSET Nat, T # {}
    PROVE  Min(T) \in T /\ \A y \in T : Min(T) <= y
  <1> DEFINE Below == {0 .. x : x \in T}
  <1>1. \A x \in T : 0 .. x \in FiniteSubsetsOf(Nat)
    <2> SUFFICES ASSUME NEW x \in T PROVE IsFiniteSet(0 .. x)
      BY DEF FiniteSubsetsOf
    <2>1. 0 \in Int /\ x \in Int
      OBVIOUS
    <2> QED
      BY <2>1, FS_Interval
  <1>2. PICK X \in Below : \A Y \in Below : <<Y, X>> \notin StrictSubsetOrdering(Nat)
    <2>1. Below \subseteq FiniteSubsetsOf(Nat) /\ Below # {}
      BY <1>1
    <2> QED
      BY <2>1, WFMin, FS_StrictSubsetOrderingWellFounded
  <1>3. PICK x \in T : X = 0 .. x
    OBVIOUS
  <1>4. \A y \in T : x <= y
    <2> SUFFICES ASSUME NEW y \in T, y < x PROVE FALSE
      OBVIOUS
    <2>1. 0 .. y \subseteq X /\ x \notin 0 .. y /\ x \in X /\ X \subseteq Nat /\ 0 .. y \in Below
      BY <1>3
    <2>2. <<0 .. y, X>> \in StrictSubsetOrdering(Nat)
      BY <2>1 DEF StrictSubsetOrdering
    <2> QED
      BY <1>2, <2>1, <2>2
  <1> QED
    BY <1>3, <1>4 DEF Min

\* The fields that the objects of a block do not depend on.
SameRest(B, C) ==
    /\ C.mapped = B.mapped /\ C.owner = B.owner /\ C.thread = B.thread
    /\ C.public = B.public /\ C.number = B.number
    /\ C.inPrevious = B.inPrevious /\ C.next = B.next /\ C.late = B.late

\* The fields that they do depend on.
SameObjects(B, C) ==
    C.private = B.private /\ C.bump = B.bump /\ C.allocated = B.allocated

LEMMA RightOfSame ==
    ASSUME NEW B, NEW C, NEW away, Right(B, away), SameObjects(B, C)
    PROVE  Right(C, away)
  BY DEF Right, SameObjects

LEMMA RightFinite ==
    ASSUME NEW B, NEW away, Right(B, away)
    PROVE  away \subseteq Slots /\ IsFiniteSet(away)
  BY SlotsFacts, FS_Subset DEF Right

(* A block with room gives an object that was not in use.                  *)
LEMMA RightUsed ==
    ASSUME NEW B \in Header, NEW away, Right(B, away), HasRoom(B)
    PROVE  /\ Object(B) \in Slots \ away
           /\ Used(B) \in Header /\ SameRest(B, Used(B))
           /\ Right(Used(B), away \cup {Object(B)})
  <1> SUFFICES ASSUME NEW o, o = Object(B), NEW C, C = Used(B)
               PROVE  /\ o \in Slots \ away
                      /\ C \in Header /\ SameRest(B, C)
                      /\ Right(C, away \cup {o})
    OBVIOUS
  <1>1. /\ B.private \subseteq Slots /\ B.bump \in 0 .. PerBlock
        /\ PerBlock \in Nat \ {0} /\ Slots = 0 .. PerBlock - 1
    BY SizeBounds DEF Right, Slots
  <1>2. /\ o \in Slots \ away
        /\ C.private = B.private \ {o}
        /\ C.bump \in 0 .. PerBlock
        /\ C.bump .. PerBlock - 1 = (B.bump .. PerBlock - 1) \ {o}
        /\ C.allocated = B.allocated + 1
        /\ C \in Header /\ SameRest(B, C)
    <2>1. CASE B.private # {}
      <3>1. Min(B.private) \in B.private
        BY <1>1, <2>1, LeastIsIn
      <3>2. o = Min(B.private)
        BY <2>1 DEF Object
      <3>3. /\ C.private = B.private \ {o} /\ C.bump = B.bump /\ C.allocated = B.allocated + 1
            /\ C \in Header /\ SameRest(B, C)
        <4>0. PICK p \in SUBSET Slots : p = B.private \ {o}
          BY <1>1
        <4>1. PICK a \in Int : a = B.allocated + 1
          BY DEF Header
        <4>2. C = [B EXCEPT !.private = p, !.allocated = a]
          BY <2>1, <3>2, <4>0, <4>1 DEF Used
        <4>3. C \in Header
          BY <4>2 DEF Header
        <4>4. SameRest(B, C) /\ C.private = p /\ C.bump = B.bump /\ C.allocated = a
          BY <4>2 DEF Header, SameRest
        <4> QED
          BY <4>0, <4>1, <4>3, <4>4
      <3>4. o \in Slots \ away /\ o \notin B.bump .. PerBlock - 1
        BY <1>1, <3>1, <3>2 DEF Right
      <3> QED
        BY <1>1, <3>3, <3>4
    <2>2. CASE B.private = {}
      <3>1. B.bump < PerBlock
        BY <2>2 DEF HasRoom
      <3>2. o = B.bump
        BY <2>2 DEF Object
      <3>3. /\ C.private = B.private /\ C.bump = B.bump + 1 /\ C.allocated = B.allocated + 1
            /\ C \in Header /\ SameRest(B, C)
        <4>1. PICK m \in Int, a \in Int : m = B.bump + 1 /\ a = B.allocated + 1
          BY DEF Header
        <4>2. C = [B EXCEPT !.bump = m, !.allocated = a]
          BY <2>2, <4>1 DEF Used
        <4>3. C \in Header
          BY <4>2 DEF Header
        <4>4. SameRest(B, C) /\ C.private = B.private /\ C.bump = m /\ C.allocated = a
          BY <4>2 DEF Header, SameRest
        <4> QED
          BY <4>1, <4>3, <4>4
      <3>4. o \in B.bump .. PerBlock - 1 /\ o \in Slots
        BY <1>1, <3>1, <3>2
      <3>5. o \notin away
        BY <3>4 DEF Right
      <3>6. B.bump + 1 .. PerBlock - 1 = (B.bump .. PerBlock - 1) \ {B.bump} /\ B.bump + 1 \in 0 .. PerBlock
        BY <1>1, <3>1
      <3> QED
        BY <2>2, <3>2, <3>3, <3>4, <3>5, <3>6
    <2> QED
      BY <2>1, <2>2
  <1>3. Cardinality(away \cup {o}) = Cardinality(away) + 1
    BY <1>2, RightFinite, FS_AddElement
  <1> QED
    BY <1>1, <1>2, <1>3 DEF Right

(* The objects that were taken from the public list become private.        *)
LEMMA RightRepatriated ==
    ASSUME NEW B \in Header, NEW away, Right(B, away), NEW taken \in SUBSET away,
           NEW C, C = Repatriate(B, taken)
    PROVE  /\ C \in Header /\ Right(C, away \ taken)
           /\ C.public = B.public /\ C.number = B.number - Cardinality(taken)
           /\ C.private = B.private \cup taken /\ C.bump = B.bump
           /\ C.mapped = B.mapped /\ C.owner = B.owner /\ C.thread = B.thread
           /\ C.inPrevious = B.inPrevious /\ C.next = B.next
  <1>1. IsFiniteSet(away) /\ IsFiniteSet(taken) /\ away \subseteq Slots
    BY RightFinite, FS_Subset
  <1>2. PICK n \in Nat : n = Cardinality(taken)
    BY <1>1, FS_CardinalityType
  <1>3. PICK p \in SUBSET Slots : p = B.private \cup taken
    BY <1>1 DEF Right
  <1>a. PICK a \in Int : a = B.allocated - n
    BY DEF Header
  <1>m. PICK m \in Int : m = B.number - n
    BY DEF Header
  <1>4. /\ C \in Header
        /\ C.public = B.public /\ C.number = B.number - n /\ C.allocated = B.allocated - n
        /\ C.private = B.private \cup taken /\ C.bump = B.bump
        /\ C.mapped = B.mapped /\ C.owner = B.owner /\ C.thread = B.thread
        /\ C.inPrevious = B.inPrevious /\ C.next = B.next
    <2>1. C = [B EXCEPT !.private = p, !.allocated = a, !.number = m]
      BY <1>2, <1>3, <1>a, <1>m DEF Repatriate, Repatriated
    <2>2. C \in Header
      BY <2>1 DEF Header
    <2>3. /\ C.public = B.public /\ C.number = m /\ C.allocated = a /\ C.private = p
          /\ C.bump = B.bump /\ C.mapped = B.mapped /\ C.owner = B.owner
          /\ C.thread = B.thread /\ C.inPrevious = B.inPrevious /\ C.next = B.next
      BY <2>1 DEF Header
    <2> QED
      BY <1>3, <1>a, <1>m, <2>2, <2>3
  <1>5. Cardinality(away \ taken) = Cardinality(away) - n
    <2>1. away \cap taken = taken
      OBVIOUS
    <2> QED
      BY <1>1, <1>2, <2>1, FS_Difference
  <1>6. Right(C, away \ taken)
    BY <1>1, <1>4, <1>5 DEF Right
  <1> QED
    BY <1>2, <1>4, <1>6

(* An empty block is as after its construction, with its bump pointer.     *)
LEMMA RightRestored ==
    ASSUME NEW B \in Header, B.allocated = 0, NEW C, C = Restore(B)
    PROVE  C \in Header /\ Right(C, {}) /\ SameRest(B, C) /\ HasRoom(C)
  <1>1. C = [B EXCEPT !.bump = 0, !.private = {}]
    BY DEF Restore
  <1>2. /\ C \in Header /\ SameRest(B, C)
        /\ C.bump = 0 /\ C.private = {} /\ C.allocated = 0
    BY <1>1 DEF Header, SameRest
  <1> QED
    BY <1>2, SizeBounds, FS_EmptySet DEF Right, HasRoom, Slots

LEMMA RightIfEmpty ==
    ASSUME NEW B \in Header, NEW away, Right(B, away), NEW C, C = RestoreIfEmpty(B)
    PROVE  C \in Header /\ Right(C, away) /\ SameRest(B, C) /\ (HasRoom(B) => HasRoom(C))
  <1>1. CASE B.allocated = 0
    <2>1. away = {}
      BY <1>1, RightFinite, FS_EmptySet DEF Right
    <2> QED
      BY <1>1, <2>1, RightRestored DEF RestoreIfEmpty
  <1>2. CASE B.allocated # 0
    BY <1>2 DEF RestoreIfEmpty, SameRest
  <1> QED
    BY <1>1, <1>2

(* An object that the owner frees becomes private.                         *)
LEMMA RightFreed ==
    ASSUME NEW B \in Header, NEW away, Right(B, away), NEW o \in away,
           NEW C, C = [B EXCEPT !.allocated = @ - 1, !.private = @ \cup {o}]
    PROVE  C \in Header /\ Right(C, away \ {o}) /\ SameRest(B, C)
  <1>1. IsFiniteSet(away) /\ away \subseteq Slots
    BY RightFinite
  <1>2. /\ C \in Header /\ SameRest(B, C)
        /\ C.bump = B.bump /\ C.private = B.private \cup {o} /\ C.allocated = B.allocated - 1
    <2>0. PICK p \in SUBSET Slots : p = B.private \cup {o}
      BY <1>1 DEF Right
    <2>1. PICK a \in Int : a = B.allocated - 1
      BY DEF Header
    <2>2. C = [B EXCEPT !.private = p, !.allocated = a]
      BY <2>0, <2>1
    <2>3. C \in Header
      BY <2>2 DEF Header
    <2>4. SameRest(B, C) /\ C.private = p /\ C.bump = B.bump /\ C.allocated = a
      BY <2>2 DEF Header, SameRest
    <2> QED
      BY <2>0, <2>1, <2>3, <2>4
  <1>3. Cardinality(away \ {o}) = Cardinality(away) - 1
    BY <1>1, FS_RemoveElement
  <1> QED
    BY <1>1, <1>2, <1>3 DEF Right

-----------------------------------------------------------------------------
\* Sequences without repetition

(* What a sequence without repetition is, by its indices.                  *)
LEMMA SeqFacts ==
    ASSUME NEW s \in Seq(Blocks)
    PROVE  /\ Len(s) \in Nat /\ DOMAIN s = 1 .. Len(s)
           /\ ToSet(s) = {s[i] : i \in 1 .. Len(s)} /\ ToSet(s) \subseteq Blocks
           /\ \A i \in 1 .. Len(s) : s[i] \in ToSet(s) /\ s[i] \in Blocks
           /\ IsInjective(s) <=> \A i, j \in 1 .. Len(s) : s[i] = s[j] => i = j
           /\ (s = <<>>) <=> (ToSet(s) = {})
           /\ (s = <<>>) <=> (Len(s) = 0)
  <1>1. Len(s) \in Nat /\ DOMAIN s = 1 .. Len(s) /\ \A i \in 1 .. Len(s) : s[i] \in Blocks
    BY LenProperties
  <1>2. (s = <<>>) <=> (Len(s) = 0)
    BY EmptySeq
  <1>3. ToSet(s) = {s[i] : i \in 1 .. Len(s)}
    BY <1>1 DEF ToSet
  <1>4. IsInjective(s) <=> \A i, j \in 1 .. Len(s) : s[i] = s[j] => i = j
    BY <1>1 DEF IsInjective
  <1>5. (Len(s) = 0) <=> (ToSet(s) = {})
    BY <1>1, <1>3
  <1> QED
    BY <1>1, <1>2, <1>3, <1>4, <1>5

LEMMA PosIn ==
    ASSUME NEW s \in Seq(Blocks), NEW b \in ToSet(s)
    PROVE  PosOf(s, b) \in 1 .. Len(s) /\ s[PosOf(s, b)] = b
  BY SeqFacts DEF PosOf

(* The neighbours of a block are blocks of the list, and other ones.       *)
LEMMA NeighboursIn ==
    ASSUME NEW s \in Seq(Blocks), NEW b \in ToSet(s) \cup {NoBlock}
    PROVE  /\ PrevOf(s, b) \in ToSet(s) \cup {NoBlock} /\ NextOf(s, b) \in ToSet(s) \cup {NoBlock}
           /\ IsInjective(s) /\ b # NoBlock => PrevOf(s, b) # b /\ NextOf(s, b) # b
           /\ PrevOf(s, b) = NoBlock /\ NextOf(s, b) = NoBlock /\ b # NoBlock => ToSet(s) = {b}
  <1>0. NoBlock \notin Blocks
    BY BlockAllocatorAssumption DEF NoBlock
  <1>1. CASE b = NoBlock
    BY <1>1 DEF PrevOf, NextOf
  <1>2. CASE b \in ToSet(s)
    <2>1. PICK k \in 1 .. Len(s) : k = PosOf(s, b) /\ s[k] = b
      BY <1>2, PosIn
    <2>2. Len(s) \in Nat
      BY SeqFacts
    <2>3. k # 1 => k - 1 \in 1 .. Len(s) /\ s[k - 1] \in ToSet(s) /\ (IsInjective(s) => s[k - 1] # b)
      BY <2>1, <2>2, SeqFacts
    <2>4. k # Len(s) => k + 1 \in 1 .. Len(s) /\ s[k + 1] \in ToSet(s) /\ (IsInjective(s) => s[k + 1] # b)
      BY <2>1, <2>2, SeqFacts
    <2>5. b # NoBlock
      BY <1>0, <1>2, SeqFacts
    <2>6. PrevOf(s, b) = IF k = 1 THEN NoBlock ELSE s[k - 1]
      BY <2>1, <2>5 DEF PrevOf
    <2>7. NextOf(s, b) = IF k = Len(s) THEN NoBlock ELSE s[k + 1]
      BY <2>1, <2>5 DEF NextOf
    <2>8. k = 1 /\ k = Len(s) => ToSet(s) = {b}
      <3> SUFFICES ASSUME k = 1, Len(s) = 1 PROVE ToSet(s) = {b}
        OBVIOUS
      <3>1. ToSet(s) = {s[i] : i \in 1 .. 1} /\ s[1] = b /\ 1 .. 1 = {1}
        BY <2>1, SeqFacts
      <3> QED
        BY <3>1
    <2>9. (k # 1 => PrevOf(s, b) # NoBlock) /\ (k # Len(s) => NextOf(s, b) # NoBlock)
      <3>1. ToSet(s) \subseteq Blocks
        BY SeqFacts
      <3> QED
        BY <1>0, <2>3, <2>4, <2>6, <2>7, <3>1
    <2>10. (PrevOf(s, b) = NoBlock \/ k # 1) /\ (NextOf(s, b) = NoBlock \/ k # Len(s))
      BY <2>6, <2>7
    <2> QED
      BY <2>3, <2>4, <2>5, <2>6, <2>7, <2>8, <2>9
  <1> QED
    BY <1>1, <1>2

(* A part of a sequence.                                                   *)
LEMMA Sliced ==
    ASSUME NEW s \in Seq(Blocks), IsInjective(s),
           NEW m \in 1 .. Len(s) + 1, NEW n \in m - 1 .. Len(s),
           NEW q, q = SubSeq(s, m, n)
    PROVE  q \in Seq(Blocks) /\ IsInjective(q) /\ ToSet(q) = {s[i] : i \in m .. n} /\ Len(q) = n - m + 1
  <1>0. /\ Len(s) \in Nat /\ \A i \in 1 .. Len(s) : s[i] \in Blocks
        /\ \A i, j \in 1 .. Len(s) : s[i] = s[j] => i = j
    BY SeqFacts
  <1>1. m \in Int /\ n \in Int /\ \A i \in m .. n : s[i] \in Blocks
    BY <1>0
  <1>2. /\ q \in Seq(Blocks) /\ Len(q) = n - m + 1
        /\ \A i \in 1 .. n - m + 1 : q[i] = s[m + i - 1]
    <2>1. /\ SubSeq(s, m, n) \in Seq(Blocks)
          /\ Len(SubSeq(s, m, n)) = IF m <= n THEN n - m + 1 ELSE 0
          /\ \A i \in 1 .. n - m + 1 : SubSeq(s, m, n)[i] = s[m + i - 1]
      BY <1>1, SubSeqProperties
    <2>2. (IF m <= n THEN n - m + 1 ELSE 0) = n - m + 1
      BY <1>0
    <2> QED
      BY <2>1, <2>2
  <1>3. \A i, j \in 1 .. Len(q) : q[i] = q[j] => i = j
    <2> SUFFICES ASSUME NEW i \in 1 .. Len(q), NEW j \in 1 .. Len(q), q[i] = q[j] PROVE i = j
      OBVIOUS
    <2>1. m + i - 1 \in 1 .. Len(s) /\ m + j - 1 \in 1 .. Len(s)
      BY <1>0, <1>1, <1>2
    <2>2. s[m + i - 1] = s[m + j - 1]
      BY <1>2
    <2>3. m + i - 1 = m + j - 1
      BY <1>0, <2>1, <2>2
    <2> QED
      BY <1>1, <1>2, <2>3
  <1>4. {q[i] : i \in 1 .. Len(q)} = {s[i] : i \in m .. n}
    <2>1. ASSUME NEW i \in 1 .. Len(q) PROVE q[i] \in {s[k] : k \in m .. n}
      <3>1. m + i - 1 \in m .. n
        BY <1>1, <1>2
      <3> QED
        BY <1>2, <3>1
    <2>2. ASSUME NEW k \in m .. n PROVE s[k] \in {q[i] : i \in 1 .. Len(q)}
      <3>1. k - m + 1 \in 1 .. Len(q) /\ m + (k - m + 1) - 1 = k
        BY <1>1, <1>2
      <3>2. q[k - m + 1] = s[k]
        BY <1>2, <3>1
      <3> QED
        BY <3>1, <3>2
    <2> QED
      BY <2>1, <2>2
  <1> QED
    BY <1>2, <1>3, <1>4, SeqFacts

LEMMA Joined ==
    ASSUME NEW a \in Seq(Blocks), NEW z \in Seq(Blocks), IsInjective(a), IsInjective(z),
           ToSet(a) \cap ToSet(z) = {}, NEW q, q = a \o z
    PROVE  /\ q \in Seq(Blocks) /\ IsInjective(q) /\ ToSet(q) = ToSet(a) \cup ToSet(z)
           /\ Len(q) = Len(a) + Len(z)
  <1>0. /\ Len(a) \in Nat /\ Len(z) \in Nat
        /\ \A i \in 1 .. Len(a) : a[i] \in ToSet(a)
        /\ \A i \in 1 .. Len(z) : z[i] \in ToSet(z)
        /\ \A i, j \in 1 .. Len(a) : a[i] = a[j] => i = j
        /\ \A i, j \in 1 .. Len(z) : z[i] = z[j] => i = j
        /\ ToSet(a) = {a[i] : i \in 1 .. Len(a)} /\ ToSet(z) = {z[i] : i \in 1 .. Len(z)}
    BY SeqFacts
  <1>1. /\ q \in Seq(Blocks) /\ Len(q) = Len(a) + Len(z)
        /\ \A i \in 1 .. Len(a) + Len(z) : q[i] = IF i <= Len(a) THEN a[i] ELSE z[i - Len(a)]
    BY ConcatProperties
  <1>2. \A i \in 1 .. Len(q) :
            IF i <= Len(a) THEN i \in 1 .. Len(a) /\ q[i] = a[i]
            ELSE i - Len(a) \in 1 .. Len(z) /\ q[i] = z[i - Len(a)]
    BY <1>0, <1>1
  <1>3. \A i, j \in 1 .. Len(q) : q[i] = q[j] => i = j
    <2> SUFFICES ASSUME NEW i \in 1 .. Len(q), NEW j \in 1 .. Len(q), q[i] = q[j] PROVE i = j
      OBVIOUS
    <2>1. CASE i <= Len(a) /\ j <= Len(a)
      BY <1>0, <1>2, <2>1
    <2>2. CASE ~(i <= Len(a)) /\ ~(j <= Len(a))
      <3>1. i - Len(a) = j - Len(a)
        BY <1>0, <1>2, <2>2, SMTT(30)
      <3> QED
        BY <1>0, <1>1, <3>1
    <2>3. CASE i <= Len(a) /\ ~(j <= Len(a))
      <3>1. q[i] \in ToSet(a) /\ q[j] \in ToSet(z)
        BY <1>0, <1>2, <2>3
      <3> QED
        BY <3>1
    <2>4. CASE ~(i <= Len(a)) /\ j <= Len(a)
      <3>1. q[j] \in ToSet(a) /\ q[i] \in ToSet(z)
        BY <1>0, <1>2, <2>4
      <3> QED
        BY <3>1
    <2> QED
      BY <2>1, <2>2, <2>3, <2>4
  <1>4. {q[i] : i \in 1 .. Len(q)} = ToSet(a) \cup ToSet(z)
    <2>1. \A i \in 1 .. Len(q) : q[i] \in ToSet(a) \cup ToSet(z)
      BY <1>0, <1>2
    <2>2. ASSUME NEW i \in 1 .. Len(a) PROVE a[i] \in {q[k] : k \in 1 .. Len(q)}
      <3>1. i \in 1 .. Len(q) /\ q[i] = a[i]
        BY <1>0, <1>1
      <3> QED
        BY <3>1
    <2>3. ASSUME NEW i \in 1 .. Len(z) PROVE z[i] \in {q[k] : k \in 1 .. Len(q)}
      <3>1. i + Len(a) \in 1 .. Len(q) /\ ~(i + Len(a) <= Len(a)) /\ (i + Len(a)) - Len(a) = i
        BY <1>0, <1>1
      <3>2. q[i + Len(a)] = z[i]
        BY <1>2, <3>1
      <3> QED
        BY <3>1, <3>2
    <2> QED
      BY <1>0, <2>1, <2>2, <2>3
  <1> QED
    BY <1>1, <1>3, <1>4, SeqFacts

LEMMA Single ==
    ASSUME NEW b \in Blocks, NEW q, q = <<b>>
    PROVE  q \in Seq(Blocks) /\ IsInjective(q) /\ ToSet(q) = {b} /\ Len(q) = 1
  <1>1. q \in Seq(Blocks) /\ Len(q) = 1 /\ q[1] = b
    OBVIOUS
  <1>2. 1 .. Len(q) = {1}
    BY <1>1
  <1>3. {q[i] : i \in {1}} = {q[1]}
    OBVIOUS
  <1>4. ToSet(q) = {b}
    BY <1>1, <1>2, <1>3, SeqFacts
  <1>5. IsInjective(q)
    BY <1>1, <1>2, SeqFacts
  <1> QED
    BY <1>1, <1>4, <1>5

LEMMA Reversed ==
    ASSUME NEW s \in Seq(Blocks), IsInjective(s), NEW q, q = Reverse(s)
    PROVE  q \in Seq(Blocks) /\ IsInjective(q) /\ ToSet(q) = ToSet(s)
  <1>0. /\ Len(s) \in Nat /\ \A i \in 1 .. Len(s) : s[i] \in Blocks
        /\ \A i, j \in 1 .. Len(s) : s[i] = s[j] => i = j
        /\ ToSet(s) = {s[i] : i \in 1 .. Len(s)}
    BY SeqFacts
  <1>1. q = [i \in 1 .. Len(s) |-> s[(Len(s) - i) + 1]]
    BY DEF Reverse
  <1>2. q \in Seq(Blocks) /\ Len(q) = Len(s)
    <2>1. q \in [1 .. Len(s) -> Blocks]
      BY <1>0, <1>1
    <2> QED
      BY <1>0, <2>1
  <1>3. \A i \in 1 .. Len(s) : (Len(s) - i) + 1 \in 1 .. Len(s) /\ q[i] = s[(Len(s) - i) + 1]
    BY <1>0, <1>1
  <1>4. \A i, j \in 1 .. Len(q) : q[i] = q[j] => i = j
    <2> SUFFICES ASSUME NEW i \in 1 .. Len(q), NEW j \in 1 .. Len(q), q[i] = q[j] PROVE i = j
      OBVIOUS
    <2>1. PICK m \in 1 .. Len(s) : m = (Len(s) - i) + 1
      BY <1>2, <1>3
    <2>n. PICK n \in 1 .. Len(s) : n = (Len(s) - j) + 1
      BY <1>2, <1>3
    <2>2. s[m] = s[n]
      BY <1>2, <1>3, <2>1, <2>n
    <2>3. m = n
      BY <1>0, <2>2
    <2> QED
      BY <1>0, <1>2, <2>1, <2>n, <2>3
  <1>5. {q[i] : i \in 1 .. Len(q)} = ToSet(s)
    <2>1. ASSUME NEW i \in 1 .. Len(q) PROVE q[i] \in ToSet(s)
      <3>1. (Len(s) - i) + 1 \in 1 .. Len(s) /\ q[i] = s[(Len(s) - i) + 1]
        BY <1>2, <1>3
      <3> QED
        BY <1>0, <3>1, Zenon
    <2>2. ASSUME NEW i \in 1 .. Len(s) PROVE s[i] \in {q[k] : k \in 1 .. Len(q)}
      <3>1. (Len(s) - i) + 1 \in 1 .. Len(q) /\ (Len(s) - ((Len(s) - i) + 1)) + 1 = i
        BY <1>0, <1>2
      <3>2. q[(Len(s) - i) + 1] = s[i]
        BY <1>2, <1>3, <3>1
      <3> QED
        BY <3>1, <3>2
    <2> QED
      <3>1. ToSet(s) \subseteq {q[k] : k \in 1 .. Len(q)}
        BY <1>0, <2>2
      <3>2. {q[k] : k \in 1 .. Len(q)} \subseteq ToSet(s)
        BY <2>1
      <3> QED
        BY <3>1, <3>2
  <1> QED
    BY <1>2, <1>4, <1>5, SeqFacts

(* A sequence without repetition, cut in two at k.                         *)
LEMMA CutInTwo ==
    ASSUME NEW s \in Seq(Blocks), IsInjective(s), NEW k \in 0 .. Len(s)
    PROVE  LET a == SubSeq(s, 1, k)
               z == SubSeq(s, k + 1, Len(s))
           IN  /\ a \in Seq(Blocks) /\ IsInjective(a) /\ z \in Seq(Blocks) /\ IsInjective(z)
               /\ ToSet(a) \cap ToSet(z) = {} /\ ToSet(a) \cup ToSet(z) = ToSet(s)
               /\ ToSet(a) = {s[i] : i \in 1 .. k} /\ ToSet(z) = {s[i] : i \in k + 1 .. Len(s)}
  <1> SUFFICES ASSUME NEW a, NEW z, a = SubSeq(s, 1, k), z = SubSeq(s, k + 1, Len(s))
               PROVE  /\ a \in Seq(Blocks) /\ IsInjective(a) /\ z \in Seq(Blocks) /\ IsInjective(z)
                      /\ ToSet(a) \cap ToSet(z) = {} /\ ToSet(a) \cup ToSet(z) = ToSet(s)
                      /\ ToSet(a) = {s[i] : i \in 1 .. k} /\ ToSet(z) = {s[i] : i \in k + 1 .. Len(s)}
    BY Zenon
  <1>0. /\ Len(s) \in Nat /\ \A i, j \in 1 .. Len(s) : s[i] = s[j] => i = j
        /\ ToSet(s) = {s[i] : i \in 1 .. Len(s)}
    BY SeqFacts
  <1>1. a \in Seq(Blocks) /\ IsInjective(a) /\ ToSet(a) = {s[i] : i \in 1 .. k}
    <2>1. 1 \in 1 .. Len(s) + 1 /\ k \in 1 - 1 .. Len(s)
      BY <1>0
    <2> QED
      BY <2>1, Sliced
  <1>2. z \in Seq(Blocks) /\ IsInjective(z) /\ ToSet(z) = {s[i] : i \in k + 1 .. Len(s)}
    <2>1. k + 1 \in 1 .. Len(s) + 1 /\ Len(s) \in (k + 1) - 1 .. Len(s)
      BY <1>0
    <2> QED
      BY <2>1, Sliced
  <1>3. ToSet(a) \cup ToSet(z) = ToSet(s)
    <2>1. 1 .. Len(s) = (1 .. k) \cup (k + 1 .. Len(s))
      BY <1>0
    <2> QED
      BY <1>0, <1>1, <1>2, <2>1
  <1>4. ToSet(a) \cap ToSet(z) = {}
    <2> SUFFICES ASSUME NEW i \in 1 .. k, NEW j \in k + 1 .. Len(s), s[i] = s[j] PROVE FALSE
      BY <1>1, <1>2
    <2> QED
      BY <1>0
  <1> QED
    BY <1>1, <1>2, <1>3, <1>4

LEMMA Removed ==
    ASSUME NEW s \in Seq(Blocks), IsInjective(s), NEW k \in 1 .. Len(s),
           NEW r, r = RemoveAt(s, k)
    PROVE  r \in Seq(Blocks) /\ IsInjective(r) /\ ToSet(r) = ToSet(s) \ {s[k]}
  <1>0. /\ Len(s) \in Nat /\ \A i, j \in 1 .. Len(s) : s[i] = s[j] => i = j
        /\ ToSet(s) = {s[i] : i \in 1 .. Len(s)}
    BY SeqFacts
  <1>1. PICK a : a = SubSeq(s, 1, k - 1)
    OBVIOUS
  <1>2. PICK z : z = SubSeq(s, k + 1, Len(s))
    OBVIOUS
  <1>3. a \in Seq(Blocks) /\ IsInjective(a) /\ ToSet(a) = {s[i] : i \in 1 .. k - 1}
    <2>1. 1 \in 1 .. Len(s) + 1 /\ k - 1 \in 1 - 1 .. Len(s)
      BY <1>0
    <2> QED
      BY <1>1, <2>1, Sliced
  <1>4. z \in Seq(Blocks) /\ IsInjective(z) /\ ToSet(z) = {s[i] : i \in k + 1 .. Len(s)}
    <2>1. k + 1 \in 1 .. Len(s) + 1 /\ Len(s) \in (k + 1) - 1 .. Len(s)
      BY <1>0
    <2> QED
      BY <1>2, <2>1, Sliced
  <1>5. ToSet(a) \cap ToSet(z) = {}
    BY <1>0, <1>3, <1>4
  <1>6. r = a \o z
    BY <1>1, <1>2 DEF RemoveAt
  <1>7. r \in Seq(Blocks) /\ IsInjective(r) /\ ToSet(r) = ToSet(a) \cup ToSet(z)
    BY <1>3, <1>4, <1>5, <1>6, Joined
  <1>8. ToSet(a) \cup ToSet(z) = ToSet(s) \ {s[k]}
    <2>1. 1 .. Len(s) = (1 .. k - 1) \cup {k} \cup (k + 1 .. Len(s))
      BY <1>0
    <2> QED
      BY <1>0, <1>3, <1>4, <2>1
  <1> QED
    BY <1>7, <1>8

LEMMA Inserted ==
    ASSUME NEW s \in Seq(Blocks), IsInjective(s), NEW k \in 1 .. Len(s) + 1,
           NEW b \in Blocks \ ToSet(s), NEW r, r = InsertAt(s, k, b)
    PROVE  r \in Seq(Blocks) /\ IsInjective(r) /\ ToSet(r) = ToSet(s) \cup {b}
  <1>0. Len(s) \in Nat
    BY SeqFacts
  <1>1. PICK j \in 0 .. Len(s) : j = k - 1
    BY <1>0
  <1>2. PICK a : a = SubSeq(s, 1, j)
    OBVIOUS
  <1>3. PICK z : z = SubSeq(s, j + 1, Len(s))
    OBVIOUS
  <1>4. /\ a \in Seq(Blocks) /\ IsInjective(a) /\ z \in Seq(Blocks) /\ IsInjective(z)
        /\ ToSet(a) \cap ToSet(z) = {} /\ ToSet(a) \cup ToSet(z) = ToSet(s)
    BY <1>2, <1>3, CutInTwo
  <1>5. PICK m : m = <<b>>
    OBVIOUS
  <1>6. m \in Seq(Blocks) /\ IsInjective(m) /\ ToSet(m) = {b}
    BY <1>5, Single
  <1>7. PICK am : am = a \o m
    OBVIOUS
  <1>8. am \in Seq(Blocks) /\ IsInjective(am) /\ ToSet(am) = ToSet(a) \cup {b}
    <2>1. ToSet(a) \cap ToSet(m) = {}
      BY <1>4, <1>6
    <2>2. am \in Seq(Blocks) /\ IsInjective(am) /\ ToSet(am) = ToSet(a) \cup ToSet(m)
      BY <1>4, <1>6, <1>7, <2>1, Joined
    <2> QED
      BY <1>6, <2>2
  <1>9. r = am \o z
    <2>1. k = j + 1
      BY <1>0, <1>1
    <2> QED
      BY <1>1, <1>2, <1>3, <1>5, <1>7, <2>1 DEF InsertAt
  <1>10. ToSet(am) \cap ToSet(z) = {}
    BY <1>4, <1>8
  <1>11. r \in Seq(Blocks) /\ IsInjective(r) /\ ToSet(r) = ToSet(am) \cup ToSet(z)
    BY <1>4, <1>8, <1>9, <1>10, Joined
  <1> QED
    BY <1>4, <1>8, <1>11

-----------------------------------------------------------------------------
\* What the operators of a thread's lists do

LEMMA TakenOut ==
    ASSUME NEW s \in Seq(Blocks), IsInjective(s), NEW b \in ToSet(s),
           NEW r, r = RemoveAt(s, PosOf(s, b))
    PROVE  r \in Seq(Blocks) /\ IsInjective(r) /\ ToSet(r) = ToSet(s) \ {b}
  <1>1. PosOf(s, b) \in 1 .. Len(s) /\ s[PosOf(s, b)] = b
    BY PosIn
  <1> QED
    BY <1>1, Removed

LEMMA GoodRemove ==
    ASSUME NEW L, GoodLists(L), NEW b \in ToSet(L.bucket), NEW N, N = RemoveFrom(L, b)
    PROVE  GoodLists(N) /\ ToSet(N.bucket) = ToSet(L.bucket) \ {b}
  <1>1. /\ L.bucket \in Seq(Blocks) /\ IsInjective(L.bucket) /\ L.active \in ToSet(L.bucket)
        /\ L.lastNext \in ToSet(L.bucket) \cup {NoBlock} /\ ToSet(L.bucket) \subseteq Blocks
        /\ b # NoBlock
    <2>1. L.bucket \in Seq(Blocks)
      BY DEF GoodLists
    <2>2. L.bucket # <<>> /\ ToSet(L.bucket) \subseteq Blocks
      BY <2>1, SeqFacts
    <2> QED
      BY <2>1, <2>2, BlockAllocatorAssumption DEF GoodLists, NoBlock
  <1>2. PICK r : r = RemoveAt(L.bucket, PosOf(L.bucket, b))
    OBVIOUS
  <1>3. r \in Seq(Blocks) /\ IsInjective(r) /\ ToSet(r) = ToSet(L.bucket) \ {b}
    BY <1>1, <1>2, TakenOut
  <1>4. PICK p, n : p = PrevOf(L.bucket, b) /\ n = NextOf(L.bucket, b)
    OBVIOUS
  <1>5. /\ p \in (ToSet(L.bucket) \ {b}) \cup {NoBlock} /\ n \in (ToSet(L.bucket) \ {b}) \cup {NoBlock}
        /\ p = NoBlock /\ n = NoBlock => ToSet(L.bucket) = {b}
    BY <1>1, <1>4, NeighboursIn
  <1>6. PICK a \in Blocks \cup {NoBlock} :
            a = IF L.active # b THEN L.active ELSE IF p # NoBlock THEN p ELSE n
    BY <1>1, <1>5
  <1>7. PICK l \in Blocks \cup {NoBlock} : l = IF L.lastNext = b THEN n ELSE L.lastNext
    BY <1>1, <1>5
  <1>8. N = [bucket |-> r, active |-> a, lastNext |-> l]
    BY <1>2, <1>4, <1>6, <1>7 DEF RemoveFrom
  <1>9. IF r = <<>> THEN a = NoBlock ELSE a \in ToSet(r)
    <2>1. (r = <<>>) <=> (ToSet(r) = {})
      BY <1>3, SeqFacts
    <2>2. CASE L.active # b
      BY <1>1, <1>3, <1>6, <2>1, <2>2
    <2>3. CASE L.active = b
      <3>1. a = NoBlock => p = NoBlock /\ n = NoBlock
        BY <1>6, <2>3
      <3>2. a \in ToSet(r) \cup {NoBlock}
        BY <1>3, <1>5, <1>6, <2>3
      <3>3. NoBlock \notin ToSet(r)
        BY <1>1, <1>3, BlockAllocatorAssumption DEF NoBlock
      <3> QED
        BY <1>3, <1>5, <2>1, <3>1, <3>2, <3>3
    <2> QED
      BY <2>2, <2>3
  <1>10. l \in ToSet(r) \cup {NoBlock}
    BY <1>1, <1>3, <1>5, <1>7
  <1>11. N.bucket = r /\ N.active = a /\ N.lastNext = l
    BY <1>8
  <1>12. N \in [bucket : Seq(Blocks), active : Blocks \cup {NoBlock}, lastNext : Blocks \cup {NoBlock}]
    BY <1>3, <1>8
  <1> QED
    BY <1>3, <1>9, <1>10, <1>11, <1>12 DEF GoodLists

LEMMA GoodInsert ==
    ASSUME NEW L, GoodLists(L), NEW b \in Blocks \ ToSet(L.bucket),
           NEW N, N = InsertToPrevious(L, b) \/ N = InsertToNext(L, b)
    PROVE  GoodLists(N) /\ ToSet(N.bucket) = ToSet(L.bucket) \cup {b} /\ N.lastNext = L.lastNext
  <1>1. /\ L \in [bucket : Seq(Blocks), active : Blocks \cup {NoBlock}, lastNext : Blocks \cup {NoBlock}]
        /\ L.bucket \in Seq(Blocks) /\ IsInjective(L.bucket) /\ ToSet(L.bucket) \subseteq Blocks
        /\ NoBlock \notin Blocks
    <2>1. L.bucket \in Seq(Blocks)
      BY DEF GoodLists
    <2> QED
      BY <2>1, SeqFacts, BlockAllocatorAssumption DEF GoodLists, NoBlock
  <1>2. CASE L.active = NoBlock
    <2>1. L.bucket = <<>>
      BY <1>1, <1>2 DEF GoodLists
    <2>2. ToSet(L.bucket) = {}
      BY <1>1, <2>1, SeqFacts
    <2>3. PICK q : q = <<b>>
      OBVIOUS
    <2>4. q \in Seq(Blocks) /\ IsInjective(q) /\ ToSet(q) = {b} /\ q # <<>>
      BY <2>3, Single, SeqFacts
    <2>5. N = [L EXCEPT !.bucket = q, !.active = b]
      BY <1>2, <2>3 DEF InsertToPrevious, InsertToNext
    <2>6. N.bucket = q /\ N.active = b /\ N.lastNext = L.lastNext
      BY <1>1, <2>5
    <2>7. N \in [bucket : Seq(Blocks), active : Blocks \cup {NoBlock}, lastNext : Blocks \cup {NoBlock}]
      BY <1>1, <2>4, <2>5
    <2>8. L.lastNext = NoBlock
      BY <2>2 DEF GoodLists
    <2> QED
      BY <2>2, <2>4, <2>6, <2>7, <2>8 DEF GoodLists
  <1>3. CASE L.active # NoBlock
    <2>1. L.bucket # <<>> /\ L.active \in ToSet(L.bucket)
      BY <1>3 DEF GoodLists
    <2>2. PosOf(L.bucket, L.active) \in 1 .. Len(L.bucket) /\ Len(L.bucket) \in Nat
      BY <1>1, <2>1, PosIn, SeqFacts
    <2>3. PICK k \in 1 .. Len(L.bucket) + 1 : N = [L EXCEPT !.bucket = InsertAt(L.bucket, k, b)]
      <3>1. /\ PosOf(L.bucket, L.active) \in 1 .. Len(L.bucket) + 1
            /\ PosOf(L.bucket, L.active) + 1 \in 1 .. Len(L.bucket) + 1
        BY <2>2
      <3>2. CASE N = InsertToPrevious(L, b)
        BY <1>3, <3>1, <3>2 DEF InsertToPrevious
      <3>3. CASE N = InsertToNext(L, b)
        BY <1>3, <3>1, <3>3 DEF InsertToNext
      <3> QED
        BY <3>2, <3>3
    <2>4. PICK q : q = InsertAt(L.bucket, k, b)
      OBVIOUS
    <2>5. q \in Seq(Blocks) /\ IsInjective(q) /\ ToSet(q) = ToSet(L.bucket) \cup {b}
      BY <1>1, <2>4, Inserted
    <2>6. q # <<>>
      BY <2>5, SeqFacts
    <2>7. N = [L EXCEPT !.bucket = q]
      BY <2>3, <2>4
    <2>8. N.bucket = q /\ N.active = L.active /\ N.lastNext = L.lastNext
      BY <1>1, <2>7
    <2>9. N \in [bucket : Seq(Blocks), active : Blocks \cup {NoBlock}, lastNext : Blocks \cup {NoBlock}]
      BY <1>1, <2>5, <2>7
    <2>10. L.lastNext \in ToSet(L.bucket) \cup {NoBlock}
      BY DEF GoodLists
    <2> QED
      BY <2>1, <2>5, <2>6, <2>8, <2>9, <2>10 DEF GoodLists
  <1> QED
    BY <1>2, <1>3

LEMMA GoodActive ==
    ASSUME NEW L, GoodLists(L), NEW a \in ToSet(L.bucket), NEW N, N = [L EXCEPT !.active = a]
    PROVE  GoodLists(N) /\ N.bucket = L.bucket /\ N.lastNext = L.lastNext
  <1>1. L \in [bucket : Seq(Blocks), active : Blocks \cup {NoBlock}, lastNext : Blocks \cup {NoBlock}]
    BY DEF GoodLists
  <1>2. L.bucket \in Seq(Blocks)
    BY <1>1
  <1>3. a \in Blocks /\ L.bucket # <<>>
    BY <1>2, SeqFacts
  <1>4. N.bucket = L.bucket /\ N.lastNext = L.lastNext /\ N.active = a
    BY <1>1
  <1>5. N \in [bucket : Seq(Blocks), active : Blocks \cup {NoBlock}, lastNext : Blocks \cup {NoBlock}]
    BY <1>1, <1>3
  <1> QED
    BY <1>3, <1>4, <1>5 DEF GoodLists

(* Destruct goes through the blocks of the thread, each once.              *)
LEMMA AllDestructed ==
    ASSUME NEW t \in Threads, GoodLists(ListsOf(t)), bucket[t] # <<>>,
           NEW q, q = DestructOrder(t)
    PROVE  q \in Seq(Blocks) /\ IsInjective(q) /\ ToSet(q) = ToSet(bucket[t]) /\ q # <<>>
  <1>1. bucket[t] \in Seq(Blocks) /\ IsInjective(bucket[t]) /\ active[t] \in ToSet(bucket[t])
    BY DEF GoodLists, ListsOf
  <1>2. PICK s : s = bucket[t]
    OBVIOUS
  <1>3. PICK i : i = PosOf(s, active[t])
    OBVIOUS
  <1>4. i \in 0 .. Len(s) /\ s \in Seq(Blocks) /\ IsInjective(s)
    <2>1. PosOf(s, active[t]) \in 1 .. Len(s)
      BY <1>1, <1>2, PosIn
    <2> QED
      BY <1>1, <1>2, <1>3, <2>1
  <1>5. PICK a : a = SubSeq(s, 1, i)
    OBVIOUS
  <1>6. PICK z : z = SubSeq(s, i + 1, Len(s))
    OBVIOUS
  <1>7. /\ a \in Seq(Blocks) /\ IsInjective(a) /\ z \in Seq(Blocks) /\ IsInjective(z)
        /\ ToSet(a) \cap ToSet(z) = {} /\ ToSet(a) \cup ToSet(z) = ToSet(s)
    BY <1>4, <1>5, <1>6, CutInTwo
  <1>8. PICK r : r = Reverse(a)
    OBVIOUS
  <1>9. r \in Seq(Blocks) /\ IsInjective(r) /\ ToSet(r) = ToSet(a)
    BY <1>7, <1>8, Reversed
  <1>10. q = r \o z
    BY <1>2, <1>3, <1>5, <1>6, <1>8 DEF DestructOrder
  <1>11. q \in Seq(Blocks) /\ IsInjective(q) /\ ToSet(q) = ToSet(r) \cup ToSet(z)
    BY <1>7, <1>9, <1>10, Joined
  <1>12. ToSet(q) = ToSet(bucket[t])
    BY <1>2, <1>7, <1>9, <1>11
  <1> QED
    BY <1>1, <1>11, <1>12, SeqFacts

LEMMA HeadAndTail ==
    ASSUME NEW s \in Seq(Blocks), IsInjective(s), s # <<>>
    PROVE  /\ Head(s) \in Blocks /\ Head(s) = s[1] /\ Tail(s) \in Seq(Blocks) /\ IsInjective(Tail(s))
           /\ ToSet(Tail(s)) = ToSet(s) \ {Head(s)} /\ Head(s) \in ToSet(s)
           /\ Len(Tail(s)) = Len(s) - 1
           /\ \A i \in 1 .. Len(s) - 1 : Tail(s)[i] = s[i + 1]
  <1>1. /\ Len(s) \in Nat \ {0} /\ \A i \in 1 .. Len(s) : s[i] \in Blocks
        /\ \A i, j \in 1 .. Len(s) : s[i] = s[j] => i = j
        /\ ToSet(s) = {s[i] : i \in 1 .. Len(s)}
    BY SeqFacts
  <1>2. /\ Head(s) \in Blocks /\ Tail(s) \in Seq(Blocks) /\ Len(Tail(s)) = Len(s) - 1
        /\ \A i \in 1 .. Len(s) - 1 : Tail(s)[i] = s[i + 1]
    <2>1. /\ Head(s) \in Blocks /\ Tail(s) \in Seq(Blocks) /\ Len(Tail(s)) = Len(s) - 1
          /\ \A i \in 1 .. Len(Tail(s)) : Tail(s)[i] = s[i + 1]
      BY HeadTailProperties
    <2> QED
      BY <2>1
  <1>3. Head(s) = s[1]
    OBVIOUS
  <1>4. Tail(s) = SubSeq(s, 2, Len(s))
    BY TailIsSubSeq
  <1>5. IsInjective(Tail(s)) /\ ToSet(Tail(s)) = {s[i] : i \in 2 .. Len(s)}
    <2>1. 2 \in 1 .. Len(s) + 1 /\ Len(s) \in 2 - 1 .. Len(s)
      BY <1>1
    <2> QED
      BY <1>4, <2>1, Sliced
  <1>6. {s[i] : i \in 2 .. Len(s)} = ToSet(s) \ {s[1]}
    <2>1. 1 .. Len(s) = {1} \cup (2 .. Len(s))
      BY <1>1
    <2>2. \A i \in 2 .. Len(s) : s[i] # s[1]
      BY <1>1
    <2> QED
      BY <1>1, <2>1, <2>2
  <1>7. s[1] \in ToSet(s)
    BY <1>1
  <1> QED
    BY <1>2, <1>3, <1>5, <1>6, <1>7

-----------------------------------------------------------------------------
\* What a step leaves alone

\* The other threads are where they were; what they read may have become stale.
Others(t) ==
    \A u \in Threads \ {t} :
        /\ pc'[u] = pc[u]
        /\ bucket'[u] = bucket[u] /\ active'[u] = active[u] /\ lastNext'[u] = lastNext[u]
        /\ loc'[u].block = loc[u].block /\ loc'[u].full = loc[u].full
        /\ loc'[u].stage = loc[u].stage /\ loc'[u].taken = loc[u].taken
        /\ loc'[u].object = loc[u].object /\ loc'[u].stack = loc[u].stack
        /\ loc'[u].top = loc[u].top /\ loc'[u].next = loc[u].next
        /\ loc'[u].todo = loc[u].todo
        /\ loc'[u].fresh => loc[u].fresh

LEMMA OthersLists ==
    ASSUME ListsGood, NEW t \in Threads, Others(t), GoodThread(t)'
    PROVE  ListsGood'
  <1> SUFFICES ASSUME NEW u \in Threads PROVE GoodThread(u)'
    BY DEF ListsGood
  <1>1. CASE u = t
    BY <1>1
  <1>2. CASE u # t
    <2>1. /\ pc'[u] = pc[u] /\ bucket'[u] = bucket[u] /\ active'[u] = active[u]
          /\ lastNext'[u] = lastNext[u] /\ loc'[u].full = loc[u].full
          /\ loc'[u].block = loc[u].block /\ loc'[u].todo = loc[u].todo
      BY <1>2 DEF Others
    <2>2. ListsOf(u)' = ListsOf(u)
      BY <2>1 DEF ListsOf
    <2>3. GoodThread(u)
      BY DEF ListsGood
    <2>4. GoodLists(ListsOf(u))' <=> GoodLists(ListsOf(u))
      BY <2>2 DEF GoodLists
    <2> QED
      BY <2>1, <2>3, <2>4 DEF GoodThread
  <1> QED
    BY <1>1, <1>2

LEMMA OthersHold ==
    ASSUME NEW t \in Threads, Others(t), NEW u \in Threads \ {t}
    PROVE  InHand(u)' = InHand(u) /\ Kept(u)' = Kept(u) /\ \A b : Carried(u, b)' = Carried(u, b)
  <1>1. /\ pc'[u] = pc[u] /\ bucket'[u] = bucket[u] /\ loc'[u].block = loc[u].block
        /\ loc'[u].object = loc[u].object /\ loc'[u].taken = loc[u].taken
    BY DEF Others
  <1>2. InHand(u)' = InHand(u) /\ Kept(u)' = Kept(u)
    BY <1>1 DEF InHand, Kept
  <1>3. \A b : Carried(u, b)' = Carried(u, b)
    BY <1>1 DEF Carried
  <1> QED
    BY <1>2, <1>3

(* The blocks a thread keeps are mapped.                                   *)
LEMMA KeptIsMapped ==
    ASSUME TypeOK, BlocksKept, NEW t \in Threads, NEW b \in Kept(t)
    PROVE  b \in Blocks /\ b \in Mapped /\ block[b].mapped /\ block[b] \in Header
  <1>1. PICK Q \in [Stacks -> Seq(Blocks)] : OneKeeper(Q)
    BY DEF BlocksKept
  <1>2. b \in Mapped
    BY <1>1 DEF OneKeeper
  <1>3. b \in Blocks /\ block[b].mapped
    BY <1>2 DEF Mapped
  <1>4. block[b] \in Header \cup NoHeader
    BY <1>3 DEF TypeOK
  <1> QED
    BY <1>2, <1>3, <1>4 DEF NoHeader

LEMMA MappedHeader ==
    ASSUME TypeOK, NEW b \in Blocks
    PROVE  (b \in Mapped <=> block[b].mapped) /\ (b \in Mapped => block[b] \in Header)
  BY DEF TypeOK, Mapped, NoHeader, Header

LEMMA OthersElsewhere ==
    ASSUME BlocksKept, NEW t \in Threads, NEW u \in Threads \ {t}
    PROVE  Kept(t) \cap Kept(u) = {}
  BY DEF BlocksKept, OneKeeper

-----------------------------------------------------------------------------
\* Where the objects of a block are after a step

(* A step that does not touch the objects of block c leaves them placed.   *)
LEMMA PlacedSame ==
    ASSUME NEW t \in Threads, Others(t), NEW c \in Blocks, Placed(c),
           Program(c)' = Program(c), block'[c].mapped = block[c].mapped,
           c \in Mapped => SameObjects(block[c], block'[c]) /\ block'[c].public = block[c].public,
           Carried(t, c)' = Carried(t, c),
           pc[t] = "own_empty" /\ loc[t].block = c => pc'[t] = "own_empty" /\ loc'[t].block = c,
           pc'[t] = "own_empty" /\ loc'[t].block = c => block[c].allocated = 0
    PROVE  Placed(c)'
  <1>1. (c \in Mapped)' <=> c \in Mapped
    BY DEF Mapped
  <1>2. \A u \in Threads : Carried(u, c)' = Carried(u, c)
    BY OthersHold
  <1>3. CarriedAll(c)' = CarriedAll(c)
    BY <1>2 DEF CarriedAll
  <1>4. CASE c \notin Mapped
    BY <1>1, <1>3, <1>4 DEF Placed
  <1>5. CASE c \in Mapped
    <2>1. block'[c].public = block[c].public /\ Away(c)' = Away(c)
      BY <1>3, <1>5 DEF Away
    <2>2. Apart(c)'
      BY <1>2, <1>5, <2>1 DEF Placed, Apart
    <2>3. \A u \in Threads \ {t} : u \in At({"own_empty"}, c)' <=> u \in At({"own_empty"}, c)
      BY DEF Others, At
    <2>4. CASE At({"own_empty"}, c) = {} /\ At({"own_empty"}, c)' = {}
      <3>1. Right(block[c], Away(c))
        BY <1>5, <2>4 DEF Placed
      <3>2. Right(block'[c], Away(c))
        BY <1>5, <3>1, RightOfSame
      <3> QED
        BY <1>1, <1>5, <2>1, <2>2, <2>4, <3>2 DEF Placed
    <2>5. CASE At({"own_empty"}, c) = {} /\ At({"own_empty"}, c)' # {}
      <3>1. t \in At({"own_empty"}, c)'
        BY <2>3, <2>5 DEF At
      <3>2. block[c].allocated = 0
        BY <3>1 DEF At
      <3>3. Right(block[c], Away(c))
        BY <1>5, <2>5 DEF Placed
      <3>4. IsFiniteSet(Away(c)) /\ Cardinality(Away(c)) = 0
        BY <3>2, <3>3, RightFinite DEF Right
      <3>5. Away(c) = {}
        BY <3>4, FS_EmptySet
      <3> QED
        BY <1>1, <1>5, <2>1, <2>2, <2>5, <3>2, <3>5 DEF Placed, SameObjects
    <2>6. CASE At({"own_empty"}, c) # {}
      <3>1. At({"own_empty"}, c)' # {}
        <4>1. PICK u \in Threads : u \in At({"own_empty"}, c)
          BY <2>6 DEF At
        <4>2. u \in At({"own_empty"}, c)'
          BY <2>3, <4>1 DEF At
        <4> QED
          BY <4>2
      <3>2. Away(c) = {} /\ block[c].allocated = 0
        BY <1>5, <2>6 DEF Placed
      <3> QED
        BY <1>1, <1>5, <2>1, <2>2, <3>1, <3>2 DEF Placed, SameObjects
    <2> QED
      BY <2>4, <2>5, <2>6
  <1> QED
    BY <1>4, <1>5

(* The objects of block b that t moves are placed anew.                    *)
LEMMA PlacedMoved ==
    ASSUME NEW t \in Threads, Others(t), NEW b \in Blocks, Apart(b), NEW new, new \cap Away(b) = {},
           Program(b)' \cap block'[b].public = {},
           Carried(t, b)' \cap (Program(b)' \cup block'[b].public) = {},
           Program(b)' \cup block'[b].public \cup Carried(t, b)' \subseteq
               Program(b) \cup block[b].public \cup Carried(t, b) \cup new
    PROVE  /\ Apart(b)'
           /\ Away(b)' = (Away(b) \ (Program(b) \cup block[b].public \cup Carried(t, b)))
                            \cup Program(b)' \cup block'[b].public \cup Carried(t, b)'
  <1>1. \A u \in Threads \ {t} : Carried(u, b)' = Carried(u, b)
    BY OthersHold
  <1> DEFINE D == UNION {Carried(u, b) : u \in Threads \ {t}}
  <1>2. CarriedAll(b) = D \cup Carried(t, b)
    BY DEF CarriedAll
  <1>3. CarriedAll(b)' = D \cup Carried(t, b)'
    BY <1>1 DEF CarriedAll
  <1>4. D \cap (Program(b) \cup block[b].public \cup Carried(t, b)) = {}
    BY DEF Apart
  <1>5. \A u \in Threads \ {t} : Carried(u, b) \subseteq D
    OBVIOUS
  <1>6. D \cap new = {}
    BY <1>2 DEF Away
  <1> HIDE DEF D
  <1>7. D \cap (Program(b)' \cup block'[b].public \cup Carried(t, b)') = {}
    BY <1>4, <1>6
  <1>8. Apart(b)'
    <2>1. \A u \in Threads : Carried(u, b)' \cap (Program(b)' \cup block'[b].public) = {}
      BY <1>1, <1>5, <1>7
    <2>2. \A u, v \in Threads : u # v => Carried(u, b)' \cap Carried(v, b)' = {}
      <3> SUFFICES ASSUME NEW u \in Threads, NEW v \in Threads, u # v
                   PROVE  Carried(u, b)' \cap Carried(v, b)' = {}
        OBVIOUS
      <3>1. CASE u # t /\ v # t
        BY <1>1, <3>1 DEF Apart
      <3>2. CASE u = t
        BY <1>1, <1>5, <1>7, <3>2
      <3>3. CASE v = t
        BY <1>1, <1>5, <1>7, <3>3
      <3> QED
        BY <3>1, <3>2, <3>3
    <2> QED
      BY <2>1, <2>2 DEF Apart
  <1>9. Away(b) \ (Program(b) \cup block[b].public \cup Carried(t, b)) = D
    BY <1>2, <1>4 DEF Away
  <1> QED
    BY <1>3, <1>8, <1>9 DEF Away

(* Only blocks with no object away are about to be made anew.              *)
LEMMA AwayIsRight ==
    ASSUME NEW b \in Blocks, Placed(b), Away(b) # {} \/ At({"own_empty"}, b) = {}, b \in Mapped
    PROVE  Apart(b) /\ Right(block[b], Away(b)) /\ At({"own_empty"}, b) = {}
  BY DEF Placed

(* One thread at most makes a block anew, and it has it in hand.           *)
LEMMA HeldIsNotNew ==
    ASSUME BlocksKept, NEW t \in Threads, NEW b \in Kept(t), pc[t] # "own_empty"
    PROVE  At({"own_empty"}, b) = {}
  <1> SUFFICES ASSUME NEW u \in Threads, pc[u] = "own_empty", loc[u].block = b PROVE FALSE
    BY DEF At
  <1>1. b \in Kept(u) /\ u # t
    BY DEF Kept, InHand, InHands
  <1> QED
    BY <1>1, OthersElsewhere

(* The blocks that a step of t does not touch stay placed; b is seen to.   *)
LEMMA OnlyOneMoves ==
    ASSUME NEW t \in Threads, Others(t), ObjectsPlaced, NEW b \in Blocks, Placed(b)',
           \A c \in Blocks \ {b} :
              /\ block'[c] = block[c]
              /\ Program(c)' = Program(c)
              /\ Carried(t, c)' = Carried(t, c),
           pc[t] = "own_empty" => loc[t].block = b,
           pc'[t] = "own_empty" => loc'[t].block = b
    PROVE  ObjectsPlaced'
  <1> SUFFICES ASSUME NEW c \in Blocks PROVE Placed(c)'
    BY DEF ObjectsPlaced
  <1>1. CASE c = b
    BY <1>1
  <1>2. CASE c # b
    <2>1. /\ block'[c] = block[c] /\ Program(c)' = Program(c) /\ Carried(t, c)' = Carried(t, c)
          /\ Placed(c)
      BY <1>2 DEF ObjectsPlaced
    <2> QED
      BY <1>2, <2>1, PlacedSame DEF SameObjects
  <1> QED
    BY <1>1, <1>2

-----------------------------------------------------------------------------
\* Where the blocks are after a step

\* A thread that has taken an empty block and not counted it, or the converse.
Due(t) == IF pc[t] \in {"uncount", "push_empty"} THEN 1 ELSE 0
Uncounted == {t \in Threads : pc[t] \in {"uncount", "push_empty"}}

LEMMA DueCounts ==
    ASSUME NEW t \in Threads, Others(t)
    PROVE  /\ Cardinality(Uncounted) \in Int /\ Cardinality(Uncounted)' \in Int
           /\ Due(t) \in Int /\ Due(t)' \in Int
           /\ Cardinality(Uncounted)' = (Cardinality(Uncounted) - Due(t)) + Due(t)'
  <1>1. IsFiniteSet(Uncounted \ {t}) /\ IsFiniteSet(Uncounted)
    <2>1. Uncounted \subseteq Threads /\ Uncounted \ {t} \subseteq Threads
      BY DEF Uncounted
    <2> QED
      BY <2>1, BlockAllocatorAssumption, FS_Subset
  <1>2. PICK n \in Nat : n = Cardinality(Uncounted \ {t})
    BY <1>1, FS_CardinalityType
  <1>3. PICK W : W = Uncounted \ {t}
    OBVIOUS
  <1>4. (Uncounted \ {t})' = W
    BY <1>3 DEF Others, Uncounted
  <1>5. Cardinality(Uncounted) = n + Due(t)
    <2>1. CASE t \in Uncounted
      <3>1. Uncounted = W \cup {t} /\ t \notin W
        BY <1>3, <2>1
      <3>2. Cardinality(W \cup {t}) = Cardinality(W) + 1
        BY <1>1, <1>3, <3>1, FS_AddElement
      <3> QED
        BY <1>2, <1>3, <2>1, <3>1, <3>2 DEF Due, Uncounted
    <2>2. CASE t \notin Uncounted
      <3>1. Uncounted = W
        BY <1>3, <2>2
      <3> QED
        BY <1>2, <1>3, <2>2, <3>1 DEF Due, Uncounted
    <2> QED
      BY <2>1, <2>2
  <1>6. Cardinality(Uncounted)' = n + Due(t)'
    <2>1. CASE t \in Uncounted'
      <3>1. Uncounted' = W \cup {t} /\ t \notin W
        BY <1>4, <2>1
      <3>2. Cardinality(W \cup {t}) = Cardinality(W) + 1
        BY <1>1, <1>3, <3>1, FS_AddElement
      <3> QED
        BY <1>2, <1>3, <2>1, <3>1, <3>2 DEF Due, Uncounted
    <2>2. CASE t \notin Uncounted'
      <3>1. Uncounted' = W
        BY <1>4, <2>2
      <3>2. Due(t)' = 0
        BY <2>2 DEF Due, Uncounted
      <3>3. Cardinality(Uncounted)' = Cardinality(W)
        BY <3>1
      <3> QED
        BY <1>2, <1>3, <3>2, <3>3
    <2> QED
      BY <2>1, <2>2
  <1>7. Due(t) \in Int /\ Due(t)' \in Int
    BY DEF Due
  <1> QED
    BY <1>2, <1>5, <1>6, <1>7

(* A step that hands no block over.                                        *)
LEMMA KeepersStay ==
    ASSUME TypeOK, BlocksKept, NEW t \in Threads, Others(t), top' = top,
           Kept(t)' = Kept(t), ToSet(bucket'[t]) \cap InHand(t)' = {},
           \A b \in Blocks : block'[b].mapped = block[b].mapped,
           \A b \in Blocks \ Kept(t) :
              b \in Mapped => block'[b].next = block[b].next /\ block'[b].allocated = block[b].allocated,
           pc'[t] \in EmptyHands => block'[loc'[t].block].allocated = 0,
           emptyCount' = (emptyCount - Due(t)) + Due(t)'
    PROVE  BlocksKept'
  <1>1. PICK Q \in [Stacks -> Seq(Blocks)] : OneKeeper(Q) /\ EmptiesEmpty(Q) /\ EmptiesCounted(Q)
    BY DEF BlocksKept
  <1>2. /\ \A u \in Threads : Kept(u)' = Kept(u)
        /\ \A u \in Threads \ {t} : InHand(u)' = InHand(u) /\ bucket'[u] = bucket[u]
    BY OthersHold DEF Others
  <1>3. \A s \in Stacks : ToSet(Q[s]) \cap Kept(t) = {} /\ ToSet(Q[s]) \subseteq Mapped
    BY <1>1 DEF OneKeeper
  <1>m. Mapped' = Mapped
    BY DEF Mapped
  <1>4. OneKeeper(Q)'
    <2>1. \A s \in Stacks : IsStack(s, Q[s])'
      <3> SUFFICES ASSUME NEW s \in Stacks PROVE IsStack(s, Q[s])'
        OBVIOUS
      <3>1. PICK q \in Seq(Blocks) : q = Q[s]
        OBVIOUS
      <3>2. IsStack(s, q)
        BY <1>1, <3>1 DEF OneKeeper
      <3>3. \A i \in 1 .. Len(q) : q[i] \in Blocks \ Kept(t) /\ q[i] \in Mapped
        BY <1>3, <3>1, SeqFacts
      <3>4. \A i \in 1 .. Len(q) : block'[q[i]].mapped = block[q[i]].mapped /\ block'[q[i]].next = block[q[i]].next
        BY <3>3
      <3>5. IsStack(s, q)'
        BY <3>2, <3>4 DEF IsStack
      <3> QED
        BY <3>1, <3>5
    <2>2. \A u \in Threads : ToSet(bucket'[u]) \cap InHand(u)' = {}
      BY <1>1, <1>2 DEF OneKeeper
    <2> QED
      BY <1>1, <1>2, <1>m, <2>1, <2>2 DEF OneKeeper
  <1>5. EmptiesEmpty(Q)'
    <2>1. "empty" \in Stacks
      BY DEF Stacks
    <2>2. \A b \in ToSet(Q["empty"]) : block'[b].allocated = 0
      <3> SUFFICES ASSUME NEW b \in ToSet(Q["empty"]) PROVE block'[b].allocated = 0
        OBVIOUS
      <3>1. b \in Blocks \ Kept(t) /\ b \in Mapped
        BY <1>3, <2>1, SeqFacts
      <3> QED
        BY <1>1, <3>1 DEF EmptiesEmpty
    <2>3. \A u \in Threads \ {t} : pc'[u] \in EmptyHands => block'[loc'[u].block].allocated = 0
      <3> SUFFICES ASSUME NEW u \in Threads \ {t}, pc'[u] \in EmptyHands
                   PROVE  block'[loc'[u].block].allocated = 0
        OBVIOUS
      <3>1. pc[u] \in EmptyHands /\ loc'[u].block = loc[u].block
        BY DEF Others
      <3>2. loc[u].block \in Kept(u)
        BY <3>1 DEF Kept, InHand, InHands, EmptyHands
      <3>3. loc[u].block \in Blocks \ Kept(t) /\ loc[u].block \in Mapped
        BY <3>2, KeptIsMapped, OthersElsewhere
      <3> QED
        BY <1>1, <3>1, <3>3 DEF EmptiesEmpty
    <2> QED
      BY <2>2, <2>3 DEF EmptiesEmpty
  <1>6. EmptiesCounted(Q)'
    <2>1. Len(Q["empty"]) \in Int
      BY SeqFacts DEF Stacks
    <2>2. emptyCount = Len(Q["empty"]) + Cardinality(Uncounted)
      BY <1>1 DEF EmptiesCounted, Uncounted
    <2>3. emptyCount' = Len(Q["empty"]) + Cardinality(Uncounted)'
      BY <2>1, <2>2, DueCounts
    <2> QED
      BY <2>3 DEF EmptiesCounted, Uncounted
  <1> QED
    BY <1>1, <1>4, <1>5, <1>6 DEF BlocksKept

(* A stack with a block more on top.                                       *)
LEMMA StackPushed ==
    ASSUME NEW q \in Seq(Blocks), NEW s \in Stacks, IsStack(s, q), NEW b \in Blocks \ ToSet(q),
           top'[s] = b, b \in Mapped', block'[b].next = top[s],
           \A c \in ToSet(q) : block'[c] = block[c],
           NEW m, m = <<b>>, NEW r, r = m \o q
    PROVE  /\ IsStack(s, r)' /\ r \in Seq(Blocks) /\ ToSet(r) = ToSet(q) \cup {b}
           /\ Len(r) = Len(q) + 1
  <1>2. m \in Seq(Blocks) /\ IsInjective(m) /\ ToSet(m) = {b} /\ Len(m) = 1 /\ m[1] = b
    BY Single
  <1>3. Len(q) \in Nat /\ IsInjective(q) /\ \A i \in 1 .. Len(q) : q[i] \in ToSet(q)
    BY SeqFacts DEF IsStack
  <1>4. r \in Seq(Blocks) /\ IsInjective(r) /\ ToSet(r) = ToSet(m) \cup ToSet(q) /\ Len(r) = 1 + Len(q)
    <2>1. ToSet(m) \cap ToSet(q) = {}
      BY <1>2
    <2>2. r = m \o q /\ m \in Seq(Blocks) /\ q \in Seq(Blocks) /\ IsInjective(m) /\ IsInjective(q)
      BY <1>2, <1>3
    <2>3. r \in Seq(Blocks) /\ IsInjective(r) /\ ToSet(r) = ToSet(m) \cup ToSet(q) /\ Len(r) = Len(m) + Len(q)
      BY <2>1, <2>2, Joined, Zenon
    <2> QED
      BY <1>2, <2>3
  <1>5. r[1] = b /\ \A i \in 1 .. Len(q) : r[i + 1] = q[i]
    <2>1. \A i \in 1 .. Len(m) + Len(q) : r[i] = IF i <= Len(m) THEN m[i] ELSE q[i - Len(m)]
      BY <1>2, ConcatProperties
    <2>2. r[1] = b
      BY <1>2, <1>3, <2>1
    <2>3. ASSUME NEW i \in 1 .. Len(q) PROVE r[i + 1] = q[i]
      <3>1. i + 1 \in 1 .. Len(m) + Len(q) /\ ~(i + 1 <= Len(m)) /\ (i + 1) - Len(m) = i
        BY <1>2, <1>3
      <3> QED
        BY <2>1, <3>1
    <2> QED
      BY <2>2, <2>3
  <1>6. r # <<>>
    BY <1>4, <1>3, SeqFacts
  <1>7. \A i \in 1 .. Len(r) :
            block'[r[i]].mapped /\ block'[r[i]].next = IF i = Len(r) THEN NoBlock ELSE r[i + 1]
    <2> SUFFICES ASSUME NEW i \in 1 .. Len(r)
                 PROVE  block'[r[i]].mapped /\ block'[r[i]].next = IF i = Len(r) THEN NoBlock ELSE r[i + 1]
      OBVIOUS
    <2>1. CASE i = 1 /\ Len(q) = 0
      <3>1. q = <<>>
        BY <2>1, SeqFacts
      <3>2. top[s] = NoBlock
        BY <3>1 DEF IsStack
      <3> QED
        BY <1>4, <1>5, <2>1, <3>2 DEF Mapped
    <2>2. CASE i = 1 /\ Len(q) # 0
      <3>1. q # <<>> /\ 1 \in 1 .. Len(q)
        BY <1>3, <2>2, SeqFacts
      <3>2. top[s] = q[1] /\ r[1 + 1] = q[1]
        BY <1>5, <3>1 DEF IsStack
      <3> QED
        BY <1>3, <1>4, <1>5, <2>2, <3>2 DEF Mapped
    <2>3. CASE i # 1
      <3>1. PICK j \in 1 .. Len(q) : i = j + 1
        <4>1. i - 1 \in 1 .. Len(q) /\ i = (i - 1) + 1
          BY <1>3, <1>4, <2>3
        <4> QED
          BY <4>1
      <3>2. r[i] = q[j] /\ block'[q[j]] = block[q[j]]
        BY <1>3, <1>5, <3>1
      <3>3. block[q[j]].mapped /\ block[q[j]].next = IF j = Len(q) THEN NoBlock ELSE q[j + 1]
        BY DEF IsStack
      <3>4. (j = Len(q)) <=> (i = Len(r))
        BY <1>3, <1>4, <3>1
      <3>5. j # Len(q) => r[i + 1] = q[j + 1]
        <4> SUFFICES ASSUME j # Len(q) PROVE r[i + 1] = q[j + 1]
          OBVIOUS
        <4>1. j + 1 \in 1 .. Len(q) /\ i + 1 = (j + 1) + 1
          BY <1>3, <3>1
        <4> QED
          BY <1>5, <4>1
      <3> QED
        BY <3>2, <3>3, <3>4, <3>5
    <2> QED
      BY <1>3, <2>1, <2>2, <2>3
  <1>8. IsStack(s, r)'
    BY <1>4, <1>5, <1>6, <1>7 DEF IsStack
  <1>9. ToSet(r) = ToSet(q) \cup {b} /\ Len(r) = Len(q) + 1
    BY <1>2, <1>3, <1>4
  <1> QED
    BY <1>4, <1>8, <1>9

(* A stack without its top block.                                          *)
LEMMA StackPopped ==
    ASSUME NEW q \in Seq(Blocks), NEW s \in Stacks, IsStack(s, q), q # <<>>,
           top'[s] = block[q[1]].next, block' = block, NEW r, r = Tail(q)
    PROVE  IsStack(s, r)' /\ r \in Seq(Blocks) /\ ToSet(r) = ToSet(q) \ {q[1]} /\ Len(r) = Len(q) - 1
  <1>1. IsInjective(q) /\ Len(q) \in Nat \ {0}
    BY SeqFacts DEF IsStack
  <1>2. /\ r \in Seq(Blocks) /\ IsInjective(r) /\ ToSet(r) = ToSet(q) \ {q[1]} /\ Len(r) = Len(q) - 1
        /\ \A i \in 1 .. Len(q) - 1 : r[i] = q[i + 1]
    BY <1>1, HeadAndTail
  <1>3. top'[s] = IF r = <<>> THEN NoBlock ELSE r[1]
    <2>1. block[q[1]].next = IF 1 = Len(q) THEN NoBlock ELSE q[1 + 1]
      <3>1. 1 \in 1 .. Len(q)
        BY <1>1
      <3> QED
        BY <3>1 DEF IsStack
    <2>2. (r = <<>>) <=> (Len(q) = 1)
      BY <1>1, <1>2, SeqFacts
    <2>3. Len(q) # 1 => r[1] = q[1 + 1]
      BY <1>1, <1>2
    <2> QED
      BY <2>1, <2>2, <2>3
  <1>4. ASSUME NEW i \in 1 .. Len(r)
        PROVE  block'[r[i]].mapped /\ block'[r[i]].next = IF i = Len(r) THEN NoBlock ELSE r[i + 1]
    <2>1. i + 1 \in 1 .. Len(q) /\ i \in 1 .. Len(q) - 1 /\ ((i + 1 = Len(q)) <=> (i = Len(r)))
      BY <1>1, <1>2
    <2>2. block[q[i + 1]].mapped /\ block[q[i + 1]].next = IF i + 1 = Len(q) THEN NoBlock ELSE q[(i + 1) + 1]
      BY <2>1 DEF IsStack
    <2>3. i # Len(r) => r[i + 1] = q[(i + 1) + 1]
      <3> SUFFICES ASSUME i # Len(r) PROVE r[i + 1] = q[(i + 1) + 1]
        OBVIOUS
      <3>0. PICK n \in Nat \ {0} : n = Len(q)
        BY <1>1
      <3>1. i + 1 \in 1 .. Len(q) - 1
        <4>1. i \in 1 .. n - 1 /\ Len(r) = n - 1
          BY <1>2, <3>0
        <4>2. i + 1 \in 1 .. n - 1
          BY <4>1
        <4> QED
          BY <3>0, <4>2
      <3> QED
        BY <1>2, <3>1, Zenon
    <2> QED
      BY <1>2, <2>1, <2>2, <2>3
  <1> QED
    BY <1>2, <1>3, <1>4 DEF IsStack

(* A stack that a step does not touch.                                     *)
LEMMA StackStays ==
    ASSUME NEW q \in Seq(Blocks), NEW s \in Stacks, IsStack(s, q), top'[s] = top[s],
           \A c \in ToSet(q) : block'[c] = block[c]
    PROVE  IsStack(s, q)'
  <1>1. \A i \in 1 .. Len(q) : q[i] \in ToSet(q)
    BY SeqFacts
  <1> QED
    BY <1>1 DEF IsStack

(* A thread puts the block it has in hand on a stack.                      *)
LEMMA KeptPushed ==
    ASSUME TypeOK, BlocksKept, NEW t \in Threads, Others(t), NEW s \in Stacks, NEW b \in InHand(t),
           bucket'[t] = bucket[t], InHand(t)' = {}, top' = [top EXCEPT ![s] = b],
           block'[b].mapped, block'[b].next = top[s], block'[b].allocated = block[b].allocated,
           \A c \in Blocks \ {b} : block'[c] = block[c],
           IF s = "empty" THEN block[b].allocated = 0 /\ Due(t) = 1 ELSE Due(t) = 0,
           Due(t)' = 0, emptyCount' = emptyCount
    PROVE  BlocksKept'
  <1>1. PICK Q \in [Stacks -> Seq(Blocks)] : OneKeeper(Q) /\ EmptiesEmpty(Q) /\ EmptiesCounted(Q)
    BY DEF BlocksKept
  <1>2. \A u \in Threads \ {t} : Kept(u)' = Kept(u) /\ InHand(u)' = InHand(u) /\ bucket'[u] = bucket[u]
    BY OthersHold DEF Others
  <1>3. b \in Kept(t) /\ InHand(t) = {b}
    BY DEF Kept, InHand
  <1>4. b \in Blocks /\ b \in Mapped
    BY <1>3, KeptIsMapped
  <1>5. Kept(t)' = Kept(t) \ {b} /\ Kept(t) = ToSet(bucket[t]) \cup {b} /\ b \notin ToSet(bucket[t])
    BY <1>1, <1>3 DEF Kept, OneKeeper
  <1>m. PICK m : m = <<b>>
    OBVIOUS
  <1>6. PICK r : r = m \o Q[s]
    OBVIOUS
  <1>7. \A i \in Stacks : b \notin ToSet(Q[i]) /\ ToSet(Q[i]) \subseteq Blocks \ {b}
    BY <1>1, <1>3, SeqFacts DEF OneKeeper
  <1>8. IsStack(s, r)' /\ r \in Seq(Blocks) /\ ToSet(r) = ToSet(Q[s]) \cup {b} /\ Len(r) = Len(Q[s]) + 1
    <2>1. IsStack(s, Q[s]) /\ Q[s] \in Seq(Blocks)
      BY <1>1 DEF OneKeeper
    <2>2. top'[s] = b
      BY DEF TypeOK
    <2>3. \A c \in ToSet(Q[s]) : block'[c] = block[c]
      BY <1>7
    <2>4. PICK q \in Seq(Blocks) : q = Q[s]
      OBVIOUS
    <2>5. b \in Blocks \ ToSet(q) /\ r = m \o q /\ IsStack(s, q) /\ \A c \in ToSet(q) : block'[c] = block[c]
      BY <1>4, <1>6, <1>7, <2>1, <2>3, <2>4
    <2>6. /\ IsStack(s, r)' /\ r \in Seq(Blocks) /\ ToSet(r) = ToSet(q) \cup {b}
          /\ Len(r) = Len(q) + 1
      <3>1. b \in Mapped' /\ block'[b].next = top[s]
        BY <1>4 DEF Mapped
      <3>2. IsStack(s, r)' /\ r \in Seq(Blocks)
        BY <1>m, <2>2, <2>5, <3>1, StackPushed
      <3>3. ToSet(r) = ToSet(q) \cup {b}
        <4>1. IsInjective(q) /\ ToSet(q) \cap {b} = {}
          BY <2>5 DEF IsStack
        <4>2. m \in Seq(Blocks) /\ IsInjective(m) /\ ToSet(m) = {b}
          BY <1>4, <1>m, Single
        <4>d. ToSet(m) \cap ToSet(q) = {}
          BY <4>1, <4>2
        <4>e. r = m \o q
          BY <2>5
        <4>3. ToSet(r) = ToSet(m) \cup ToSet(q)
          BY <4>1, <4>2, <4>d, <4>e, Joined, Zenon
        <4> QED
          BY <4>2, <4>3
      <3>4. Len(r) = Len(q) + 1
        BY <1>m, <2>2, <2>5, <3>1, StackPushed
      <3> QED
        BY <3>2, <3>3, <3>4
    <2> QED
      BY <2>4, <2>6
  <1>9. PICK R \in [Stacks -> Seq(Blocks)] : R = [Q EXCEPT ![s] = r]
    BY <1>8
  <1>10. R[s] = r /\ \A i \in Stacks \ {s} : R[i] = Q[i]
    BY <1>9
  <1>11. Mapped' = Mapped
    <2>1. \A c \in Blocks : block'[c].mapped <=> block[c].mapped
      BY <1>4 DEF Mapped
    <2> QED
      BY <2>1 DEF Mapped
  <1>12. OneKeeper(R)'
    <2>1. \A i \in Stacks : IsStack(i, R[i])'
      <3> SUFFICES ASSUME NEW i \in Stacks PROVE IsStack(i, R[i])'
        OBVIOUS
      <3>1. CASE i = s
        BY <1>8, <1>10, <3>1
      <3>2. CASE i # s
        <4>1. top'[i] = top[i] /\ \A c \in ToSet(Q[i]) : block'[c] = block[c]
          BY <1>7, <3>2 DEF TypeOK
        <4>2. IsStack(i, Q[i]) /\ Q[i] \in Seq(Blocks)
          BY <1>1 DEF OneKeeper
        <4>3. IsStack(i, Q[i])'
          BY <4>1, <4>2, StackStays
        <4> QED
          BY <1>10, <3>2, <4>3
      <3> QED
        BY <3>1, <3>2
    <2>2. \A u \in Threads : ToSet(bucket'[u]) \cap InHand(u)' = {}
      BY <1>1, <1>2 DEF OneKeeper
    <2>3. \A u, v \in Threads : u # v => Kept(u)' \cap Kept(v)' = {}
      <3>1. \A u, v \in Threads : u # v => Kept(u) \cap Kept(v) = {}
        BY <1>1 DEF OneKeeper
      <3> QED
        BY <1>2, <1>5, <3>1
    <2>4. \A u \in Threads, i \in Stacks : Kept(u)' \cap ToSet(R[i]) = {}
      <3> SUFFICES ASSUME NEW u \in Threads, NEW i \in Stacks PROVE Kept(u)' \cap ToSet(R[i]) = {}
        OBVIOUS
      <3>1. Kept(u) \cap ToSet(Q[i]) = {} /\ (u # t => b \notin Kept(u))
        BY <1>1, <1>3 DEF OneKeeper
      <3>2. Kept(u)' \subseteq Kept(u) /\ b \notin Kept(u)'
        BY <1>2, <1>5, <3>1
      <3>3. ToSet(R[i]) \subseteq ToSet(Q[i]) \cup {b}
        BY <1>8, <1>10
      <3> QED
        BY <3>1, <3>2, <3>3
    <2>5. \A i, j \in Stacks : i # j => ToSet(R[i]) \cap ToSet(R[j]) = {}
      <3>1. \A i, j \in Stacks : i # j => ToSet(Q[i]) \cap ToSet(Q[j]) = {}
        BY <1>1 DEF OneKeeper
      <3> QED
        BY <1>7, <1>8, <1>10, <3>1
    <2>6. \A u \in Threads : Kept(u)' \subseteq Mapped'
      <3>1. \A u \in Threads : Kept(u) \subseteq Mapped
        BY <1>1 DEF OneKeeper
      <3> QED
        BY <1>2, <1>5, <1>11, <3>1
    <2>7. \A i \in Stacks : ToSet(R[i]) \subseteq Mapped'
      <3>1. \A i \in Stacks : ToSet(Q[i]) \subseteq Mapped
        BY <1>1 DEF OneKeeper
      <3> QED
        BY <1>4, <1>8, <1>10, <1>11, <3>1
    <2>8. \A c \in Mapped' : (\E u \in Threads : c \in Kept(u)') \/ (\E i \in Stacks : c \in ToSet(R[i]))
      <3> SUFFICES ASSUME NEW c \in Mapped
                   PROVE  (\E u \in Threads : c \in Kept(u)') \/ (\E i \in Stacks : c \in ToSet(R[i]))
        BY <1>11
      <3>1. CASE c = b
        BY <1>8, <1>10, <3>1
      <3>2. CASE c # b /\ \E u \in Threads : c \in Kept(u)
        BY <1>2, <1>5, <3>2
      <3>3. CASE \E i \in Stacks : c \in ToSet(Q[i])
        BY <1>8, <1>10, <3>3
      <3> QED
        BY <1>1, <3>1, <3>2, <3>3 DEF OneKeeper
    <2> QED
      BY <2>1, <2>2, <2>3, <2>4, <2>5, <2>6, <2>7, <2>8 DEF OneKeeper
  <1>13. EmptiesEmpty(R)'
    <2>1. ASSUME NEW c \in ToSet(R["empty"]) PROVE block'[c].allocated = 0
      <3>1. c \in ToSet(Q["empty"]) \/ (c = b /\ s = "empty")
        BY <1>8, <1>10 DEF Stacks
      <3>2. CASE c \in ToSet(Q["empty"])
        <4>1. c \in Blocks \ {b} /\ block[c].allocated = 0
          BY <1>1, <1>7, <3>2 DEF EmptiesEmpty, Stacks
        <4> QED
          BY <4>1
      <3> QED
        BY <3>1, <3>2
    <2>2. ASSUME NEW u \in Threads, pc'[u] \in EmptyHands PROVE block'[loc'[u].block].allocated = 0
      <3>1. u # t
        BY <2>2 DEF InHand, InHands, EmptyHands
      <3>2. pc[u] \in EmptyHands /\ loc'[u].block = loc[u].block
        BY <2>2, <3>1 DEF Others
      <3>3. loc[u].block \in Kept(u)
        BY <3>2 DEF Kept, InHand, InHands, EmptyHands
      <3>4. loc[u].block \in Blocks \ {b}
        BY <1>3, <3>1, <3>3, KeptIsMapped, OthersElsewhere
      <3> QED
        BY <1>1, <3>2, <3>4 DEF EmptiesEmpty
    <2> QED
      BY <2>1, <2>2 DEF EmptiesEmpty
  <1>14. EmptiesCounted(R)'
    <2>1. Len(Q["empty"]) \in Int /\ emptyCount = Len(Q["empty"]) + Cardinality(Uncounted)
      BY <1>1, SeqFacts DEF Stacks, EmptiesCounted, Uncounted
    <2>2. emptyCount' = Len(R["empty"]) + Cardinality(Uncounted)'
      <3>1. CASE s = "empty"
        <4>1. Len(R["empty"]) = Len(Q["empty"]) + 1
          BY <1>8, <1>10, <3>1
        <4> QED
          BY <2>1, <3>1, <4>1, DueCounts
      <3>2. CASE s # "empty"
        <4>1. Len(R["empty"]) = Len(Q["empty"])
          BY <1>10, <3>2 DEF Stacks
        <4> QED
          BY <2>1, <3>2, <4>1, DueCounts
      <3> QED
        BY <3>1, <3>2
    <2> QED
      BY <2>2 DEF EmptiesCounted, Uncounted
  <1> QED
    BY <1>9, <1>12, <1>13, <1>14 DEF BlocksKept

(* A thread takes the block on top of a stack.                             *)
LEMMA KeptPopped ==
    ASSUME TypeOK, BlocksKept, NEW t \in Threads, Others(t), NEW s \in Stacks, NEW b \in Blocks,
           top[s] = b, top' = [top EXCEPT ![s] = block[b].next], block' = block,
           bucket'[t] = bucket[t], InHand(t) = {}, InHand(t)' = {b}, loc'[t].block = b,
           IF s = "empty" THEN Due(t)' = 1 ELSE Due(t)' = 0 /\ pc'[t] \notin EmptyHands,
           Due(t) = 0, emptyCount' = emptyCount
    PROVE  BlocksKept'
  <1>1. PICK Q \in [Stacks -> Seq(Blocks)] : OneKeeper(Q) /\ EmptiesEmpty(Q) /\ EmptiesCounted(Q)
    BY DEF BlocksKept
  <1>2. \A u \in Threads \ {t} : Kept(u)' = Kept(u) /\ InHand(u)' = InHand(u) /\ bucket'[u] = bucket[u]
    BY OthersHold DEF Others
  <1>3. PICK q \in Seq(Blocks) : q = Q[s] /\ IsStack(s, q)
    BY <1>1 DEF OneKeeper
  <1>4. q # <<>> /\ q[1] = b /\ b \in ToSet(q)
    <2>1. q # <<>>
      BY <1>3, BlockAllocatorAssumption DEF IsStack, NoBlock
    <2>2. Len(q) \in Nat /\ Len(q) # 0
      BY <2>1, SeqFacts
    <2>3. 1 \in 1 .. Len(q) /\ q[1] = b
      BY <1>3, <2>1, <2>2 DEF IsStack
    <2> QED
      BY <2>1, <2>3, SeqFacts
  <1>5. \A u \in Threads : b \notin Kept(u)
    BY <1>1, <1>3, <1>4 DEF OneKeeper
  <1>6. Kept(t)' = Kept(t) \cup {b}
    BY DEF Kept
  <1>7. PICK r : r = Tail(q)
    OBVIOUS
  <1>8. IsStack(s, r)' /\ r \in Seq(Blocks) /\ ToSet(r) = ToSet(q) \ {b} /\ Len(r) = Len(q) - 1
    <2>1. top'[s] = block[q[1]].next
      BY <1>4 DEF TypeOK
    <2> QED
      BY <1>3, <1>4, <1>7, <2>1, StackPopped
  <1>9. PICK R \in [Stacks -> Seq(Blocks)] : R = [Q EXCEPT ![s] = r]
    BY <1>8
  <1>10. R[s] = r /\ \A i \in Stacks \ {s} : R[i] = Q[i]
    BY <1>9
  <1>11. Mapped' = Mapped /\ b \in Mapped
    BY <1>1, <1>3, <1>4 DEF Mapped, OneKeeper
  <1>12. OneKeeper(R)'
    <2>1. \A i \in Stacks : IsStack(i, R[i])'
      <3> SUFFICES ASSUME NEW i \in Stacks PROVE IsStack(i, R[i])'
        OBVIOUS
      <3>1. CASE i = s
        BY <1>8, <1>10, <3>1
      <3>2. CASE i # s
        <4>1. top'[i] = top[i]
          BY <3>2 DEF TypeOK
        <4>2. IsStack(i, Q[i]) /\ Q[i] \in Seq(Blocks)
          BY <1>1 DEF OneKeeper
        <4>3. IsStack(i, Q[i])'
          BY <4>1, <4>2, StackStays
        <4> QED
          BY <1>10, <3>2, <4>3
      <3> QED
        BY <3>1, <3>2
    <2>2. \A u \in Threads : ToSet(bucket'[u]) \cap InHand(u)' = {}
      <3>1. \A u \in Threads \ {t} : ToSet(bucket'[u]) \cap InHand(u)' = {}
        BY <1>1, <1>2 DEF OneKeeper
      <3>2. b \notin ToSet(bucket'[t])
        BY <1>5 DEF Kept
      <3> QED
        BY <3>1, <3>2
    <2>3. \A u, v \in Threads : u # v => Kept(u)' \cap Kept(v)' = {}
      <3>1. \A u, v \in Threads : u # v => Kept(u) \cap Kept(v) = {}
        BY <1>1 DEF OneKeeper
      <3> QED
        BY <1>2, <1>5, <1>6, <3>1, SMTT(30)
    <2>4. \A u \in Threads, i \in Stacks : Kept(u)' \cap ToSet(R[i]) = {}
      <3> SUFFICES ASSUME NEW u \in Threads, NEW i \in Stacks PROVE Kept(u)' \cap ToSet(R[i]) = {}
        OBVIOUS
      <3>1. Kept(u) \cap ToSet(Q[i]) = {} /\ (i # s => b \notin ToSet(Q[i]))
        BY <1>1, <1>3, <1>4 DEF OneKeeper
      <3>2. Kept(u)' \subseteq Kept(u) \cup {b}
        BY <1>2, <1>6
      <3>3. ToSet(R[i]) \subseteq ToSet(Q[i]) \ {b}
        BY <1>3, <1>8, <1>10, <3>1
      <3> QED
        BY <3>1, <3>2, <3>3
    <2>5. \A i, j \in Stacks : i # j => ToSet(R[i]) \cap ToSet(R[j]) = {}
      <3>1. \A i, j \in Stacks : i # j => ToSet(Q[i]) \cap ToSet(Q[j]) = {}
        BY <1>1 DEF OneKeeper
      <3>2. \A i \in Stacks : ToSet(R[i]) \subseteq ToSet(Q[i])
        BY <1>3, <1>8, <1>10
      <3> QED
        BY <3>1, <3>2
    <2>6. \A u \in Threads : Kept(u)' \subseteq Mapped'
      <3>1. \A u \in Threads : Kept(u) \subseteq Mapped
        BY <1>1 DEF OneKeeper
      <3> QED
        BY <1>2, <1>6, <1>11, <3>1
    <2>7. \A i \in Stacks : ToSet(R[i]) \subseteq Mapped'
      <3>1. \A i \in Stacks : ToSet(Q[i]) \subseteq Mapped
        BY <1>1 DEF OneKeeper
      <3> QED
        BY <1>3, <1>8, <1>10, <1>11, <3>1
    <2>8. \A c \in Mapped' : (\E u \in Threads : c \in Kept(u)') \/ (\E i \in Stacks : c \in ToSet(R[i]))
      <3> SUFFICES ASSUME NEW c \in Mapped
                   PROVE  (\E u \in Threads : c \in Kept(u)') \/ (\E i \in Stacks : c \in ToSet(R[i]))
        BY <1>11
      <3>1. CASE c = b
        BY <1>6, <3>1
      <3>2. CASE \E u \in Threads : c \in Kept(u)
        BY <1>2, <1>6, <3>2
      <3>3. CASE c # b /\ \E i \in Stacks : c \in ToSet(Q[i])
        BY <1>3, <1>8, <1>10, <3>3
      <3> QED
        BY <1>1, <3>1, <3>2, <3>3 DEF OneKeeper
    <2> QED
      BY <2>1, <2>2, <2>3, <2>4, <2>5, <2>6, <2>7, <2>8 DEF OneKeeper
  <1>13. EmptiesEmpty(R)'
    <2>1. \A c \in ToSet(R["empty"]) : block'[c].allocated = 0
      <3>1. ToSet(R["empty"]) \subseteq ToSet(Q["empty"])
        BY <1>3, <1>8, <1>10 DEF Stacks
      <3> QED
        BY <1>1, <3>1 DEF EmptiesEmpty
    <2>2. ASSUME NEW u \in Threads, pc'[u] \in EmptyHands PROVE block'[loc'[u].block].allocated = 0
      <3>1. CASE u = t
        <4>1. s = "empty"
          BY <2>2, <3>1
        <4> QED
          BY <1>1, <1>3, <1>4, <3>1, <4>1 DEF EmptiesEmpty
      <3>2. CASE u # t
        BY <1>1, <2>2, <3>2 DEF EmptiesEmpty, Others
      <3> QED
        BY <3>1, <3>2
    <2> QED
      BY <2>1, <2>2 DEF EmptiesEmpty
  <1>14. EmptiesCounted(R)'
    <2>1. Len(Q["empty"]) \in Int /\ emptyCount = Len(Q["empty"]) + Cardinality(Uncounted)
      BY <1>1, SeqFacts DEF Stacks, EmptiesCounted, Uncounted
    <2>2. emptyCount' = Len(R["empty"]) + Cardinality(Uncounted)'
      <3>1. CASE s = "empty"
        <4>1. Len(R["empty"]) = Len(Q["empty"]) - 1
          BY <1>3, <1>8, <1>10, <3>1
        <4> QED
          BY <2>1, <3>1, <4>1, DueCounts
      <3>2. CASE s # "empty"
        <4>1. Len(R["empty"]) = Len(Q["empty"])
          BY <1>10, <3>2 DEF Stacks
        <4> QED
          BY <2>1, <3>2, <4>1, DueCounts
      <3> QED
        BY <3>1, <3>2
    <2> QED
      BY <2>2 DEF EmptiesCounted, Uncounted
  <1> QED
    BY <1>9, <1>12, <1>13, <1>14 DEF BlocksKept

(* A step that changes what is mapped, in the hand of the thread.          *)
LEMMA KeptMapped ==
    ASSUME TypeOK, BlocksKept, NEW t \in Threads, Others(t), NEW b \in Blocks, b \notin Mapped,
           top' = top, bucket'[t] = bucket[t], InHand(t) = {}, InHand(t)' = {b}, loc'[t].block = b,
           b \in Mapped', block'[b].allocated = 0, \A c \in Blocks \ {b} : block'[c] = block[c],
           emptyCount' = emptyCount, Due(t) = 0, Due(t)' = 0
    PROVE  BlocksKept'
  <1>1. PICK Q \in [Stacks -> Seq(Blocks)] : OneKeeper(Q) /\ EmptiesEmpty(Q) /\ EmptiesCounted(Q)
    BY DEF BlocksKept
  <1>2. \A u \in Threads \ {t} : Kept(u)' = Kept(u) /\ InHand(u)' = InHand(u) /\ bucket'[u] = bucket[u]
    BY OthersHold DEF Others
  <1>3. (\A u \in Threads : b \notin Kept(u)) /\ \A s \in Stacks : b \notin ToSet(Q[s])
    BY <1>1 DEF OneKeeper
  <1>4. Kept(t)' = Kept(t) \cup {b}
    BY DEF Kept
  <1>5. Mapped' = Mapped \cup {b}
    <2>1. \A c \in Blocks \ {b} : c \in Mapped' <=> c \in Mapped
      BY DEF Mapped
    <2> QED
      BY <2>1 DEF Mapped
  <1>6. \A s \in Stacks : \A c \in ToSet(Q[s]) : c \in Blocks /\ block'[c] = block[c]
    BY <1>3, SeqFacts
  <1>7. OneKeeper(Q)'
    <2>1. \A i \in Stacks : IsStack(i, Q[i])'
      <3> SUFFICES ASSUME NEW i \in Stacks PROVE IsStack(i, Q[i])'
        OBVIOUS
      <3>1. IsStack(i, Q[i]) /\ Q[i] \in Seq(Blocks) /\ top'[i] = top[i]
        BY <1>1 DEF OneKeeper
      <3> QED
        BY <1>6, <3>1, StackStays
    <2>2. \A u \in Threads : ToSet(bucket'[u]) \cap InHand(u)' = {}
      <3>1. \A u \in Threads \ {t} : ToSet(bucket'[u]) \cap InHand(u)' = {}
        BY <1>1, <1>2 DEF OneKeeper
      <3>2. b \notin ToSet(bucket'[t])
        BY <1>3 DEF Kept
      <3> QED
        BY <3>1, <3>2
    <2>3. \A u, v \in Threads : u # v => Kept(u)' \cap Kept(v)' = {}
      <3>1. \A u, v \in Threads : u # v => Kept(u) \cap Kept(v) = {}
        BY <1>1 DEF OneKeeper
      <3> QED
        BY <1>2, <1>3, <1>4, <3>1
    <2>4. \A u \in Threads, i \in Stacks : Kept(u)' \cap ToSet(Q[i]) = {}
      <3>1. \A u \in Threads, i \in Stacks : Kept(u) \cap ToSet(Q[i]) = {}
        BY <1>1 DEF OneKeeper
      <3> QED
        BY <1>2, <1>3, <1>4, <3>1
    <2>5. \A u \in Threads : Kept(u)' \subseteq Mapped'
      <3>1. \A u \in Threads : Kept(u) \subseteq Mapped
        BY <1>1 DEF OneKeeper
      <3> QED
        BY <1>2, <1>4, <1>5, <3>1
    <2>6. \A i \in Stacks : ToSet(Q[i]) \subseteq Mapped'
      BY <1>1, <1>5 DEF OneKeeper
    <2>7. \A c \in Mapped' : (\E u \in Threads : c \in Kept(u)') \/ (\E i \in Stacks : c \in ToSet(Q[i]))
      <3> SUFFICES ASSUME NEW c \in Mapped \cup {b}
                   PROVE  (\E u \in Threads : c \in Kept(u)') \/ (\E i \in Stacks : c \in ToSet(Q[i]))
        BY <1>5
      <3>1. CASE c = b
        BY <1>4, <3>1
      <3>2. CASE \E u \in Threads : c \in Kept(u)
        BY <1>2, <1>4, <3>2
      <3> QED
        BY <1>1, <3>1, <3>2 DEF OneKeeper
    <2> QED
      BY <1>1, <2>1, <2>2, <2>3, <2>4, <2>5, <2>6, <2>7 DEF OneKeeper
  <1>8. EmptiesEmpty(Q)'
    <2>1. \A c \in ToSet(Q["empty"]) : block'[c].allocated = 0
      BY <1>1, <1>6 DEF EmptiesEmpty, Stacks
    <2>2. ASSUME NEW u \in Threads, pc'[u] \in EmptyHands PROVE block'[loc'[u].block].allocated = 0
      <3>1. CASE u = t
        BY <3>1
      <3>2. CASE u # t
        <4>1. pc[u] \in EmptyHands /\ loc'[u].block = loc[u].block
          BY <2>2, <3>2 DEF Others
        <4>2. loc[u].block \in Kept(u)
          BY <4>1 DEF Kept, InHand, InHands, EmptyHands
        <4>3. loc[u].block \in Blocks \ {b}
          BY <1>3, <4>2, KeptIsMapped
        <4> QED
          BY <1>1, <4>1, <4>3 DEF EmptiesEmpty
      <3> QED
        BY <3>1, <3>2
    <2> QED
      BY <2>1, <2>2 DEF EmptiesEmpty
  <1>9. EmptiesCounted(Q)'
    <2>1. Len(Q["empty"]) \in Int /\ emptyCount = Len(Q["empty"]) + Cardinality(Uncounted)
      BY <1>1, SeqFacts DEF Stacks, EmptiesCounted, Uncounted
    <2>2. emptyCount' = Len(Q["empty"]) + Cardinality(Uncounted)'
      BY <2>1, DueCounts
    <2> QED
      BY <2>2 DEF EmptiesCounted, Uncounted
  <1> QED
    BY <1>1, <1>7, <1>8, <1>9 DEF BlocksKept

LEMMA KeptUnmapped ==
    ASSUME TypeOK, BlocksKept, NEW t \in Threads, Others(t), NEW b \in InHand(t),
           top' = top, bucket'[t] = bucket[t], InHand(t)' = {}, b \notin Mapped',
           \A c \in Blocks \ {b} : block'[c] = block[c],
           emptyCount' = emptyCount, Due(t) = 0, Due(t)' = 0
    PROVE  BlocksKept'
  <1>1. PICK Q \in [Stacks -> Seq(Blocks)] : OneKeeper(Q) /\ EmptiesEmpty(Q) /\ EmptiesCounted(Q)
    BY DEF BlocksKept
  <1>2. \A u \in Threads \ {t} : Kept(u)' = Kept(u) /\ InHand(u)' = InHand(u) /\ bucket'[u] = bucket[u]
    BY OthersHold DEF Others
  <1>3. b \in Kept(t) /\ InHand(t) = {b}
    BY DEF Kept, InHand
  <1>4. /\ b \notin ToSet(bucket[t])
        /\ \A u \in Threads \ {t} : b \notin Kept(u)
        /\ \A s \in Stacks : b \notin ToSet(Q[s])
    BY <1>1, <1>3 DEF OneKeeper
  <1>5. Kept(t)' = Kept(t) \ {b} /\ Kept(t) = ToSet(bucket[t]) \cup {b}
    BY <1>3, <1>4 DEF Kept
  <1>6. Mapped' = Mapped \ {b}
    <2>1. \A c \in Blocks \ {b} : c \in Mapped' <=> c \in Mapped
      BY DEF Mapped
    <2> QED
      BY <2>1 DEF Mapped
  <1>7. \A s \in Stacks : \A c \in ToSet(Q[s]) : c \in Blocks /\ block'[c] = block[c]
    BY <1>4, SeqFacts
  <1>8. OneKeeper(Q)'
    <2>1. \A i \in Stacks : IsStack(i, Q[i])'
      <3> SUFFICES ASSUME NEW i \in Stacks PROVE IsStack(i, Q[i])'
        OBVIOUS
      <3>1. IsStack(i, Q[i]) /\ Q[i] \in Seq(Blocks) /\ top'[i] = top[i]
        BY <1>1 DEF OneKeeper
      <3> QED
        BY <1>7, <3>1, StackStays
    <2>2. \A u \in Threads : ToSet(bucket'[u]) \cap InHand(u)' = {}
      BY <1>1, <1>2 DEF OneKeeper
    <2>3. \A u, v \in Threads : u # v => Kept(u)' \cap Kept(v)' = {}
      <3>1. \A u, v \in Threads : u # v => Kept(u) \cap Kept(v) = {}
        BY <1>1 DEF OneKeeper
      <3> QED
        BY <1>2, <1>5, <3>1
    <2>4. \A u \in Threads, i \in Stacks : Kept(u)' \cap ToSet(Q[i]) = {}
      <3>1. \A u \in Threads, i \in Stacks : Kept(u) \cap ToSet(Q[i]) = {}
        BY <1>1 DEF OneKeeper
      <3> QED
        BY <1>2, <1>5, <3>1
    <2>5. \A u \in Threads : Kept(u)' \subseteq Mapped'
      <3>1. \A u \in Threads : Kept(u) \subseteq Mapped
        BY <1>1 DEF OneKeeper
      <3> QED
        BY <1>2, <1>4, <1>5, <1>6, <3>1
    <2>6. \A i \in Stacks : ToSet(Q[i]) \subseteq Mapped'
      BY <1>1, <1>4, <1>6 DEF OneKeeper
    <2>7. \A c \in Mapped' : (\E u \in Threads : c \in Kept(u)') \/ (\E i \in Stacks : c \in ToSet(Q[i]))
      <3> SUFFICES ASSUME NEW c \in Mapped \ {b}
                   PROVE  (\E u \in Threads : c \in Kept(u)') \/ (\E i \in Stacks : c \in ToSet(Q[i]))
        BY <1>6
      <3>1. CASE \E u \in Threads : c \in Kept(u)
        BY <1>2, <1>5, <3>1
      <3> QED
        BY <1>1, <3>1 DEF OneKeeper
    <2> QED
      BY <1>1, <2>1, <2>2, <2>3, <2>4, <2>5, <2>6, <2>7 DEF OneKeeper
  <1>9. EmptiesEmpty(Q)'
    <2>1. \A c \in ToSet(Q["empty"]) : block'[c].allocated = 0
      BY <1>1, <1>7 DEF EmptiesEmpty, Stacks
    <2>2. ASSUME NEW u \in Threads, pc'[u] \in EmptyHands PROVE block'[loc'[u].block].allocated = 0
      <3>1. u # t
        BY <2>2 DEF InHand, InHands, EmptyHands
      <3>2. pc[u] \in EmptyHands /\ loc'[u].block = loc[u].block
        BY <2>2, <3>1 DEF Others
      <3>3. loc[u].block \in Kept(u)
        BY <3>2 DEF Kept, InHand, InHands, EmptyHands
      <3>4. loc[u].block \in Blocks \ {b}
        BY <1>4, <3>1, <3>3, KeptIsMapped
      <3> QED
        BY <1>1, <3>2, <3>4 DEF EmptiesEmpty
    <2> QED
      BY <2>1, <2>2 DEF EmptiesEmpty
  <1>10. EmptiesCounted(Q)'
    <2>1. Len(Q["empty"]) \in Int /\ emptyCount = Len(Q["empty"]) + Cardinality(Uncounted)
      BY <1>1, SeqFacts DEF Stacks, EmptiesCounted, Uncounted
    <2>2. emptyCount' = Len(Q["empty"]) + Cardinality(Uncounted)'
      BY <2>1, DueCounts
    <2> QED
      BY <2>2 DEF EmptiesCounted, Uncounted
  <1> QED
    BY <1>1, <1>8, <1>9, <1>10 DEF BlocksKept

-----------------------------------------------------------------------------
\* Owners and stale reads after a step

LEMMA OwnersStay ==
    ASSUME TypeOK, BlocksKept, OwnersGood, NEW t \in Threads, Others(t),
           \A b \in Blocks \ Kept(t) : b \in Mapped =>
              block'[b].owner = block[b].owner /\ block'[b].thread = block[b].thread,
           \A b \in Mapped' : b \in Mapped \/ block'[b].thread = Nobody,
           \A b \in Kept(t) : b \in Mapped' => block'[b].thread \in {block[b].thread, t},
           \A b \in ToSet(bucket'[t]) : block'[b].owner = t /\ block'[b].thread = t,
           pc'[t] \notin Ending => \A b \in Mapped' : block'[b].thread = t => b \in ToSet(bucket'[t]),
           pc'[t] = "own_thread" => block'[loc'[t].block].owner = t
    PROVE  OwnersGood'
  <1>1. ASSUME NEW u \in Threads, NEW b \in ToSet(bucket'[u])
        PROVE  block'[b].owner = u /\ block'[b].thread = u
    <2>1. CASE u = t
      BY <2>1
    <2>2. CASE u # t
      <3>1. b \in ToSet(bucket[u])
        BY <2>2 DEF Others
      <3>2. b \in Kept(u)
        BY <3>1 DEF Kept
      <3>3. b \in Blocks \ Kept(t) /\ b \in Mapped
        BY <2>2, <3>2, KeptIsMapped, OthersElsewhere
      <3> QED
        BY <3>1, <3>3 DEF OwnersGood
    <2> QED
      BY <2>1, <2>2
  <1>2. ASSUME NEW u \in Threads, NEW b \in Mapped', block'[b].thread = u, pc'[u] \notin Ending
        PROVE  b \in ToSet(bucket'[u])
    <2>1. CASE u = t
      BY <1>2, <2>1
    <2>2. CASE u # t
      <3>1. b \in Mapped /\ b \in Blocks
        BY <1>2, BlockAllocatorAssumption DEF Nobody, Mapped
      <3>2. block[b].thread = u
        BY <1>2, <2>2, <3>1
      <3>3. pc[u] \notin Ending /\ bucket'[u] = bucket[u]
        BY <1>2, <2>2 DEF Others
      <3> QED
        BY <3>1, <3>2, <3>3 DEF OwnersGood
    <2> QED
      BY <2>1, <2>2
  <1>3. ASSUME NEW u \in Threads \ {t}, pc'[u] = "own_thread" PROVE block'[loc'[u].block].owner = u
    <2>1. pc[u] = "own_thread" /\ loc'[u].block = loc[u].block
      BY <1>3 DEF Others
    <2>2. loc[u].block \in Kept(u)
      BY <2>1 DEF Kept, InHand, InHands
    <2>3. loc[u].block \in Blocks \ Kept(t) /\ loc[u].block \in Mapped
      BY <2>2, KeptIsMapped, OthersElsewhere
    <2> QED
      BY <2>1, <2>3 DEF OwnersGood
  <1> QED
    BY <1>1, <1>2, <1>3 DEF OwnersGood

LEMMA ReadsStay ==
    ASSUME TypeOK, BlocksKept, ReadsFresh, NEW t \in Threads, Others(t), ReadIsFresh(t)',
           \A u \in Threads \ {t} : loc'[u].fresh => top'[loc[u].stack] = top[loc[u].stack],
           \A b \in Blocks \ Kept(t) : b \in Mapped => block'[b].next = block[b].next
    PROVE  ReadsFresh'
  <1> SUFFICES ASSUME NEW u \in Threads \ {t} PROVE ReadIsFresh(u)'
    BY DEF ReadsFresh
  <1>1. /\ pc'[u] = pc[u] /\ loc'[u].top = loc[u].top /\ loc'[u].next = loc[u].next
        /\ loc'[u].stack = loc[u].stack /\ (loc'[u].fresh => loc[u].fresh)
    BY DEF Others
  <1>2. ReadIsFresh(u)
    BY DEF ReadsFresh
  <1>3. ASSUME loc'[u].fresh PROVE block'[loc[u].top].next = block[loc[u].top].next
    <2>1. PICK s \in Stacks : s = loc[u].stack
      BY DEF TypeOK, Locals
    <2>2. loc[u].top \in Blocks /\ top[s] = loc[u].top
      BY <1>1, <1>2, <1>3, <2>1 DEF ReadIsFresh
    <2>3. PICK Q \in [Stacks -> Seq(Blocks)] : OneKeeper(Q)
      BY DEF BlocksKept
    <2>4. PICK q \in Seq(Blocks) : q = Q[s] /\ IsStack(s, q)
      BY <2>3 DEF OneKeeper
    <2>5. loc[u].top \in ToSet(q)
      <3>1. q # <<>>
        BY <2>2, <2>4, BlockAllocatorAssumption DEF IsStack, NoBlock
      <3>2. Len(q) \in Nat /\ Len(q) # 0
        BY <3>1, SeqFacts
      <3>3. 1 \in 1 .. Len(q) /\ q[1] = loc[u].top
        BY <2>2, <2>4, <3>1, <3>2 DEF IsStack
      <3> QED
        BY <3>3, SeqFacts
    <2>6. loc[u].top \in Mapped /\ loc[u].top \notin Kept(t)
      BY <2>3, <2>4, <2>5 DEF OneKeeper
    <2> QED
      BY <2>2, <2>6
  <1> QED
    BY <1>1, <1>2, <1>3 DEF ReadIsFresh

-----------------------------------------------------------------------------
\* A step of thread t

LEMMA NoLocalsTyped ==
    /\ NoLocals \in Locals /\ NoLocals.fresh = FALSE /\ NoLocals.full = NoBlock /\ NoLocals.todo = <<>>
    /\ NoLocals.block = NoBlock /\ NoLocals.taken = {} /\ NoLocals.stage = "walk"
  <1>1. <<>> \in Seq(Blocks)
    BY EmptySeq
  <1> QED
    BY <1>1, SlotsFacts DEF NoLocals, Locals, Stacks

\* Thread t is at p with the locals L, and the other threads are where they were.
Moved(t, p, L) ==
    /\ pc' = [pc EXCEPT ![t] = p] /\ p \in Places
    /\ loc' = [loc EXCEPT ![t] = L] /\ L \in Locals

LEMMA MovedOnly ==
    ASSUME TypeOK, NEW t \in Threads, NEW p, NEW L, Moved(t, p, L),
           NEW X \in [bucket : Seq(Blocks), active : Blocks \cup {NoBlock}, lastNext : Blocks \cup {NoBlock}],
           SetLists(t, X) \/ (X = ListsOf(t) /\ UNCHANGED lists)
    PROVE  /\ Others(t) /\ pc'[t] = p /\ loc'[t] = L
           /\ bucket'[t] = X.bucket /\ ListsOf(t)' = X
           /\ pc' \in [Threads -> Places] /\ loc' \in [Threads -> Locals]
           /\ bucket' \in [Threads -> Seq(Blocks)]
           /\ active' \in [Threads -> Blocks \cup {NoBlock}]
           /\ lastNext' \in [Threads -> Blocks \cup {NoBlock}]
           /\ \A u \in Threads \ {t} : loc'[u] = loc[u]
  <1>1. X = [bucket |-> X.bucket, active |-> X.active, lastNext |-> X.lastNext]
    OBVIOUS
  <1>2. /\ bucket' = [bucket EXCEPT ![t] = X.bucket]
        /\ active' = [active EXCEPT ![t] = X.active]
        /\ lastNext' = [lastNext EXCEPT ![t] = X.lastNext]
    <2>1. CASE SetLists(t, X)
      BY <2>1 DEF SetLists
    <2>2. CASE X = ListsOf(t) /\ UNCHANGED lists
      BY <2>2 DEF ListsOf, lists, TypeOK
    <2> QED
      BY <2>1, <2>2
  <1>3. /\ bucket'[t] = X.bucket /\ active'[t] = X.active /\ lastNext'[t] = X.lastNext
        /\ pc'[t] = p /\ loc'[t] = L
    BY <1>2 DEF TypeOK, Moved
  <1>4. /\ pc' \in [Threads -> Places] /\ loc' \in [Threads -> Locals]
        /\ bucket' \in [Threads -> Seq(Blocks)]
        /\ active' \in [Threads -> Blocks \cup {NoBlock}]
        /\ lastNext' \in [Threads -> Blocks \cup {NoBlock}]
    BY <1>2 DEF TypeOK, Moved
  <1>5. \A u \in Threads \ {t} :
            /\ pc'[u] = pc[u] /\ loc'[u] = loc[u] /\ bucket'[u] = bucket[u]
            /\ active'[u] = active[u] /\ lastNext'[u] = lastNext[u]
    BY <1>2 DEF TypeOK, Moved
  <1>6. Others(t)
    BY <1>5 DEF Others
  <1>7. ListsOf(t)' = X
    BY <1>1, <1>3 DEF ListsOf
  <1> QED
    BY <1>3, <1>4, <1>5, <1>6, <1>7

(* A step that writes the header of one block, and moves objects of that   *)
(* block only.                                                             *)
LEMMA BlockStep ==
    ASSUME KeepInv, NEW t \in Threads, TypeOK', Others(t),
           NEW b \in Mapped, NEW C \in Header, block' = [block EXCEPT ![b] = C],
           top' = top, emptyCount' = (emptyCount - Due(t)) + Due(t)',
           Kept(t)' = Kept(t), ToSet(bucket'[t]) \cap InHand(t)' = {},
           GoodThread(t)', ReadIsFresh(t)', Placed(b)',
           C.next = block[b].next, C.thread \in {block[b].thread, t},
           b \in Kept(t) \/ (C.owner = block[b].owner /\ C.thread = block[b].thread
                                /\ C.allocated = block[b].allocated),
           pc'[t] \in EmptyHands => block'[loc'[t].block].allocated = 0,
           \A c \in ToSet(bucket'[t]) : block'[c].owner = t /\ block'[c].thread = t,
           pc'[t] \notin Ending => \A c \in Mapped : block'[c].thread = t => c \in ToSet(bucket'[t]),
           pc'[t] = "own_thread" => block'[loc'[t].block].owner = t,
           \A c \in Blocks \ {b} : Program(c)' = Program(c) /\ Carried(t, c)' = Carried(t, c),
           pc[t] = "own_empty" => loc[t].block = b,
           pc'[t] = "own_empty" => loc'[t].block = b
    PROVE  KeepInv'
  <1>0. TypeOK /\ ListsGood /\ BlocksKept /\ OwnersGood /\ ReadsFresh /\ ObjectsPlaced
    BY DEF KeepInv
  <1>1. b \in Blocks /\ block[b].mapped = TRUE /\ block[b] \in Header /\ C.mapped = TRUE
    BY <1>0, MappedHeader DEF Mapped, Header
  <1>2. block'[b] = C /\ \A c \in Blocks \ {b} : block'[c] = block[c]
    BY <1>0, <1>1 DEF TypeOK
  <1>3. \A c \in Blocks : block'[c].mapped = block[c].mapped
    BY <1>1, <1>2
  <1>4. Mapped' = Mapped
    BY <1>3 DEF Mapped
  <1>5. ListsGood'
    BY <1>0, OthersLists
  <1>6. BlocksKept'
    <2>1. \A c \in Blocks \ Kept(t) :
              c \in Mapped => block'[c].next = block[c].next /\ block'[c].allocated = block[c].allocated
      BY <1>2
    <2> QED
      BY <1>0, <1>3, <2>1, KeepersStay
  <1>7. OwnersGood'
    <2>1. \A c \in Blocks \ Kept(t) : c \in Mapped =>
              block'[c].owner = block[c].owner /\ block'[c].thread = block[c].thread
      BY <1>2
    <2>2. \A c \in Kept(t) : c \in Mapped' => block'[c].thread \in {block[c].thread, t}
      BY <1>2 DEF Mapped
    <2> QED
      BY <1>0, <1>4, <2>1, <2>2, OwnersStay
  <1>8. ReadsFresh'
    <2>1. \A c \in Blocks \ Kept(t) : c \in Mapped => block'[c].next = block[c].next
      BY <1>2
    <2> QED
      BY <1>0, <2>1, ReadsStay
  <1>9. ObjectsPlaced'
    BY <1>0, <1>1, <1>2, OnlyOneMoves
  <1> QED
    BY <1>5, <1>6, <1>7, <1>8, <1>9 DEF KeepInv

(* A step that writes to no block and moves no object.                     *)
LEMMA QuietStep ==
    ASSUME KeepInv, NEW t \in Threads, TypeOK', Others(t), block' = block, held' = held,
           top' = top, emptyCount' = (emptyCount - Due(t)) + Due(t)',
           bucket'[t] = bucket[t], InHand(t)' = InHand(t),
           GoodThread(t)', ReadIsFresh(t)',
           pc'[t] \in EmptyHands => block[loc'[t].block].allocated = 0,
           pc'[t] \notin Ending => pc[t] \notin Ending,
           \A c \in Blocks : Carried(t, c)' = Carried(t, c),
           pc[t] # "own_empty", pc'[t] # "own_thread"
    PROVE  KeepInv'
  <1>0. TypeOK /\ ListsGood /\ BlocksKept /\ OwnersGood /\ ReadsFresh /\ ObjectsPlaced
    BY DEF KeepInv
  <1>1. Mapped' = Mapped
    BY DEF Mapped
  <1>2. ListsGood'
    BY <1>0, OthersLists
  <1>3. BlocksKept'
    <2>1. Kept(t)' = Kept(t)
      BY DEF Kept
    <2>2. ToSet(bucket'[t]) \cap InHand(t)' = {}
      BY <1>0 DEF BlocksKept, OneKeeper
    <2> QED
      BY <1>0, <2>1, <2>2, KeepersStay
  <1>4. OwnersGood'
    <2>1. \A c \in ToSet(bucket'[t]) : block'[c].owner = t /\ block'[c].thread = t
      BY <1>0 DEF OwnersGood
    <2>2. pc'[t] \notin Ending => \A c \in Mapped' : block'[c].thread = t => c \in ToSet(bucket'[t])
      BY <1>0, <1>1 DEF OwnersGood
    <2> QED
      BY <1>0, <1>1, <2>1, <2>2, OwnersStay
  <1>5. ReadsFresh'
    BY <1>0, ReadsStay
  <1>6. ObjectsPlaced'
    <2> SUFFICES ASSUME NEW c \in Blocks PROVE Placed(c)'
      BY DEF ObjectsPlaced
    <2>1. Program(c)' = Program(c) /\ Placed(c)
      BY <1>0 DEF Program, InUse, ObjectsPlaced
    <2>2. pc'[t] = "own_empty" /\ loc'[t].block = c => block[c].allocated = 0
      BY DEF EmptyHands
    <2> QED
      BY <2>1, <2>2, PlacedSame DEF SameObjects
  <1> QED
    BY <1>2, <1>3, <1>4, <1>5, <1>6 DEF KeepInv

\* What ObjectPool allows of a step.
PoolStep ==
    \/ held' = held
    \/ \E x \in Objects :
          \/ held[x] = 0 /\ held' = [held EXCEPT ![x] = 1]
          \/ held[x] = 1 /\ held' = [held EXCEPT ![x] = 0]

ListRecord == [bucket : Seq(Blocks), active : Blocks \cup {NoBlock}, lastNext : Blocks \cup {NoBlock}]

LEMMA ThreadFacts ==
    ASSUME KeepInv, NEW t \in Threads
    PROVE  /\ TypeOK /\ GoodThread(t) /\ ReadIsFresh(t)
           /\ loc[t] \in Locals /\ pc[t] \in Places /\ ListsOf(t) \in ListRecord
           /\ ListsOf(t).bucket = bucket[t]
           /\ bucket[t] \in Seq(Blocks) /\ ToSet(bucket[t]) \subseteq Blocks
  <1>1. bucket[t] \in Seq(Blocks) /\ ListsOf(t) \in ListRecord /\ ListsOf(t).bucket = bucket[t]
    BY DEF KeepInv, TypeOK, ListsOf, ListRecord
  <1> QED
    BY <1>1, SeqFacts DEF KeepInv, TypeOK, ListsGood, ReadsFresh

LEMMA QuietMove ==
    ASSUME KeepInv, NEW t \in Threads, NEW p, NEW L, Moved(t, p, L),
           NEW X \in ListRecord, SetLists(t, X) \/ (X = ListsOf(t) /\ UNCHANGED lists),
           X.bucket = bucket[t], p \notin Ending => GoodLists(X),
           UNCHANGED <<block, top, held>>,
           emptyCount' = (emptyCount - Due(t)) + (IF p \in {"uncount", "push_empty"} THEN 1 ELSE 0),
           pc[t] \notin {"publish", "count", "lose", "own_empty"},
           p \notin {"publish", "tally", "count", "lose", "own_thread"},
           (IF p \in InHands THEN {L.block} ELSE {}) = InHand(t),
           p \notin Ending => L.full \in ToSet(bucket[t]) \cup {NoBlock} /\ pc[t] \notin Ending,
           p \in AtWork => L.block \in ToSet(bucket[t]),
           p \in Ending => ToSet(L.todo) \subseteq ToSet(bucket[t]) \ {L.block} /\ IsInjective(L.todo),
           p \in {"pop_next", "pop_cas"} => L.top \in Blocks,
           L.fresh => /\ p \in {"pop_next", "pop_cas"} /\ top[L.stack] = L.top
                      /\ p = "pop_cas" => L.next = block[L.top].next,
           p \in EmptyHands => block[L.block].allocated = 0
    PROVE  KeepInv' /\ PoolStep
  <1>0. TypeOK /\ GoodThread(t)
    BY ThreadFacts
  <1>1. /\ Others(t) /\ pc'[t] = p /\ loc'[t] = L
        /\ bucket'[t] = X.bucket /\ ListsOf(t)' = X
        /\ pc' \in [Threads -> Places] /\ loc' \in [Threads -> Locals]
        /\ bucket' \in [Threads -> Seq(Blocks)]
        /\ active' \in [Threads -> Blocks \cup {NoBlock}]
        /\ lastNext' \in [Threads -> Blocks \cup {NoBlock}]
    BY <1>0, MovedOnly DEF ListRecord
  <1>2. Due(t)' = IF p \in {"uncount", "push_empty"} THEN 1 ELSE 0
    BY <1>1 DEF Due
  <1>3. emptyCount' = (emptyCount - Due(t)) + Due(t)' /\ emptyCount' \in Int
    BY <1>0, <1>2, <1>1, DueCounts DEF TypeOK
  <1>4. TypeOK'
    BY <1>0, <1>1, <1>3 DEF TypeOK
  <1>5. InHand(t)' = InHand(t)
    BY <1>1 DEF InHand
  <1>6. GoodThread(t)'
    <2>1. GoodLists(X) => GoodLists(ListsOf(t))'
      BY <1>1 DEF GoodLists
    <2> QED
      BY <1>0, <1>1, <2>1 DEF GoodThread
  <1>7. ReadIsFresh(t)'
    BY <1>1 DEF ReadIsFresh
  <1>8. \A c \in Blocks : Carried(t, c)' = Carried(t, c)
    BY <1>1 DEF Carried
  <1>9. KeepInv'
    BY <1>1, <1>3, <1>4, <1>5, <1>6, <1>7, <1>8, QuietStep
  <1> QED
    BY <1>9 DEF PoolStep

LEMMA PopTopKeeps ==
    ASSUME KeepInv, NEW t \in Threads, PopTop(t)
    PROVE  KeepInv' /\ PoolStep
  <1>0. /\ TypeOK /\ GoodThread(t) /\ ReadIsFresh(t) /\ loc[t] \in Locals
        /\ ListsOf(t) \in ListRecord /\ ListsOf(t).bucket = bucket[t] /\ pc[t] = "pop"
    BY ThreadFacts DEF PopTop
  <1>1. PICK s \in Stacks : s = loc[t].stack
    BY <1>0 DEF Locals
  <1>2. /\ GoodLists(ListsOf(t)) /\ loc[t].full \in ToSet(bucket[t]) \cup {NoBlock} /\ loc[t].fresh = FALSE
    BY <1>0 DEF GoodThread, ReadIsFresh, Ending, Locals
  <1>3. Due(t) = 0 /\ InHand(t) = {}
    BY <1>0 DEF Due, InHand, InHands
  <1>4. /\ UNCHANGED lists /\ UNCHANGED <<block, top, held>> /\ emptyCount' = (emptyCount - Due(t)) + 0
    BY <1>0, <1>3 DEF PopTop, store, lists, TypeOK
  <1>5. CASE top[s] # NoBlock
    <2>1. PICK L \in Locals : L = [loc[t] EXCEPT !.top = top[s], !.fresh = TRUE]
      BY <1>0, <1>1 DEF Locals, TypeOK
    <2>2. L.top = top[s] /\ L.full = loc[t].full /\ L.stack = s
      BY <1>0, <1>1, <2>1 DEF Locals
    <2>3. loc' = [loc EXCEPT ![t] = L] /\ pc' = [pc EXCEPT ![t] = "pop_next"]
      BY <1>0, <1>1, <1>5, <2>1 DEF PopTop, GoTo, TypeOK
    <2>4. Moved(t, "pop_next", L)
      BY <2>3 DEF Moved, Places
    <2>5. top[s] \in Blocks
      BY <1>0, <1>5 DEF TypeOK
    <2> QED
      BY <1>0, <1>2, <1>3, <1>4, <2>2, <2>4, <2>5, QuietMove DEF InHands, AtWork, Ending, EmptyHands
  <1>6. CASE top[s] = NoBlock /\ s = "nonempty"
    <2>1. PICK L \in Locals : L = [loc[t] EXCEPT !.stack = "empty"]
      BY <1>0 DEF Locals, Stacks
    <2>2. L.full = loc[t].full /\ L.fresh = FALSE
      BY <1>0, <1>2, <2>1 DEF Locals
    <2>3. loc' = [loc EXCEPT ![t] = L] /\ pc' = [pc EXCEPT ![t] = "pop"]
      BY <1>0, <1>1, <1>6, <2>1 DEF PopTop, GoTo, TypeOK
    <2>4. Moved(t, "pop", L)
      BY <2>3 DEF Moved, Places
    <2> QED
      BY <1>0, <1>2, <1>3, <1>4, <2>2, <2>4, QuietMove DEF InHands, AtWork, Ending, EmptyHands
  <1>7. CASE top[s] = NoBlock /\ s # "nonempty"
    <2>3. loc' = [loc EXCEPT ![t] = loc[t]] /\ pc' = [pc EXCEPT ![t] = "map"]
      BY <1>0, <1>1, <1>7 DEF PopTop, GoTo, TypeOK
    <2>4. Moved(t, "map", loc[t])
      BY <1>0, <2>3 DEF Moved, Places
    <2> QED
      BY <1>0, <1>2, <1>3, <1>4, <2>4, QuietMove DEF InHands, AtWork, Ending, EmptyHands
  <1> QED
    BY <1>5, <1>6, <1>7

(* The scan looks at blocks of the thread only.                            *)
LEMMA GreatestIsIn ==
    ASSUME NEW n \in Nat, NEW T \in SUBSET (0 .. n), T # {}
    PROVE  Max(T) \in T
  <1> DEFINE U == {n - x : x \in T}
  <1>1. U \in SUBSET Nat /\ U # {}
    <2>1. \A x \in T : n - x \in Nat
      OBVIOUS
    <2>2. PICK x \in T : TRUE
      OBVIOUS
    <2>3. n - x \in U
      OBVIOUS
    <2> QED
      BY <2>1, <2>3
  <1>2. PICK y \in U : \A z \in U : y <= z
    BY <1>1, LeastIsIn
  <1>3. PICK x \in T : y = n - x
    BY <1>2
  <1>4. \A z \in T : z <= x
    <2> SUFFICES ASSUME NEW z \in T PROVE z <= x
      OBVIOUS
    <2>1. n - z \in U
      OBVIOUS
    <2> QED
      BY <1>2, <1>3, <2>1
  <1> QED
    BY <1>4 DEF Max

LEMMA ScanRangeIn ==
    ASSUME NEW t \in Threads, bucket[t] \in Seq(Blocks), GoodLists(ListsOf(t)),
           loc[t].full \in ToSet(bucket[t]) \cup {NoBlock}
    PROVE  /\ ScanRange(t) \subseteq 1 .. Len(bucket[t])
           /\ ScanRange(t) # {} => Max(ScanRange(t)) \in 1 .. Len(bucket[t])
           /\ ScanHits(t) # {} => Min(ScanHits(t)) \in ScanHits(t)
  <1>1. PICK s \in Seq(Blocks) : s = bucket[t]
    OBVIOUS
  <1>2. Len(s) \in Nat
    BY SeqFacts
  <1>3. ScanStart(t) \in ToSet(s) \cup {NoBlock}
    <2>1. lastNext[t] \in ToSet(s) \cup {NoBlock}
      BY <1>1 DEF GoodLists, ListsOf
    <2> QED
      BY <1>1, <2>1, NeighboursIn DEF ScanStart
  <1>4. ScanRange(t) \subseteq 1 .. Len(s)
    <2>1. CASE ScanStart(t) = NoBlock
      BY <2>1 DEF ScanRange
    <2>2. CASE ScanStart(t) # NoBlock
      <3>1. PICK f \in 1 .. Len(s) : f = PosOf(s, ScanStart(t))
        BY <1>3, <2>2, PosIn
      <3>2. PICK m \in Nat : m = f + Scanned - 1
        BY <1>2, BlockAllocatorAssumption
      <3>3. Min({Len(s), m}) \in {Len(s), m} /\ \A y \in {Len(s), m} : Min({Len(s), m}) <= y
        <4>1. {Len(s), m} \in SUBSET Nat /\ {Len(s), m} # {}
          BY <1>2
        <4> QED
          BY <4>1, LeastIsIn
      <3>4. ScanRange(t) = f .. Min({Len(s), m})
        BY <1>1, <2>2, <3>1, <3>2 DEF ScanRange
      <3> QED
        BY <1>2, <3>3, <3>4
    <2> QED
      BY <2>1, <2>2
  <1>5. ScanRange(t) # {} => Max(ScanRange(t)) \in 1 .. Len(s)
    <2>1. ScanRange(t) \in SUBSET (0 .. Len(s))
      BY <1>2, <1>4
    <2> QED
      BY <1>2, <1>4, <2>1, GreatestIsIn
  <1>6. ScanHits(t) # {} => Min(ScanHits(t)) \in ScanHits(t)
    <2>1. ScanHits(t) \in SUBSET Nat
      BY <1>2, <1>4 DEF ScanHits
    <2> QED
      BY <2>1, LeastIsIn
  <1> QED
    BY <1>1, <1>4, <1>5, <1>6

LEMMA PopNextKeeps ==
    ASSUME KeepInv, NEW t \in Threads, PopNext(t)
    PROVE  KeepInv' /\ PoolStep
  <1>0. /\ TypeOK /\ GoodThread(t) /\ ReadIsFresh(t) /\ loc[t] \in Locals
        /\ ListsOf(t) \in ListRecord /\ ListsOf(t).bucket = bucket[t] /\ pc[t] = "pop_next"
    BY ThreadFacts DEF PopNext
  <1>1. loc[t].top \in Blocks /\ block[loc[t].top].mapped /\ (loc[t].fresh => top[loc[t].stack] = loc[t].top)
    BY <1>0 DEF ReadIsFresh, PopNext
  <1>2. GoodLists(ListsOf(t)) /\ loc[t].full \in ToSet(bucket[t]) \cup {NoBlock}
    BY <1>0 DEF GoodThread, Ending
  <1>3. Due(t) = 0 /\ InHand(t) = {}
    BY <1>0 DEF Due, InHand, InHands
  <1>4. /\ UNCHANGED lists /\ UNCHANGED <<block, top, held>> /\ emptyCount' = (emptyCount - Due(t)) + 0
    BY <1>0, <1>3 DEF PopNext, store, lists, TypeOK
  <1>5. block[loc[t].top] \in Header
    BY <1>0, <1>1, MappedHeader
  <1>6. PICK n \in Blocks \cup {NoBlock} : n = block[loc[t].top].next
    BY <1>5 DEF Header
  <1>7. PICK L \in Locals : L = [loc[t] EXCEPT !.next = n]
    BY <1>0 DEF Locals
  <1>8. /\ L.top = loc[t].top /\ L.full = loc[t].full /\ L.stack = loc[t].stack /\ L.next = n
        /\ L.fresh = loc[t].fresh
    BY <1>0, <1>7 DEF Locals
  <1>9. Moved(t, "pop_cas", L)
    BY <1>0, <1>6, <1>7 DEF PopNext, GoTo, TypeOK, Moved, Places
  <1> QED
    BY <1>0, <1>1, <1>2, <1>3, <1>4, <1>6, <1>8, <1>9, QuietMove DEF InHands, AtWork, Ending, EmptyHands

LEMMA PopFailsKeeps ==
    ASSUME KeepInv, NEW t \in Threads, PopFails(t)
    PROVE  KeepInv' /\ PoolStep
  <1>0. /\ TypeOK /\ GoodThread(t) /\ ReadIsFresh(t) /\ loc[t] \in Locals
        /\ ListsOf(t) \in ListRecord /\ ListsOf(t).bucket = bucket[t]
        /\ pc[t] = "pop_cas" /\ loc[t].fresh = FALSE
    BY ThreadFacts DEF PopFails, CasPasses, Locals
  <1>1. GoodLists(ListsOf(t)) /\ loc[t].full \in ToSet(bucket[t]) \cup {NoBlock}
    BY <1>0 DEF GoodThread, Ending
  <1>2. Due(t) = 0 /\ InHand(t) = {}
    BY <1>0 DEF Due, InHand, InHands
  <1>3. /\ UNCHANGED lists /\ UNCHANGED <<block, top, held>> /\ emptyCount' = (emptyCount - Due(t)) + 0
    BY <1>0, <1>2 DEF PopFails, store, lists, TypeOK
  <1>4. Moved(t, "pop", loc[t])
    BY <1>0 DEF PopFails, GoTo, TypeOK, Moved, Places
  <1> QED
    BY <1>0, <1>1, <1>2, <1>3, <1>4, QuietMove DEF InHands, AtWork, Ending, EmptyHands

LEMMA FoundGivesNothingKeeps ==
    ASSUME KeepInv, NEW t \in Threads, FoundGivesNothing(t)
    PROVE  KeepInv' /\ PoolStep
  <1>0. /\ TypeOK /\ GoodThread(t) /\ ReadIsFresh(t) /\ loc[t] \in Locals
        /\ ListsOf(t) \in ListRecord /\ ListsOf(t).bucket = bucket[t] /\ pc[t] = "none"
    BY ThreadFacts DEF FoundGivesNothing
  <1>1. GoodLists(ListsOf(t))
    BY <1>0 DEF GoodThread, Ending
  <1>2. Due(t) = 0 /\ InHand(t) = {}
    BY <1>0 DEF Due, InHand, InHands
  <1>3. /\ UNCHANGED lists /\ UNCHANGED <<block, top, held>> /\ emptyCount' = (emptyCount - Due(t)) + 0
    BY <1>0, <1>2 DEF FoundGivesNothing, store, lists, TypeOK
  <1>4. Moved(t, "idle", NoLocals)
    BY <1>0, NoLocalsTyped DEF FoundGivesNothing, GoTo, Back, Moved, Places
  <1> QED
    BY <1>0, <1>1, <1>2, <1>3, <1>4, QuietMove, NoLocalsTyped DEF InHands, AtWork, Ending, EmptyHands

LEMMA MapFailsKeeps ==
    ASSUME KeepInv, NEW t \in Threads, MapFails(t)
    PROVE  KeepInv' /\ PoolStep
  <1>0. /\ TypeOK /\ GoodThread(t) /\ ReadIsFresh(t) /\ loc[t] \in Locals
        /\ ListsOf(t) \in ListRecord /\ ListsOf(t).bucket = bucket[t] /\ pc[t] = "map"
    BY ThreadFacts DEF MapFails
  <1>1. GoodLists(ListsOf(t))
    BY <1>0 DEF GoodThread, Ending
  <1>2. Due(t) = 0 /\ InHand(t) = {}
    BY <1>0 DEF Due, InHand, InHands
  <1>3. /\ UNCHANGED lists /\ UNCHANGED <<block, top, held>> /\ emptyCount' = (emptyCount - Due(t)) + 0
    BY <1>0, <1>2 DEF MapFails, store, lists, TypeOK
  <1>4. Moved(t, "idle", NoLocals)
    BY <1>0, NoLocalsTyped DEF MapFails, GoTo, Back, Moved, Places
  <1> QED
    BY <1>0, <1>1, <1>2, <1>3, <1>4, QuietMove, NoLocalsTyped DEF InHands, AtWork, Ending, EmptyHands

LEMMA KeepKeeps ==
    ASSUME KeepInv, NEW t \in Threads, Keep(t) \/ CountEmpty(t) \/ Uncount(t)
    PROVE  KeepInv' /\ PoolStep
  <1>0. /\ TypeOK /\ GoodThread(t) /\ ReadIsFresh(t) /\ loc[t] \in Locals
        /\ ListsOf(t) \in ListRecord /\ ListsOf(t).bucket = bucket[t]
        /\ pc[t] \in {"keep", "count_empty", "uncount"}
    BY ThreadFacts DEF Keep, CountEmpty, Uncount
  <1>1. InHand(t) = {loc[t].block} /\ block[loc[t].block].allocated = 0 /\ loc[t].fresh = FALSE
    <2>1. block[loc[t].block].allocated = 0
      BY <1>0 DEF KeepInv, BlocksKept, EmptiesEmpty, EmptyHands
    <2> QED
      BY <1>0, <2>1 DEF InHand, InHands, ReadIsFresh, Locals
  <1>2. UNCHANGED lists /\ UNCHANGED <<block, top, held>>
    BY DEF Keep, CountEmpty, Uncount, store, lists
  <1>3. CASE Keep(t)
    <2>1. Moved(t, "count_empty", loc[t]) /\ pc[t] = "keep" /\ emptyCount' = (emptyCount - Due(t)) + 0
      BY <1>0, <1>3 DEF Keep, GoTo, TypeOK, Moved, Places, Ending, store, Due
    <2> QED
      BY <1>0, <1>1, <1>2, <2>1, QuietMove DEF InHands, AtWork, Ending, EmptyHands, GoodThread
  <1>4. CASE CountEmpty(t)
    <2>1. Moved(t, "push_empty", loc[t]) /\ pc[t] = "count_empty" /\ emptyCount' = (emptyCount - Due(t)) + 1
      BY <1>0, <1>4 DEF CountEmpty, GoTo, TypeOK, Moved, Places, Ending, Due
    <2> QED
      BY <1>0, <1>1, <1>2, <2>1, QuietMove DEF InHands, AtWork, Ending, EmptyHands, GoodThread
  <1>5. CASE Uncount(t)
    <2>1. Moved(t, "own_empty", loc[t]) /\ pc[t] = "uncount" /\ emptyCount' = (emptyCount - Due(t)) + 0
      BY <1>0, <1>5 DEF Uncount, GoTo, TypeOK, Moved, Places, Due
    <2>2. GoodLists(ListsOf(t)) /\ loc[t].full \in ToSet(bucket[t]) \cup {NoBlock}
      BY <1>0, <2>1 DEF GoodThread, Ending
    <2> QED
      BY <1>0, <1>1, <1>2, <2>1, <2>2, QuietMove DEF InHands, AtWork, Ending, EmptyHands
  <1> QED
    BY <1>3, <1>4, <1>5

LEMMA LocalsForTyped ==
    ASSUME NEW q \in Seq(Blocks), IsInjective(q), NEW L, L = LocalsFor(q)
    PROVE  /\ L \in Locals /\ L.fresh = FALSE /\ L.full = NoBlock /\ IsInjective(L.todo)
           /\ ToSet(L.todo) \subseteq ToSet(q) \ {L.block}
           /\ PlaceFor(q) \in {"destruct", "gone"}
           /\ PlaceFor(q) = "destruct" => L.block \in ToSet(q)
  <1>1. CASE q = <<>>
    <2>1. L = NoLocals
      BY <1>1 DEF LocalsFor
    <2>2. ToSet(L.todo) = {} /\ IsInjective(L.todo)
      BY <1>1, <2>1, NoLocalsTyped, SeqFacts
    <2> QED
      BY <1>1, <2>1, <2>2, NoLocalsTyped DEF PlaceFor
  <1>2. CASE q # <<>>
    <2>1. /\ Head(q) \in Blocks /\ Tail(q) \in Seq(Blocks) /\ IsInjective(Tail(q))
          /\ ToSet(Tail(q)) = ToSet(q) \ {Head(q)} /\ Head(q) \in ToSet(q)
      BY <1>2, HeadAndTail
    <2>2. PICK h \in Blocks : h = Head(q)
      BY <2>1
    <2>3. PICK r \in Seq(Blocks) : r = Tail(q)
      BY <2>1
    <2>4. L = [NoLocals EXCEPT !.block = h, !.todo = r]
      BY <1>2, <2>2, <2>3 DEF LocalsFor
    <2>5. L \in Locals
      BY <2>4, NoLocalsTyped DEF Locals
    <2>6. L.block = h /\ L.todo = r /\ L.fresh = FALSE /\ L.full = NoBlock
      BY <2>4, NoLocalsTyped DEF Locals
    <2> QED
      BY <1>2, <2>1, <2>2, <2>3, <2>5, <2>6 DEF PlaceFor
  <1> QED
    BY <1>1, <1>2

LEMMA ExitKeeps ==
    ASSUME KeepInv, NEW t \in Threads, Exit(t)
    PROVE  KeepInv' /\ PoolStep
  <1>0. /\ TypeOK /\ GoodThread(t) /\ ReadIsFresh(t) /\ loc[t] \in Locals
        /\ ListsOf(t) \in ListRecord /\ ListsOf(t).bucket = bucket[t] /\ pc[t] = "idle"
    BY ThreadFacts DEF Exit
  <1>1. GoodLists(ListsOf(t))
    BY <1>0 DEF GoodThread, Ending
  <1>2. Due(t) = 0 /\ InHand(t) = {}
    BY <1>0 DEF Due, InHand, InHands
  <1>3. /\ UNCHANGED lists /\ UNCHANGED <<block, top, held>> /\ emptyCount' = (emptyCount - Due(t)) + 0
    BY <1>0, <1>2 DEF Exit, store, lists, TypeOK
  <1>4. PICK q \in Seq(Blocks) : /\ q = (IF bucket[t] = <<>> THEN <<>> ELSE DestructOrder(t))
                                 /\ IsInjective(q) /\ ToSet(q) \subseteq ToSet(bucket[t])
    <2>1. CASE bucket[t] = <<>>
      BY <1>0, <2>1 DEF GoodThread, ListRecord
    <2>2. CASE bucket[t] # <<>>
      BY <1>1, <2>2, AllDestructed
    <2> QED
      BY <2>1, <2>2
  <1>5. PICK L : L = LocalsFor(q)
    OBVIOUS
  <1>6. /\ L \in Locals /\ L.fresh = FALSE /\ L.full = NoBlock /\ IsInjective(L.todo)
        /\ ToSet(L.todo) \subseteq ToSet(q) \ {L.block}
        /\ PlaceFor(q) \in {"destruct", "gone"}
        /\ PlaceFor(q) = "destruct" => L.block \in ToSet(q)
    BY <1>4, <1>5, LocalsForTyped
  <1>7. Moved(t, PlaceFor(q), L)
    BY <1>4, <1>5, <1>6 DEF Exit, GoTo, Moved, Places, Ending
  <1> QED
    BY <1>0, <1>1, <1>2, <1>3, <1>4, <1>6, <1>7, QuietMove DEF InHands, AtWork, Ending, EmptyHands

LEMMA ScanMissesKeeps ==
    ASSUME KeepInv, NEW t \in Threads, ScanMisses(t)
    PROVE  KeepInv' /\ PoolStep
  <1>0. /\ TypeOK /\ GoodThread(t) /\ ReadIsFresh(t) /\ loc[t] \in Locals /\ bucket[t] \in Seq(Blocks)
        /\ ListsOf(t) \in ListRecord /\ ListsOf(t).bucket = bucket[t] /\ pc[t] = "scan"
    BY ThreadFacts DEF ScanMisses
  <1>1. GoodLists(ListsOf(t)) /\ loc[t].full \in ToSet(bucket[t]) \cup {NoBlock} /\ loc[t].fresh = FALSE
    BY <1>0 DEF GoodThread, Ending, ReadIsFresh, Locals
  <1>2. Due(t) = 0 /\ InHand(t) = {}
    BY <1>0 DEF Due, InHand, InHands
  <1>3. PICK n : n = IF Cardinality(ScanRange(t)) < Scanned THEN NoBlock ELSE bucket[t][Max(ScanRange(t))]
    OBVIOUS
  <1>4. n \in ToSet(bucket[t]) \cup {NoBlock}
    <2> SUFFICES ASSUME ~(Cardinality(ScanRange(t)) < Scanned) PROVE bucket[t][Max(ScanRange(t))] \in ToSet(bucket[t])
      BY <1>3
    <2>1. ScanRange(t) # {}
      BY BlockAllocatorAssumption, FS_EmptySet
    <2>2. Max(ScanRange(t)) \in 1 .. Len(bucket[t])
      BY <1>0, <1>1, <2>1, ScanRangeIn
    <2> QED
      BY <1>0, <2>2, SeqFacts
  <1>5. PICK X \in ListRecord : X = [ListsOf(t) EXCEPT !.lastNext = n]
    BY <1>0, <1>4, SeqFacts DEF ListRecord
  <1>6. /\ X.bucket = bucket[t] /\ X.active = ListsOf(t).active /\ X.lastNext = n
    BY <1>0, <1>5 DEF ListRecord
  <1>7. GoodLists(X)
    BY <1>1, <1>4, <1>6, <1>0 DEF GoodLists, ListRecord
  <1>8. SetLists(t, X)
    BY <1>0, <1>3, <1>6 DEF SetLists, ScanMisses, ListsOf, TypeOK
  <1>9. /\ UNCHANGED <<block, top, held>> /\ emptyCount' = (emptyCount - Due(t)) + 0
    BY <1>0, <1>2 DEF ScanMisses, store, TypeOK
  <1>10. Moved(t, "pop", loc[t])
    BY <1>0 DEF ScanMisses, GoTo, TypeOK, Moved, Places
  <1> QED
    BY <1>0, <1>1, <1>2, <1>6, <1>7, <1>8, <1>9, <1>10, QuietMove DEF InHands, AtWork, Ending, EmptyHands

-----------------------------------------------------------------------------
\* An allocation from a block, and a block that is tried in vain

LEMMA NotNewAfter ==
    ASSUME BlocksKept, NEW t \in Threads, Others(t), NEW b \in Kept(t), pc'[t] # "own_empty"
    PROVE  At({"own_empty"}, b)' = {}
  <1> SUFFICES ASSUME NEW u \in Threads, pc'[u] = "own_empty", loc'[u].block = b PROVE FALSE
    BY DEF At
  <1>1. u # t
    OBVIOUS
  <1>2. pc[u] = "own_empty" /\ loc[u].block = b
    BY <1>1 DEF Others
  <1>3. b \in Kept(u)
    BY <1>2 DEF Kept, InHand, InHands
  <1> QED
    BY <1>1, <1>3, OthersElsewhere

(* What the program has after it was given an object or freed one.         *)
LEMMA ProgramChanged ==
    ASSUME TypeOK, NEW b \in Blocks, NEW o \in Slots, NEW v \in {0, 1},
           held' = [held EXCEPT ![<<b, o>>] = v]
    PROVE  /\ held' \in [Objects -> {0, 1}]
           /\ Program(b)' = IF v = 1 THEN Program(b) \cup {o} ELSE Program(b) \ {o}
           /\ \A c \in Blocks \ {b} : Program(c)' = Program(c)
           /\ \A c \in Blocks, i \in Slots : (i \in Program(c)) <=> (held[<<c, i>>] = 1)
  <1>1. \A c \in Blocks, i \in Slots : <<c, i>> \in Objects
    BY DEF Objects
  <1>2. \A c \in Blocks, i \in Slots : held'[<<c, i>>] = IF c = b /\ i = o THEN v ELSE held[<<c, i>>]
    BY <1>1 DEF TypeOK
  <1>3. held \in [Objects -> {0, 1}] /\ held' \in [Objects -> {0, 1}]
    BY DEF TypeOK
  <1>4. ASSUME NEW c \in Blocks, NEW i \in Slots PROVE (i \in Program(c)) <=> (held[<<c, i>>] = 1)
    <2>1. <<c, i>> \in Objects /\ held[<<c, i>>] \in {0, 1}
      BY <1>1, <1>3
    <2>2. (held[<<c, i>>] > 0) <=> (held[<<c, i>>] = 1)
      BY <2>1
    <2> QED
      BY <2>1, <2>2 DEF Program, InUse
  <1>5. ASSUME NEW c \in Blocks, NEW i \in Slots PROVE (i \in Program(c)') <=> (held'[<<c, i>>] = 1)
    <2>1. <<c, i>> \in Objects /\ held'[<<c, i>>] \in {0, 1}
      BY <1>1, <1>3
    <2>2. (held'[<<c, i>>] > 0) <=> (held'[<<c, i>>] = 1)
      BY <2>1
    <2> QED
      BY <2>1, <2>2 DEF Program, InUse
  <1>6. \A c : Program(c) \subseteq Slots /\ Program(c)' \subseteq Slots
    BY DEF Program
  <1>7. ASSUME NEW c \in Blocks \ {b} PROVE Program(c)' = Program(c)
    <2>1. ASSUME NEW i \in Slots PROVE (i \in Program(c)') <=> (i \in Program(c))
      <3>1. held'[<<c, i>>] = held[<<c, i>>]
        BY <1>2
      <3>2. (i \in Program(c)) <=> (held[<<c, i>>] = 1)
        BY <1>4
      <3>3. (i \in Program(c)') <=> (held'[<<c, i>>] = 1)
        BY <1>5
      <3> QED
        BY <3>1, <3>2, <3>3
    <2> QED
      BY <1>6, <2>1
  <1>8. Program(b)' = IF v = 1 THEN Program(b) \cup {o} ELSE Program(b) \ {o}
    <2>1. ASSUME NEW i \in Slots
          PROVE  (i \in Program(b)') <=> (IF i = o THEN v = 1 ELSE i \in Program(b))
      <3>1. held'[<<b, i>>] = IF i = o THEN v ELSE held[<<b, i>>]
        BY <1>2
      <3>2. (i \in Program(b)) <=> (held[<<b, i>>] = 1)
        BY <1>4
      <3>3. (i \in Program(b)') <=> (held'[<<b, i>>] = 1)
        BY <1>5
      <3> QED
        BY <3>1, <3>2, <3>3
    <2> QED
      BY <1>6, <2>1
  <1> QED
    BY <1>3, <1>4, <1>7, <1>8

(* Block b, which has become B, gives an object: nobody had it.            *)
LEMMA Granted ==
    ASSUME KeepInv, NEW t \in Threads, Others(t), NEW b \in Kept(t), Apart(b),
           NEW B \in Header, HasRoom(B), Right(B, Away(b) \ Carried(t, b)),
           B.public = block[b].public,
           block' = [block EXCEPT ![b] = Used(B)],
           held' = [held EXCEPT ![<<b, Object(B)>>] = @ + 1],
           pc'[t] = "idle"
    PROVE  /\ Used(B) \in Header /\ SameRest(B, Used(B)) /\ Placed(b)' /\ PoolStep
           /\ held' \in [Objects -> {0, 1}]
           /\ \A c \in Blocks \ {b} : Program(c)' = Program(c) /\ (Carried(t, c) = {} => Carried(t, c)' = Carried(t, c))
  <1>0. TypeOK /\ BlocksKept
    BY DEF KeepInv
  <1>1. b \in Blocks /\ b \in Mapped /\ block[b].mapped
    BY <1>0, KeptIsMapped
  <1>2. PICK o : o = Object(B)
    OBVIOUS
  <1>3. PICK C : C = Used(B)
    OBVIOUS
  <1>4. /\ o \in Slots /\ o \notin Away(b) \ Carried(t, b)
        /\ C \in Header /\ SameRest(B, C)
        /\ Right(C, (Away(b) \ Carried(t, b)) \cup {o})
    BY <1>2, <1>3, RightUsed
  <1>5. Program(b) \cap Carried(t, b) = {} /\ block[b].public \cap Carried(t, b) = {}
    BY DEF Apart
  <1>6. o \notin Program(b) /\ o \notin block[b].public
    BY <1>4, <1>5 DEF Away
  <1>7. <<b, o>> \in Objects /\ held[<<b, o>>] = 0
    <2>1. <<b, o>> \in Objects
      BY <1>1, <1>4 DEF Objects
    <2>2. held[<<b, o>>] \in {0, 1}
      BY <1>0, <2>1 DEF TypeOK
    <2>3. held[<<b, o>>] # 1
      BY <1>4, <1>6, <2>1 DEF Program, InUse
    <2> QED
      BY <2>1, <2>2, <2>3
  <1>8. held' = [held EXCEPT ![<<b, o>>] = 1]
    BY <1>0, <1>2, <1>7 DEF TypeOK
  <1>9. /\ held' \in [Objects -> {0, 1}] /\ Program(b)' = Program(b) \cup {o}
        /\ \A c \in Blocks \ {b} : Program(c)' = Program(c)
    BY <1>0, <1>1, <1>4, <1>8, ProgramChanged
  <1>10. block'[b] = C /\ C.public = block[b].public /\ C.mapped = TRUE
    BY <1>0, <1>1, <1>3, <1>4 DEF TypeOK, SameRest, Header
  <1>11. \A c : Carried(t, c)' = {}
    BY DEF Carried
  <1>12. PICK new : new = {o} \ Away(b)
    OBVIOUS
  <1>13. /\ Apart(b)'
         /\ Away(b)' = (Away(b) \ (Program(b) \cup block[b].public \cup Carried(t, b)))
                            \cup Program(b)' \cup block'[b].public \cup Carried(t, b)'
    <2>1. new \cap Away(b) = {}
      BY <1>12
    <2>2. Program(b)' \cap block'[b].public = {}
      <3>1. block[b].public \cap Program(b) = {}
        BY DEF Apart
      <3> QED
        BY <1>6, <1>9, <1>10, <3>1
    <2>3. Carried(t, b)' \cap (Program(b)' \cup block'[b].public) = {}
      BY <1>11
    <2>4. Program(b)' \cup block'[b].public \cup Carried(t, b)' \subseteq
               Program(b) \cup block[b].public \cup Carried(t, b) \cup new
      <3>1. o \in Away(b) => o \in Carried(t, b)
        BY <1>4
      <3> QED
        BY <1>9, <1>10, <1>11, <1>12, <3>1
    <2> QED
      BY <1>1, <2>1, <2>2, <2>3, <2>4, PlacedMoved
  <1>14. Away(b)' = (Away(b) \ Carried(t, b)) \cup {o}
    <2>1. Program(b) \subseteq Away(b) /\ block[b].public \subseteq Away(b)
      BY DEF Away
    <2> QED
      BY <1>5, <1>9, <1>10, <1>11, <1>13, <2>1
  <1>15. Placed(b)'
    <2>1. At({"own_empty"}, b)' = {}
      BY <1>0, NotNewAfter
    <2>2. (b \in Mapped)' /\ Right(block'[b], Away(b)')
      BY <1>1, <1>4, <1>10, <1>14 DEF Mapped
    <2> QED
      BY <1>13, <2>1, <2>2 DEF Placed
  <1>16. PoolStep
    BY <1>7, <1>8 DEF PoolStep
  <1> QED
    BY <1>3, <1>4, <1>9, <1>11, <1>15, <1>16

(* Block b has become B, and no object moves but those that t carried.     *)
LEMMA Settled ==
    ASSUME KeepInv, NEW t \in Threads, Others(t), NEW b \in Kept(t), Apart(b),
           NEW B \in Header, Right(B, Away(b) \ Carried(t, b)), B.public = block[b].public,
           block' = [block EXCEPT ![b] = B], held' = held,
           pc'[t] \notin {"publish", "count", "lose", "own_empty"}
    PROVE  /\ Placed(b)' /\ PoolStep
           /\ \A c \in Blocks \ {b} : Program(c)' = Program(c) /\ (Carried(t, c) = {} => Carried(t, c)' = Carried(t, c))
  <1>0. TypeOK /\ BlocksKept
    BY DEF KeepInv
  <1>1. b \in Blocks /\ b \in Mapped /\ block[b].mapped
    BY <1>0, KeptIsMapped
  <1>2. block'[b] = B /\ B.mapped = TRUE
    BY <1>0, <1>1 DEF TypeOK, Header
  <1>3. \A c : Program(c)' = Program(c) /\ Carried(t, c)' = {}
    BY DEF Carried, Program, InUse
  <1>4. /\ block[b].public \cap Program(b) = {}
        /\ Program(b) \cap Carried(t, b) = {} /\ block[b].public \cap Carried(t, b) = {}
    BY DEF Apart
  <1>5. PICK new : new = {}
    OBVIOUS
  <1>6. /\ Apart(b)'
        /\ Away(b)' = (Away(b) \ (Program(b) \cup block[b].public \cup Carried(t, b)))
                            \cup Program(b)' \cup block'[b].public \cup Carried(t, b)'
    <2>1. new \cap Away(b) = {} /\ Program(b)' \cap block'[b].public = {}
      BY <1>2, <1>3, <1>4, <1>5
    <2>2. Carried(t, b)' \cap (Program(b)' \cup block'[b].public) = {}
      BY <1>3
    <2>3. Program(b)' \cup block'[b].public \cup Carried(t, b)' \subseteq
               Program(b) \cup block[b].public \cup Carried(t, b) \cup new
      BY <1>2, <1>3
    <2> QED
      BY <1>1, <2>1, <2>2, <2>3, PlacedMoved
  <1>7. Away(b)' = Away(b) \ Carried(t, b)
    <2>1. Program(b) \subseteq Away(b) /\ block[b].public \subseteq Away(b)
      BY DEF Away
    <2> QED
      BY <1>2, <1>3, <1>4, <1>6, <2>1
  <1>8. Placed(b)'
    <2>1. At({"own_empty"}, b)' = {}
      BY <1>0, NotNewAfter
    <2>2. (b \in Mapped)' /\ Right(block'[b], Away(b)')
      BY <1>1, <1>2, <1>7 DEF Mapped
    <2> QED
      BY <1>6, <2>1, <2>2 DEF Placed
  <1> QED
    BY <1>3, <1>8 DEF PoolStep

\* Thread t has lists X, and block b is one of them and has become B.
Settling(t, b, B, X) ==
    /\ b \in Kept(t) /\ Apart(b) /\ B \in Header /\ Right(B, Away(b) \ Carried(t, b))
    /\ B.public = block[b].public /\ B.next = block[b].next /\ B.owner = t /\ B.thread = t
    /\ X \in ListRecord /\ GoodLists(X) /\ ToSet(X.bucket) = Kept(t)
    /\ SetLists(t, X) \/ (X = ListsOf(t) /\ UNCHANGED lists)
    /\ UNCHANGED store /\ Due(t) = 0
    /\ pc[t] \notin Ending /\ (pc[t] = "own_empty" => loc[t].block = b)
    /\ Kept(t) \ {b} \subseteq ToSet(bucket[t])
    /\ ToSet(bucket[t]) \subseteq Kept(t)
    /\ \A c \in Blocks \ {b} : Carried(t, c) = {}

LEMMA SettledStep ==
    ASSUME KeepInv, NEW t \in Threads, NEW b, NEW B, NEW X, Settling(t, b, B, X),
           NEW p, NEW L, Moved(t, p, L), p \in {"idle", "swap", "walk", "none", "pop"},
           NEW C \in Header, C.owner = B.owner, C.thread = B.thread, C.next = B.next,
           block' = [block EXCEPT ![b] = C], held' \in [Objects -> {0, 1}], Placed(b)',
           L.full \in ToSet(X.bucket) \cup {NoBlock}, L.fresh = FALSE, p \in AtWork => L.block = b,
           \A c \in Blocks \ {b} : Program(c)' = Program(c)
    PROVE  KeepInv'
  <1>0. TypeOK /\ BlocksKept /\ OwnersGood
    BY DEF KeepInv
  <1>1. /\ b \in Blocks /\ b \in Mapped /\ block[b] \in Header
        /\ b \in Kept(t) /\ X \in ListRecord /\ GoodLists(X) /\ ToSet(X.bucket) = Kept(t)
    BY <1>0, KeptIsMapped DEF Settling
  <1>2. /\ Others(t) /\ pc'[t] = p /\ loc'[t] = L
        /\ bucket'[t] = X.bucket /\ ListsOf(t)' = X
        /\ pc' \in [Threads -> Places] /\ loc' \in [Threads -> Locals]
        /\ bucket' \in [Threads -> Seq(Blocks)]
        /\ active' \in [Threads -> Blocks \cup {NoBlock}]
        /\ lastNext' \in [Threads -> Blocks \cup {NoBlock}]
    BY <1>0, MovedOnly DEF ListRecord, Settling
  <1>3. block'[b] = C /\ \A c \in Blocks \ {b} : block'[c] = block[c]
    BY <1>0, <1>1 DEF TypeOK
  <1>4. TypeOK'
    <2>1. block' \in [Blocks -> Header \cup NoHeader]
      BY <1>0, <1>1 DEF TypeOK
    <2> QED
      BY <1>0, <1>2, <2>1 DEF TypeOK, Settling, store
  <1>5. Due(t)' = 0 /\ Due(t) = 0 /\ emptyCount' = (emptyCount - Due(t)) + Due(t)' /\ top' = top
    <2>1. Due(t)' = 0
      BY <1>2 DEF Due
    <2> QED
      BY <1>0, <2>1 DEF Settling, store, TypeOK
  <1>6. InHand(t)' = {} /\ Kept(t)' = Kept(t)
    <2>1. InHand(t)' = {}
      BY <1>2 DEF InHand, InHands
    <2> QED
      BY <1>1, <1>2, <2>1 DEF Kept
  <1>7. GoodThread(t)'
    <2>1. GoodLists(ListsOf(t))'
      BY <1>1, <1>2 DEF GoodLists
    <2>2. IsInjective(bucket'[t])
      BY <1>1, <1>2 DEF GoodLists
    <2> QED
      BY <1>1, <1>2, <2>1, <2>2 DEF GoodThread, Ending
  <1>8. ReadIsFresh(t)'
    BY <1>2 DEF ReadIsFresh
  <1>9. C.next = block[b].next /\ C.thread \in {block[b].thread, t} /\ C.owner = t /\ C.thread = t
    BY DEF Settling
  <1>10. \A c \in ToSet(bucket'[t]) : block'[c].owner = t /\ block'[c].thread = t
    <2> SUFFICES ASSUME NEW c \in ToSet(bucket'[t]) PROVE block'[c].owner = t /\ block'[c].thread = t
      OBVIOUS
    <2>1. CASE c = b
      BY <1>3, <1>9, <2>1
    <2>2. CASE c # b
      <3>1. c \in Kept(t) /\ c \in ToSet(bucket[t]) /\ c \in Blocks
        BY <1>0, <1>1, <1>2, <2>2, KeptIsMapped DEF Settling
      <3> QED
        BY <1>0, <1>3, <2>2, <3>1 DEF OwnersGood
    <2> QED
      BY <2>1, <2>2
  <1>11. \A c \in Mapped : block'[c].thread = t => c \in ToSet(bucket'[t])
    <2> SUFFICES ASSUME NEW c \in Mapped, block'[c].thread = t, c # b PROVE c \in ToSet(bucket'[t])
      BY <1>1, <1>2
    <2>1. block[c].thread = t
      BY <1>3 DEF Mapped
    <2> QED
      BY <1>0, <1>1, <1>2, <2>1 DEF OwnersGood, Settling
  <1>12. \A c \in Blocks \ {b} : Program(c)' = Program(c) /\ Carried(t, c)' = Carried(t, c)
    BY <1>2 DEF Carried, Settling
  <1>13. (pc[t] = "own_empty" => loc[t].block = b) /\ pc'[t] # "own_empty" /\ pc'[t] \notin EmptyHands
    BY <1>2 DEF Settling, EmptyHands
  <1> QED
    BY <1>1, <1>2, <1>4, <1>5, <1>6, <1>7, <1>8, <1>9, <1>10, <1>11, <1>12, <1>13, BlockStep

LEMMA GrantStep ==
    ASSUME KeepInv, NEW t \in Threads, NEW b, NEW B, NEW X, Settling(t, b, B, X),
           HasRoom(B), Grant(t, b, B)
    PROVE  KeepInv' /\ PoolStep
  <1>0. TypeOK
    BY DEF KeepInv
  <1>1. Moved(t, "idle", NoLocals)
    BY NoLocalsTyped DEF Grant, Back, GoTo, Moved, Places
  <1>2. Others(t) /\ pc'[t] = "idle"
    BY <1>0, <1>1, MovedOnly DEF ListRecord, Settling
  <1>3. /\ Used(B) \in Header /\ SameRest(B, Used(B)) /\ Placed(b)' /\ PoolStep
        /\ held' \in [Objects -> {0, 1}]
        /\ \A c \in Blocks \ {b} : Program(c)' = Program(c)
    BY <1>2, Granted DEF Settling, Grant
  <1>4. block' = [block EXCEPT ![b] = Used(B)]
    BY DEF Grant
  <1>5. PICK C \in Header : C = Used(B)
    BY <1>3
  <1>6. C.owner = B.owner /\ C.thread = B.thread /\ C.next = B.next
    BY <1>3, <1>5 DEF SameRest
  <1>7. block' = [block EXCEPT ![b] = C]
    BY <1>4, <1>5
  <1>8. NoLocals.full \in ToSet(X.bucket) \cup {NoBlock} /\ NoLocals.fresh = FALSE /\ "idle" \notin AtWork
    BY NoLocalsTyped DEF AtWork
  <1>9. KeepInv'
    BY <1>1, <1>3, <1>6, <1>7, <1>8, SettledStep
  <1> QED
    BY <1>3, <1>9

LEMMA TriedStep ==
    ASSUME KeepInv, NEW t \in Threads, NEW b, NEW B, NEW X, Settling(t, b, B, X),
           NEW p, NEW L, Moved(t, p, L), p \in {"swap", "walk", "none", "pop"},
           block' = [block EXCEPT ![b] = B], held' = held,
           L.full \in ToSet(X.bucket) \cup {NoBlock}, L.fresh = FALSE, p \in AtWork => L.block = b
    PROVE  KeepInv' /\ PoolStep
  <1>0. TypeOK
    BY DEF KeepInv
  <1>1. Others(t) /\ pc'[t] = p
    BY <1>0, MovedOnly DEF ListRecord, Settling
  <1>2. Placed(b)' /\ PoolStep /\ \A c \in Blocks \ {b} : Program(c)' = Program(c)
    BY <1>1, Settled DEF Settling
  <1>3. held' \in [Objects -> {0, 1}]
    BY <1>0 DEF TypeOK
  <1>4. B \in Header
    BY DEF Settling
  <1> QED
    BY <1>2, <1>3, <1>4, SettledStep

LEMMA TryStep ==
    ASSUME KeepInv, NEW t \in Threads, NEW b, NEW B, NEW X, Settling(t, b, B, X),
           NEW s \in {"walk", "none", "pop"}, TryBlock(t, b, B, s),
           loc[t].full \in ToSet(X.bucket) \cup {NoBlock}, loc[t].fresh = FALSE
    PROVE  KeepInv' /\ PoolStep
  <1>1. CASE HasRoom(B)
    BY <1>1, GrantStep DEF TryBlock
  <1>2. CASE ~HasRoom(B)
    <2>1. loc[t] \in Locals /\ TypeOK /\ b \in Blocks
      BY ThreadFacts, KeptIsMapped DEF Settling, KeepInv
    <2>2. PICK L \in Locals : L = [loc[t] EXCEPT !.block = b, !.stage = s]
      BY <2>1 DEF Locals
    <2>3. L.block = b /\ L.full = loc[t].full /\ L.fresh = FALSE
      BY <2>1, <2>2 DEF Locals
    <2>4. Moved(t, "swap", L)
      BY <1>2, <2>1, <2>2 DEF TryBlock, Moved, Places, GoTo, TypeOK
    <2>5. block' = [block EXCEPT ![b] = B] /\ held' = held
      BY <1>2 DEF TryBlock
    <2> QED
      BY <2>3, <2>4, <2>5, TriedStep
  <1> QED
    BY <1>1, <1>2

-----------------------------------------------------------------------------
\* Alloc

(* A thread turns to one of its blocks.                                    *)
LEMMA SettlingOwn ==
    ASSUME KeepInv, NEW t \in Threads, pc[t] \in {"idle", "walk", "scan"}, NEW b \in ToSet(bucket[t]),
           NEW B \in Header, SameObjects(block[b], B), B.public = block[b].public,
           B.next = block[b].next, B.owner = block[b].owner, B.thread = block[b].thread,
           NEW X \in ListRecord, GoodLists(X), ToSet(X.bucket) = ToSet(bucket[t]),
           SetLists(t, X) \/ (X = ListsOf(t) /\ UNCHANGED lists), UNCHANGED store
    PROVE  Settling(t, b, B, X)
  <1>0. TypeOK /\ BlocksKept /\ OwnersGood /\ ObjectsPlaced
    BY DEF KeepInv
  <1>1. InHand(t) = {} /\ Kept(t) = ToSet(bucket[t]) /\ Due(t) = 0 /\ pc[t] \notin Ending
    BY DEF InHand, InHands, Kept, Due, Ending
  <1>2. b \in Kept(t) /\ b \in Blocks /\ b \in Mapped
    BY <1>0, <1>1, KeptIsMapped
  <1>3. \A c : Carried(t, c) = {}
    BY DEF Carried
  <1>4. Apart(b) /\ Right(block[b], Away(b))
    <2>1. At({"own_empty"}, b) = {}
      BY <1>0, <1>2, HeldIsNotNew
    <2> QED
      BY <1>0, <1>2, <2>1 DEF ObjectsPlaced, Placed
  <1>5. Right(B, Away(b) \ Carried(t, b))
    <2>1. Away(b) \ Carried(t, b) = Away(b)
      BY <1>3
    <2> QED
      BY <1>4, <2>1, RightOfSame
  <1>6. B.owner = t /\ B.thread = t
    BY <1>0 DEF OwnersGood
  <1> QED
    BY <1>1, <1>2, <1>3, <1>4, <1>5, <1>6 DEF Settling

LEMMA AllocKeeps ==
    ASSUME KeepInv, NEW t \in Threads, Alloc(t)
    PROVE  KeepInv' /\ PoolStep
  <1>0. /\ TypeOK /\ GoodThread(t) /\ ReadIsFresh(t) /\ loc[t] \in Locals /\ bucket[t] \in Seq(Blocks)
        /\ ListsOf(t) \in ListRecord /\ ListsOf(t).bucket = bucket[t] /\ pc[t] = "idle"
        /\ BlocksKept
    BY ThreadFacts DEF Alloc, KeepInv
  <1>1. GoodLists(ListsOf(t)) /\ loc[t].full \in ToSet(bucket[t]) \cup {NoBlock} /\ loc[t].fresh = FALSE
    BY <1>0 DEF GoodThread, Ending, ReadIsFresh, Locals
  <1>2. UNCHANGED lists /\ UNCHANGED store
    BY DEF Alloc
  <1>3. CASE active[t] = NoBlock
    <2>1. Due(t) = 0 /\ InHand(t) = {}
      BY <1>0 DEF Due, InHand, InHands
    <2>2. /\ UNCHANGED <<block, top, held>> /\ emptyCount' = (emptyCount - Due(t)) + 0
      BY <1>0, <1>2, <1>3, <2>1 DEF Alloc, store, TypeOK
    <2>3. Moved(t, "pop", loc[t])
      BY <1>0, <1>3 DEF Alloc, GoTo, TypeOK, Moved, Places
    <2> QED
      BY <1>0, <1>1, <1>2, <2>1, <2>2, <2>3, QuietMove DEF InHands, AtWork, Ending, EmptyHands
  <1>4. CASE active[t] # NoBlock
    <2>1. PICK a : a = active[t]
      OBVIOUS
    <2>2. a \in ToSet(bucket[t])
      BY <1>0, <1>1, <1>4, <2>1 DEF GoodLists, ListsOf
    <2>3. a \in Kept(t)
      BY <2>2 DEF Kept
    <2>4. a \in Blocks /\ a \in Mapped /\ block[a] \in Header
      BY <1>0, <2>3, KeptIsMapped
    <2>5. Settling(t, a, block[a], ListsOf(t))
      BY <1>0, <1>1, <1>2, <2>2, <2>4, SettlingOwn DEF SameObjects
    <2>6. CASE HasRoom(block[a])
      <3>1. Grant(t, a, block[a])
        BY <1>4, <2>1, <2>6 DEF Alloc
      <3> QED
        BY <2>5, <2>6, <3>1, GrantStep
    <2>7. CASE ~HasRoom(block[a])
      <3>1. PICK n \in Blocks \cup {NoBlock} : n = NextOf(bucket[t], a) /\ n \in ToSet(bucket[t]) \cup {NoBlock}
        BY <1>0, <2>2, NeighboursIn, SeqFacts
      <3>2. PICK L \in Locals : L = [loc[t] EXCEPT !.block = a, !.full = n]
        BY <1>0, <2>4 DEF Locals
      <3>3. L.block = a /\ L.full = n /\ L.fresh = FALSE
        BY <1>0, <1>1, <3>2 DEF Locals
      <3>4. Moved(t, "swap", L)
        BY <1>0, <1>4, <2>1, <2>7, <3>1, <3>2 DEF Alloc, Moved, Places, GoTo, TypeOK
      <3>5. block' = [block EXCEPT ![a] = block[a]] /\ held' = held
        BY <1>0, <1>4, <2>1, <2>7 DEF Alloc, TypeOK
      <3>6. L.full \in ToSet(ListsOf(t).bucket) \cup {NoBlock}
        BY <1>0, <3>1, <3>3
      <3>7. PICK B : B = block[a]
        OBVIOUS
      <3>8. block' = [block EXCEPT ![a] = B] /\ Settling(t, a, B, ListsOf(t))
        BY <2>5, <3>5, <3>7
      <3> QED
        BY <3>3, <3>4, <3>5, <3>6, <3>8, TriedStep
    <2> QED
      BY <2>6, <2>7
  <1> QED
    BY <1>3, <1>4

LEMMA WalkKeeps ==
    ASSUME KeepInv, NEW t \in Threads, Walk(t)
    PROVE  KeepInv' /\ PoolStep
  <1>0. /\ TypeOK /\ GoodThread(t) /\ ReadIsFresh(t) /\ loc[t] \in Locals /\ bucket[t] \in Seq(Blocks)
        /\ ListsOf(t) \in ListRecord /\ ListsOf(t).bucket = bucket[t] /\ pc[t] = "walk"
        /\ BlocksKept
    BY ThreadFacts DEF Walk, KeepInv
  <1>1. /\ GoodLists(ListsOf(t)) /\ loc[t].full \in ToSet(bucket[t]) \cup {NoBlock} /\ loc[t].fresh = FALSE
        /\ loc[t].block \in ToSet(bucket[t])
    BY <1>0 DEF GoodThread, Ending, AtWork, ReadIsFresh, Locals
  <1>2. UNCHANGED store
    BY DEF Walk
  <1>3. PICK p : p = PrevOf(bucket[t], loc[t].block)
    OBVIOUS
  <1>4. CASE p = NoBlock
    <2>1. Due(t) = 0 /\ InHand(t) = {}
      BY <1>0 DEF Due, InHand, InHands
    <2>2. /\ UNCHANGED <<block, top, held>> /\ emptyCount' = (emptyCount - Due(t)) + 0 /\ UNCHANGED lists
      BY <1>0, <1>2, <1>3, <1>4, <2>1 DEF Walk, store, lists, TypeOK
    <2>3. Moved(t, "scan", loc[t])
      BY <1>0, <1>3, <1>4 DEF Walk, GoTo, TypeOK, Moved, Places
    <2> QED
      BY <1>0, <1>1, <1>2, <2>1, <2>2, <2>3, QuietMove DEF InHands, AtWork, Ending, EmptyHands
  <1>5. CASE p # NoBlock
    <2>1. p \in ToSet(bucket[t])
      BY <1>0, <1>1, <1>3, <1>5, NeighboursIn
    <2>2. p \in Kept(t)
      BY <2>1 DEF Kept
    <2>3. p \in Blocks /\ p \in Mapped /\ block[p] \in Header
      BY <1>0, <2>2, KeptIsMapped
    <2>4. PICK X : X = [ListsOf(t) EXCEPT !.active = p]
      OBVIOUS
    <2>5. GoodLists(X) /\ X.bucket = bucket[t] /\ X.lastNext = lastNext[t] /\ X \in ListRecord
      <3>1. GoodLists(X) /\ X.bucket = ListsOf(t).bucket /\ X.lastNext = ListsOf(t).lastNext
        BY <1>0, <1>1, <2>1, <2>4, GoodActive
      <3> QED
        BY <1>0, <3>1 DEF GoodLists, ListRecord, ListsOf
    <2>6. X.active = p
      BY <1>0, <2>4 DEF ListRecord
    <2>7. SetLists(t, X)
      BY <1>0, <1>3, <1>5, <2>5, <2>6 DEF Walk, SetLists, TypeOK
    <2>8. Settling(t, p, block[p], X)
      BY <1>0, <1>2, <2>1, <2>3, <2>5, <2>7, SettlingOwn DEF SameObjects
    <2>9. TryBlock(t, p, block[p], "walk")
      BY <1>3, <1>5 DEF Walk
    <2> QED
      BY <1>1, <2>5, <2>8, <2>9, TryStep
  <1> QED
    BY <1>4, <1>5

LEMMA ScanFindsKeeps ==
    ASSUME KeepInv, NEW t \in Threads, ScanFinds(t)
    PROVE  KeepInv' /\ PoolStep
  <1>0. /\ TypeOK /\ GoodThread(t) /\ ReadIsFresh(t) /\ loc[t] \in Locals /\ bucket[t] \in Seq(Blocks)
        /\ ListsOf(t) \in ListRecord /\ ListsOf(t).bucket = bucket[t] /\ pc[t] = "scan"
        /\ BlocksKept
    BY ThreadFacts DEF ScanFinds, KeepInv
  <1>1. /\ GoodLists(ListsOf(t)) /\ loc[t].full \in ToSet(bucket[t]) \cup {NoBlock} /\ loc[t].fresh = FALSE
    BY <1>0 DEF GoodThread, Ending, ReadIsFresh, Locals
  <1>2. UNCHANGED store
    BY DEF ScanFinds
  <1>3. PICK b : b = bucket[t][Min(ScanHits(t))]
    OBVIOUS
  <1>4. b \in ToSet(bucket[t])
    <2>1. Min(ScanHits(t)) \in ScanHits(t)
      BY <1>0, <1>1, ScanRangeIn DEF ScanFinds
    <2>2. Min(ScanHits(t)) \in 1 .. Len(bucket[t])
      BY <1>0, <1>1, <2>1, ScanRangeIn DEF ScanHits
    <2> QED
      BY <1>0, <1>3, <2>2, SeqFacts
  <1>5. b \in Blocks /\ b \in Mapped /\ block[b] \in Header
    <2>1. b \in Kept(t)
      BY <1>4 DEF Kept
    <2> QED
      BY <1>0, <2>1, KeptIsMapped
  <1>6. PICK K : K = [ListsOf(t) EXCEPT !.lastNext = b]
    OBVIOUS
  <1>7. GoodLists(K) /\ K.bucket = bucket[t]
    <2>1. K.bucket = bucket[t] /\ K.active = ListsOf(t).active /\ K.lastNext = b /\ K \in ListRecord
      BY <1>0, <1>5, <1>6 DEF ListRecord
    <2> QED
      BY <1>0, <1>1, <1>4, <2>1 DEF GoodLists, ListRecord
  <1>8. PICK M : M = RemoveFrom(K, b)
    OBVIOUS
  <1>9. GoodLists(M) /\ ToSet(M.bucket) = ToSet(bucket[t]) \ {b}
    BY <1>4, <1>7, <1>8, GoodRemove
  <1>10. PICK N : N = InsertToPrevious(M, b)
    OBVIOUS
  <1>11. GoodLists(N) /\ ToSet(N.bucket) = ToSet(bucket[t])
    <2>1. b \in Blocks \ ToSet(M.bucket)
      BY <1>5, <1>9
    <2>2. GoodLists(N) /\ ToSet(N.bucket) = ToSet(M.bucket) \cup {b}
      BY <1>9, <1>10, <2>1, GoodInsert
    <2> QED
      BY <1>4, <1>9, <2>2
  <1>12. PICK X : X = [N EXCEPT !.active = b]
    OBVIOUS
  <1>13. GoodLists(X) /\ ToSet(X.bucket) = ToSet(bucket[t]) /\ X \in ListRecord
    <2>1. GoodLists(X) /\ X.bucket = N.bucket
      BY <1>4, <1>11, <1>12, GoodActive
    <2> QED
      BY <1>11, <2>1 DEF GoodLists, ListRecord
  <1>14. SetLists(t, X) /\ TryBlock(t, b, [block[b] EXCEPT !.inPrevious = TRUE], "none")
    BY <1>3, <1>6, <1>8, <1>10, <1>12 DEF ScanFinds
  <1>15. PICK B \in Header : B = [block[b] EXCEPT !.inPrevious = TRUE]
    BY <1>5 DEF Header
  <1>16. /\ SameObjects(block[b], B) /\ B.public = block[b].public
         /\ B.next = block[b].next /\ B.owner = block[b].owner /\ B.thread = block[b].thread
    BY <1>5, <1>15 DEF Header, SameObjects
  <1>17. Settling(t, b, B, X)
    BY <1>0, <1>2, <1>4, <1>13, <1>14, <1>16, SettlingOwn
  <1> QED
    BY <1>1, <1>13, <1>14, <1>15, <1>17, TryStep

(* A block that a thread has in hand is in none of its lists.              *)
LEMMA HandFacts ==
    ASSUME KeepInv, NEW t \in Threads, pc[t] \in InHands, NEW b, b = loc[t].block
    PROVE  /\ b \in Blocks /\ b \in Mapped /\ block[b] \in Header /\ b \in Kept(t)
           /\ b \notin ToSet(bucket[t]) /\ Kept(t) = ToSet(bucket[t]) \cup {b} /\ InHand(t) = {b}
           /\ Placed(b)
  <1>0. TypeOK /\ BlocksKept /\ ObjectsPlaced
    BY DEF KeepInv
  <1>1. InHand(t) = {b} /\ Kept(t) = ToSet(bucket[t]) \cup {b}
    BY DEF InHand, Kept
  <1>2. b \in Blocks /\ b \in Mapped /\ block[b] \in Header /\ b \in Kept(t)
    BY <1>0, <1>1, KeptIsMapped
  <1>3. ToSet(bucket[t]) \cap InHand(t) = {}
    BY <1>0 DEF BlocksKept, OneKeeper
  <1> QED
    BY <1>0, <1>1, <1>2, <1>3 DEF ObjectsPlaced

(* A thread takes the block it has in hand into its lists.                 *)
LEMMA SettlingNew ==
    ASSUME KeepInv, NEW t \in Threads, pc[t] \in {"own_thread", "own_empty"},
           NEW b, b = loc[t].block, NEW B \in Header, Apart(b), Right(B, Away(b)),
           B.public = block[b].public, B.next = block[b].next, B.owner = t, B.thread = t,
           NEW X, X = [InsertToPrevious(ListsOf(t), b) EXCEPT !.active = b] \/ X = InsertToNext(ListsOf(t), b),
           SetLists(t, X), UNCHANGED store
    PROVE  /\ Settling(t, b, B, X)
           /\ loc[t].full \in ToSet(X.bucket) \cup {NoBlock} /\ loc[t].fresh = FALSE
  <1>0. /\ TypeOK /\ GoodThread(t) /\ ReadIsFresh(t) /\ loc[t] \in Locals /\ bucket[t] \in Seq(Blocks)
        /\ ListsOf(t) \in ListRecord /\ ListsOf(t).bucket = bucket[t]
    BY ThreadFacts
  <1>1. /\ GoodLists(ListsOf(t)) /\ loc[t].full \in ToSet(bucket[t]) \cup {NoBlock} /\ loc[t].fresh = FALSE
    BY <1>0 DEF GoodThread, Ending, ReadIsFresh, Locals
  <1>2. /\ b \in Blocks /\ b \in Kept(t) /\ b \notin ToSet(bucket[t]) /\ Kept(t) = ToSet(bucket[t]) \cup {b}
    BY HandFacts DEF InHands
  <1>3. GoodLists(X) /\ ToSet(X.bucket) = Kept(t) /\ X \in ListRecord
    <2>1. CASE X = InsertToNext(ListsOf(t), b)
      <3>1. PICK N : N = InsertToNext(ListsOf(t), b)
        OBVIOUS
      <3>2. b \in Blocks \ ToSet(ListsOf(t).bucket)
        BY <1>0, <1>2
      <3>3. GoodLists(N) /\ ToSet(N.bucket) = ToSet(ListsOf(t).bucket) \cup {b}
        BY <1>1, <3>1, <3>2, GoodInsert
      <3> QED
        BY <1>0, <1>2, <2>1, <3>1, <3>3 DEF GoodLists, ListRecord
    <2>2. CASE X = [InsertToPrevious(ListsOf(t), b) EXCEPT !.active = b]
      <3>1. PICK N : N = InsertToPrevious(ListsOf(t), b)
        OBVIOUS
      <3>2. GoodLists(N) /\ ToSet(N.bucket) = ToSet(ListsOf(t).bucket) \cup {b}
        BY <1>0, <1>1, <1>2, <3>1, GoodInsert
      <3>3. b \in ToSet(N.bucket)
        BY <3>2
      <3>4. GoodLists(X) /\ X.bucket = N.bucket
        BY <2>2, <3>1, <3>2, <3>3, GoodActive
      <3> QED
        BY <1>0, <1>2, <3>2, <3>4 DEF GoodLists, ListRecord
    <2> QED
      BY <2>1, <2>2
  <1>4. \A c : Carried(t, c) = {}
    BY DEF Carried
  <1>5. Right(B, Away(b) \ Carried(t, b))
    <2>1. Away(b) \ Carried(t, b) = Away(b)
      BY <1>4
    <2> QED
      BY <2>1
  <1>6. Due(t) = 0 /\ pc[t] \notin Ending
    BY DEF Due, Ending
  <1>7. loc[t].full \in ToSet(X.bucket) \cup {NoBlock}
    BY <1>1, <1>2, <1>3
  <1>8. Settling(t, b, B, X)
    BY <1>2, <1>3, <1>4, <1>5, <1>6 DEF Settling
  <1> QED
    BY <1>1, <1>7, <1>8

LEMMA OwnThreadKeeps ==
    ASSUME KeepInv, NEW t \in Threads, OwnThread(t)
    PROVE  KeepInv' /\ PoolStep
  <1>1. PICK b : b = loc[t].block
    OBVIOUS
  <1>2. pc[t] = "own_thread" /\ UNCHANGED store
    BY DEF OwnThread
  <1>3. b \in Blocks /\ b \in Mapped /\ block[b] \in Header /\ b \in Kept(t) /\ Placed(b) /\ TypeOK
    BY <1>1, <1>2, HandFacts DEF InHands, KeepInv
  <1>4. Apart(b) /\ Right(block[b], Away(b))
    <2>1. At({"own_empty"}, b) = {}
      BY <1>2, <1>3, HeldIsNotNew DEF KeepInv
    <2> QED
      BY <1>3, <2>1 DEF Placed
  <1>5. PICK r \in BOOLEAN : r = IsReady(block[b])
    BY DEF IsReady, EmptyEnough
  <1>6. PICK B \in Header : B = [block[b] EXCEPT !.thread = t, !.inPrevious = r]
    BY <1>3 DEF Header
  <1>7. /\ B.thread = t /\ B.owner = block[b].owner /\ B.public = block[b].public
        /\ B.next = block[b].next /\ SameObjects(block[b], B)
    BY <1>3, <1>6 DEF Header, SameObjects
  <1>8. B.owner = t
    BY <1>1, <1>2, <1>7 DEF KeepInv, OwnersGood
  <1>9. Right(B, Away(b))
    BY <1>4, <1>7, RightOfSame
  <1>10. PICK X : X = (IF r THEN [InsertToPrevious(ListsOf(t), b) EXCEPT !.active = b]
                       ELSE InsertToNext(ListsOf(t), b))
    OBVIOUS
  <1>11. SetLists(t, X) /\ TryBlock(t, b, B, "pop")
    BY <1>1, <1>5, <1>6, <1>10 DEF OwnThread
  <1>12. /\ Settling(t, b, B, X)
         /\ loc[t].full \in ToSet(X.bucket) \cup {NoBlock} /\ loc[t].fresh = FALSE
    BY <1>1, <1>2, <1>4, <1>7, <1>8, <1>9, <1>10, <1>11, SettlingNew
  <1> QED
    BY <1>11, <1>12, TryStep

LEMMA OwnEmptyKeeps ==
    ASSUME KeepInv, NEW t \in Threads, OwnEmpty(t)
    PROVE  KeepInv' /\ PoolStep
  <1>1. PICK b : b = loc[t].block
    OBVIOUS
  <1>2. pc[t] = "own_empty" /\ UNCHANGED store
    BY DEF OwnEmpty
  <1>3. b \in Blocks /\ b \in Mapped /\ block[b] \in Header /\ b \in Kept(t) /\ Placed(b)
    BY <1>1, <1>2, HandFacts DEF InHands
  <1>4. Apart(b) /\ Away(b) = {} /\ block[b].allocated = 0
    <2>1. At({"own_empty"}, b) # {}
      BY <1>1, <1>2 DEF At
    <2> QED
      BY <1>3, <2>1 DEF Placed
  <1>5. PICK C \in Header : C = [block[b] EXCEPT !.owner = t, !.thread = t, !.inPrevious = TRUE]
    BY <1>3 DEF Header
  <1>6. /\ C.thread = t /\ C.owner = t /\ C.public = block[b].public
        /\ C.next = block[b].next /\ C.allocated = 0
    BY <1>3, <1>4, <1>5 DEF Header
  <1>7. PICK B : B = Restore(C)
    OBVIOUS
  <1>8. B \in Header /\ Right(B, Away(b)) /\ SameRest(C, B) /\ HasRoom(B)
    BY <1>4, <1>6, <1>7, RightRestored
  <1>9. /\ B.thread = t /\ B.owner = t /\ B.public = block[b].public /\ B.next = block[b].next
    BY <1>6, <1>8 DEF SameRest
  <1>10. PICK X : X = [InsertToPrevious(ListsOf(t), b) EXCEPT !.active = b]
    OBVIOUS
  <1>11. SetLists(t, X) /\ Grant(t, b, B)
    BY <1>1, <1>5, <1>7, <1>10 DEF OwnEmpty
  <1>12. Settling(t, b, B, X)
    BY <1>1, <1>2, <1>4, <1>8, <1>9, <1>10, <1>11, SettlingNew
  <1> QED
    BY <1>8, <1>11, <1>12, GrantStep

LEMMA AllocCountsKeeps ==
    ASSUME KeepInv, NEW t \in Threads, AllocCounts(t)
    PROVE  KeepInv' /\ PoolStep
  <1>0. /\ TypeOK /\ GoodThread(t) /\ ReadIsFresh(t) /\ loc[t] \in Locals /\ bucket[t] \in Seq(Blocks)
        /\ ListsOf(t) \in ListRecord /\ ListsOf(t).bucket = bucket[t] /\ pc[t] = "count"
        /\ BlocksKept /\ ObjectsPlaced /\ OwnersGood
    BY ThreadFacts DEF AllocCounts, KeepInv
  <1>1. /\ GoodLists(ListsOf(t)) /\ loc[t].full \in ToSet(bucket[t]) \cup {NoBlock} /\ loc[t].fresh = FALSE
        /\ loc[t].block \in ToSet(bucket[t])
    BY <1>0 DEF GoodThread, Ending, AtWork, ReadIsFresh, Locals
  <1>2. UNCHANGED store /\ UNCHANGED lists
    BY DEF AllocCounts
  <1>3. PICK b : b = loc[t].block
    OBVIOUS
  <1>4. PICK taken : taken = loc[t].taken
    OBVIOUS
  <1>5. b \in Kept(t) /\ b \in Blocks /\ b \in Mapped /\ block[b] \in Header
    <2>1. b \in Kept(t)
      BY <1>1, <1>3 DEF Kept
    <2> QED
      BY <1>0, <2>1, KeptIsMapped
  <1>6. Apart(b) /\ Right(block[b], Away(b))
    <2>1. At({"own_empty"}, b) = {}
      BY <1>0, <1>5, HeldIsNotNew
    <2> QED
      BY <1>0, <1>5, <2>1 DEF ObjectsPlaced, Placed
  <1>7. Carried(t, b) = taken /\ \A c \in Blocks \ {b} : Carried(t, c) = {}
    BY <1>0, <1>3, <1>4 DEF Carried
  <1>8. taken \in SUBSET Away(b)
    BY <1>7 DEF Away, CarriedAll
  <1>9. PICK R : R = Repatriate(block[b], taken)
    OBVIOUS
  <1>10. /\ R \in Header /\ Right(R, Away(b) \ taken) /\ R.public = block[b].public
         /\ R.owner = block[b].owner /\ R.thread = block[b].thread /\ R.next = block[b].next
    <2>1. PICK A : A = block[b]
      OBVIOUS
    <2>2. A \in Header /\ Right(A, Away(b)) /\ R = Repatriate(A, taken)
      BY <1>5, <1>6, <1>9, <2>1
    <2>3. /\ R \in Header /\ Right(R, Away(b) \ taken) /\ R.public = A.public
          /\ R.owner = A.owner /\ R.thread = A.thread /\ R.next = A.next
      BY <1>8, <2>2, RightRepatriated
    <2> QED
      BY <2>1, <2>3
  <1>11. PICK B : B = RestoreIfEmpty(R)
    OBVIOUS
  <1>12. B \in Header /\ Right(B, Away(b) \ taken) /\ SameRest(R, B)
    BY <1>10, <1>11, RightIfEmpty
  <1>13. /\ B.public = block[b].public /\ B.next = block[b].next /\ B.owner = t /\ B.thread = t
    BY <1>0, <1>1, <1>3, <1>10, <1>12 DEF SameRest, OwnersGood
  <1>14. Settling(t, b, B, ListsOf(t))
    <2>1. InHand(t) = {} /\ Kept(t) = ToSet(bucket[t]) /\ Due(t) = 0 /\ pc[t] \notin Ending
      BY <1>0 DEF InHand, InHands, Kept, Due, Ending
    <2> QED
      BY <1>0, <1>1, <1>2, <1>5, <1>6, <1>7, <1>12, <1>13, <2>1 DEF Settling
  <1>15. CASE HasRoom(B)
    <2>1. Grant(t, b, B)
      BY <1>3, <1>4, <1>9, <1>11, <1>15 DEF AllocCounts
    <2> QED
      BY <1>14, <1>15, <2>1, GrantStep
  <1>16. CASE ~HasRoom(B)
    <2>1. PICK L \in Locals : L = [loc[t] EXCEPT !.taken = {}]
      BY <1>0 DEF Locals
    <2>2. L.full = loc[t].full /\ L.fresh = FALSE /\ L.block = b
      BY <1>0, <1>1, <1>3, <2>1 DEF Locals
    <2>3. PICK p \in {"walk", "none", "pop"} : p = loc[t].stage
      BY <1>0 DEF Locals
    <2>4. Moved(t, p, L)
      BY <1>0, <1>3, <1>4, <1>9, <1>11, <1>16, <2>1, <2>3 DEF AllocCounts, Moved, Places, GoTo, TypeOK
    <2>5. block' = [block EXCEPT ![b] = B] /\ held' = held
      BY <1>3, <1>4, <1>9, <1>11, <1>16 DEF AllocCounts
    <2>6. L.full \in ToSet(ListsOf(t).bucket) \cup {NoBlock}
      BY <1>0, <1>1, <2>2
    <2> QED
      BY <1>14, <2>2, <2>3, <2>4, <2>5, <2>6, TriedStep
  <1> QED
    BY <1>15, <1>16

-----------------------------------------------------------------------------
\* Steps that write to a block and do not settle one

LEMMA BlockMove ==
    ASSUME KeepInv, NEW t \in Threads, NEW p, NEW L, Moved(t, p, L),
           NEW X \in ListRecord, SetLists(t, X) \/ (X = ListsOf(t) /\ UNCHANGED lists),
           NEW b \in Mapped, NEW C \in Header, block' = [block EXCEPT ![b] = C],
           held' \in [Objects -> {0, 1}], UNCHANGED store,
           {p, pc[t]} \cap {"uncount", "push_empty", "own_empty", "pop_next", "pop_cas"} = {},
           IsInjective(X.bucket), ToSet(X.bucket) \subseteq ToSet(bucket[t]),
           ToSet(X.bucket) \cup (IF p \in InHands THEN {L.block} ELSE {}) = Kept(t),
           ToSet(X.bucket) \cap (IF p \in InHands THEN {L.block} ELSE {}) = {},
           p \notin Ending => /\ GoodLists(X) /\ ToSet(X.bucket) = ToSet(bucket[t]) /\ pc[t] \notin Ending
                              /\ L.full \in ToSet(bucket[t]) \cup {NoBlock},
           p \in AtWork => L.block \in ToSet(X.bucket),
           p \in Ending => ToSet(L.todo) \subseteq ToSet(X.bucket) \ {L.block} /\ IsInjective(L.todo),
           p \in {"publish", "tally"} => L.block \in Blocks,
           L.fresh = FALSE, Placed(b)',
           C.next = block[b].next, C.thread = block[b].thread,
           b \in Kept(t) \/ (C.owner = block[b].owner /\ C.allocated = block[b].allocated),
           b \in ToSet(X.bucket) => C.owner = block[b].owner,
           p \in EmptyHands => L.block = b /\ C.allocated = 0,
           p = "own_thread" => L.block = b /\ C.owner = t,
           \A c \in Blocks \ {b} : Program(c)' = Program(c) /\ Carried(t, c)' = Carried(t, c)
    PROVE  KeepInv'
  <1>0. TypeOK /\ GoodThread(t) /\ OwnersGood /\ BlocksKept
    BY ThreadFacts DEF KeepInv
  <1>1. /\ Others(t) /\ pc'[t] = p /\ loc'[t] = L
        /\ bucket'[t] = X.bucket /\ ListsOf(t)' = X
        /\ pc' \in [Threads -> Places] /\ loc' \in [Threads -> Locals]
        /\ bucket' \in [Threads -> Seq(Blocks)]
        /\ active' \in [Threads -> Blocks \cup {NoBlock}]
        /\ lastNext' \in [Threads -> Blocks \cup {NoBlock}]
    BY <1>0, MovedOnly DEF ListRecord
  <1>2. b \in Blocks /\ block'[b] = C /\ \A c \in Blocks \ {b} : block'[c] = block[c]
    BY <1>0 DEF TypeOK, Mapped
  <1>3. TypeOK'
    <2>1. block' \in [Blocks -> Header \cup NoHeader]
      BY <1>0, <1>2 DEF TypeOK
    <2> QED
      BY <1>0, <1>1, <2>1 DEF TypeOK, store
  <1>4. Due(t) = 0 /\ Due(t)' = 0 /\ emptyCount' = (emptyCount - Due(t)) + Due(t)' /\ top' = top
    <2>1. Due(t) = 0 /\ Due(t)' = 0
      BY <1>1 DEF Due
    <2> QED
      BY <1>0, <2>1 DEF store, TypeOK
  <1>5. Kept(t)' = Kept(t) /\ ToSet(bucket'[t]) \cap InHand(t)' = {}
    <2>1. InHand(t)' = IF p \in InHands THEN {L.block} ELSE {}
      BY <1>1 DEF InHand
    <2> QED
      BY <1>1, <2>1 DEF Kept
  <1>6. GoodThread(t)'
    <2>1. GoodLists(X) => GoodLists(ListsOf(t))'
      BY <1>1 DEF GoodLists
    <2> QED
      BY <1>1, <2>1 DEF GoodThread
  <1>7. ReadIsFresh(t)'
    BY <1>1 DEF ReadIsFresh
  <1>8. \A c \in ToSet(bucket'[t]) : block'[c].owner = t /\ block'[c].thread = t
    <2> SUFFICES ASSUME NEW c \in ToSet(bucket'[t]) PROVE block'[c].owner = t /\ block'[c].thread = t
      OBVIOUS
    <2>1. c \in ToSet(bucket[t]) /\ block[c].owner = t /\ block[c].thread = t
      BY <1>0, <1>1 DEF OwnersGood
    <2>2. c \in Blocks
      BY <2>1, ThreadFacts
    <2> QED
      BY <1>1, <1>2, <2>1, <2>2
  <1>9. pc'[t] \notin Ending => \A c \in Mapped : block'[c].thread = t => c \in ToSet(bucket'[t])
    <2> SUFFICES ASSUME p \notin Ending, NEW c \in Mapped, block'[c].thread = t
                 PROVE  c \in ToSet(bucket[t])
      BY <1>1
    <2>1. block[c].thread = t
      BY <1>2 DEF Mapped
    <2> QED
      BY <1>0, <2>1 DEF OwnersGood
  <1>10. /\ pc'[t] \in EmptyHands => block'[loc'[t].block].allocated = 0
         /\ pc'[t] = "own_thread" => block'[loc'[t].block].owner = t
         /\ pc[t] # "own_empty" /\ pc'[t] # "own_empty"
    BY <1>1, <1>2
  <1> QED
    BY <1>1, <1>3, <1>4, <1>5, <1>6, <1>7, <1>8, <1>9, <1>10, BlockStep

LEMMA NewStays ==
    ASSUME NEW t \in Threads, Others(t), NEW b, At({"own_empty"}, b) = {}, pc'[t] # "own_empty"
    PROVE  At({"own_empty"}, b)' = {}
  BY DEF Others, At

(* A block with an object that the program or a thread has is mapped.      *)
LEMMA UsedIsMapped ==
    ASSUME KeepInv, NEW b \in Blocks, NEW o, o \in Program(b) \cup CarriedAll(b)
    PROVE  b \in Mapped /\ block[b] \in Header /\ Apart(b) /\ Right(block[b], Away(b)) /\ At({"own_empty"}, b) = {}
  <1>1. Placed(b) /\ TypeOK
    BY DEF KeepInv, ObjectsPlaced
  <1>2. b \in Mapped /\ Away(b) # {}
    BY <1>1 DEF Placed, Away
  <1> QED
    BY <1>1, <1>2, MappedHeader DEF Placed

(* The facts of a step that changes no lists.                              *)
LEMMA ListsStay ==
    ASSUME KeepInv, NEW t \in Threads, UNCHANGED lists
    PROVE  /\ ListsOf(t) \in ListRecord /\ ListsOf(t).bucket = bucket[t]
           /\ IsInjective(bucket[t]) /\ (pc[t] \notin Ending => GoodLists(ListsOf(t)))
           /\ pc[t] \notin Ending => loc[t].full \in ToSet(bucket[t]) \cup {NoBlock}
           /\ pc[t] \notin InHands => Kept(t) = ToSet(bucket[t])
           /\ pc[t] \notin {"pop_next", "pop_cas"} => loc[t].fresh = FALSE
  <1>1. GoodThread(t) /\ ListsOf(t) \in ListRecord /\ ListsOf(t).bucket = bucket[t]
        /\ ReadIsFresh(t) /\ loc[t] \in Locals
    BY ThreadFacts
  <1>2. pc[t] \notin InHands => Kept(t) = ToSet(bucket[t])
    BY DEF Kept, InHand
  <1>3. pc[t] \notin {"pop_next", "pop_cas"} => loc[t].fresh = FALSE
    BY <1>1 DEF ReadIsFresh, Locals
  <1> QED
    BY <1>1, <1>2, <1>3 DEF GoodThread

LEMMA MovedSame ==
    ASSUME KeepInv, NEW t \in Threads, NEW p, NEW L, Moved(t, p, L), UNCHANGED lists
    PROVE  Others(t) /\ pc'[t] = p /\ loc'[t] = L
  <1>1. TypeOK /\ ListsOf(t) \in ListRecord
    BY ThreadFacts
  <1>2. PICK X \in ListRecord : X = ListsOf(t)
    BY <1>1
  <1> QED
    BY <1>1, <1>2, MovedOnly DEF ListRecord

(* A step that leaves the lists alone, too.                                *)
LEMMA HeaderMove ==
    ASSUME KeepInv, NEW t \in Threads, NEW p, NEW L, Moved(t, p, L), UNCHANGED lists, UNCHANGED store,
           NEW b \in Mapped, NEW C \in Header, block' = [block EXCEPT ![b] = C],
           held' \in [Objects -> {0, 1}],
           {p, pc[t]} \cap {"uncount", "push_empty", "own_empty", "pop_next", "pop_cas"} = {},
           (IF p \in InHands THEN {L.block} ELSE {}) = InHand(t), p \notin EmptyHands,
           p \notin Ending => pc[t] \notin Ending /\ L.full \in ToSet(bucket[t]) \cup {NoBlock},
           p \in AtWork => L.block \in ToSet(bucket[t]),
           p \in Ending => ToSet(L.todo) \subseteq ToSet(bucket[t]) \ {L.block} /\ IsInjective(L.todo),
           p \in {"publish", "tally"} => L.block \in Blocks,
           L.fresh = FALSE, Placed(b)',
           C.next = block[b].next, C.thread = block[b].thread,
           C.owner = block[b].owner \/ b \in InHand(t),
           b \in Kept(t) \/ C.allocated = block[b].allocated,
           p = "own_thread" => L.block = b /\ C.owner = t,
           \A c \in Blocks \ {b} : Program(c)' = Program(c) /\ Carried(t, c)' = Carried(t, c)
    PROVE  KeepInv'
  <1>1. /\ GoodThread(t) /\ ListsOf(t) \in ListRecord /\ ListsOf(t).bucket = bucket[t]
    BY ThreadFacts
  <1>2. PICK X \in ListRecord : X = ListsOf(t)
    BY <1>1
  <1>3. /\ IsInjective(X.bucket) /\ ToSet(X.bucket) = ToSet(bucket[t])
        /\ p \notin Ending => GoodLists(X)
    BY <1>1, <1>2 DEF GoodThread
  <1>4. PICK H : H = IF p \in InHands THEN {L.block} ELSE {}
    OBVIOUS
  <1>5. ToSet(bucket[t]) \cup H = Kept(t) /\ ToSet(bucket[t]) \cap H = {}
    <2>1. ToSet(bucket[t]) \cap InHand(t) = {}
      BY DEF KeepInv, BlocksKept, OneKeeper
    <2> QED
      BY <1>4, <2>1 DEF Kept
  <1>6. b \in ToSet(X.bucket) => C.owner = block[b].owner
    BY <1>3, <1>4, <1>5
  <1>7. b \in Kept(t) \/ (C.owner = block[b].owner /\ C.allocated = block[b].allocated)
    BY DEF Kept
  <1> QED
    BY <1>2, <1>3, <1>4, <1>5, <1>6, <1>7, BlockMove, ZenonT(60)

LEMMA OwnBlockKeeps ==
    ASSUME KeepInv, NEW t \in Threads, OwnBlock(t)
    PROVE  KeepInv' /\ PoolStep
  <1>1. PICK b : b = loc[t].block
    OBVIOUS
  <1>2. pc[t] = "own" /\ UNCHANGED store /\ UNCHANGED lists /\ held' = held
    BY DEF OwnBlock
  <1>3. /\ b \in Blocks /\ b \in Mapped /\ block[b] \in Header /\ b \in Kept(t)
        /\ b \notin ToSet(bucket[t]) /\ Kept(t) = ToSet(bucket[t]) \cup {b} /\ Placed(b)
    BY <1>1, <1>2, HandFacts DEF InHands
  <1>4. TypeOK /\ loc[t] \in Locals
    BY ThreadFacts
  <1>5. PICK C \in Header : C = [block[b] EXCEPT !.owner = t]
    BY <1>3 DEF Header
  <1>6. /\ C.owner = t /\ C.thread = block[b].thread /\ C.public = block[b].public
        /\ C.next = block[b].next /\ SameObjects(block[b], C)
    BY <1>3, <1>5 DEF Header, SameObjects
  <1>7. block' = [block EXCEPT ![b] = C]
    BY <1>1, <1>5 DEF OwnBlock
  <1>8. Moved(t, "own_thread", loc[t])
    BY <1>4 DEF OwnBlock, Moved, GoTo, Places, TypeOK
  <1>9. /\ Others(t) /\ pc'[t] = "own_thread" /\ loc'[t] = loc[t]
    BY <1>2, <1>8, MovedSame
  <1>10. \A c : Program(c)' = Program(c) /\ Carried(t, c)' = Carried(t, c)
    BY <1>2, <1>9 DEF Program, InUse, Carried
  <1>11. Placed(b)'
    <2>1. block'[b] = C /\ C.mapped = block[b].mapped
      BY <1>3, <1>4, <1>7 DEF TypeOK, Header
    <2> QED
      BY <1>2, <1>3, <1>6, <1>9, <1>10, <2>1, PlacedSame
  <1>12. held' \in [Objects -> {0, 1}]
    BY <1>2, <1>4 DEF TypeOK
  <1>13. KeepInv'
    <2>1. loc[t].full \in ToSet(bucket[t]) \cup {NoBlock} /\ loc[t].fresh = FALSE
      BY <1>2, ListsStay DEF Ending
    <2>2. InHand(t) = {b}
      BY <1>1, <1>2 DEF InHand, InHands
    <2>3. PICK p, L : p = "own_thread" /\ L = loc[t]
      OBVIOUS
    <2>4. /\ {p, pc[t]} \cap {"uncount", "push_empty", "own_empty", "pop_next", "pop_cas"} = {}
          /\ (IF p \in InHands THEN {L.block} ELSE {}) = InHand(t) /\ p \notin EmptyHands
          /\ p \notin AtWork /\ p \notin Ending /\ pc[t] \notin Ending
      BY <1>1, <1>2, <2>2, <2>3 DEF InHands, Ending, AtWork, EmptyHands
    <2>5. Moved(t, p, L)
      BY <1>8, <2>3
    <2> QED
      BY <1>1, <1>2, <1>3, <1>6, <1>7, <1>10, <1>11, <1>12, <2>1, <2>2, <2>3, <2>4, <2>5, HeaderMove, ZenonT(60)
  <1> QED
    BY <1>2, <1>13 DEF PoolStep

LEMMA TallyKeeps ==
    ASSUME KeepInv, NEW t \in Threads, Tally(t)
    PROVE  KeepInv' /\ PoolStep
  <1>1. PICK b : b = loc[t].block
    OBVIOUS
  <1>2. pc[t] = "tally" /\ UNCHANGED store /\ UNCHANGED lists /\ held' = held
    BY DEF Tally
  <1>3. /\ TypeOK /\ loc[t] \in Locals /\ b \in Blocks /\ Placed(b)
    BY <1>1, <1>2, ThreadFacts DEF GoodThread, KeepInv, ObjectsPlaced
  <1>4. b \in Mapped /\ block[b] \in Header
    BY <1>1, <1>3, MappedHeader DEF Tally
  <1>5. PICK n \in Int : n = block[b].number + 1
    <2>1. PICK A \in Header : A = block[b]
      BY <1>4
    <2>2. A.number \in Int
      BY DEF Header
    <2> QED
      BY <2>1, <2>2
  <1>6. PICK C \in Header : C = [block[b] EXCEPT !.number = n]
    BY <1>4 DEF Header
  <1>7. /\ C.owner = block[b].owner /\ C.thread = block[b].thread /\ C.public = block[b].public
        /\ C.next = block[b].next /\ SameObjects(block[b], C) /\ C.allocated = block[b].allocated
    BY <1>4, <1>6 DEF Header, SameObjects
  <1>8. block' = [block EXCEPT ![b] = C]
    BY <1>1, <1>5, <1>6 DEF Tally
  <1>9. Moved(t, "idle", NoLocals)
    BY NoLocalsTyped DEF Tally, Back, GoTo, Moved, Places
  <1>10. /\ Others(t) /\ pc'[t] = "idle" /\ loc'[t] = NoLocals
    BY <1>2, <1>9, MovedSame
  <1>11. \A c : Program(c)' = Program(c) /\ Carried(t, c)' = Carried(t, c)
    BY <1>2, <1>10 DEF Program, InUse, Carried
  <1>12. Placed(b)'
    <2>1. block'[b] = C /\ C.mapped = block[b].mapped
      BY <1>3, <1>4, <1>8 DEF TypeOK, Header
    <2> QED
      BY <1>2, <1>3, <1>7, <1>10, <1>11, <2>1, PlacedSame
  <1>13. held' \in [Objects -> {0, 1}]
    BY <1>2, <1>3 DEF TypeOK
  <1>14. KeepInv'
    <2>1. InHand(t) = {}
      BY <1>2 DEF InHand, InHands
    <2>2. NoLocals.full = NoBlock /\ NoLocals.fresh = FALSE
      BY NoLocalsTyped
    <2>3. PICK p, L : p = "idle" /\ L = NoLocals
      OBVIOUS
    <2>4. /\ {p, pc[t]} \cap {"uncount", "push_empty", "own_empty", "pop_next", "pop_cas"} = {}
          /\ (IF p \in InHands THEN {L.block} ELSE {}) = InHand(t) /\ p \notin EmptyHands
          /\ p \notin AtWork /\ p \notin Ending /\ pc[t] \notin Ending
      BY <1>2, <2>1, <2>3 DEF InHands, Ending, AtWork, EmptyHands
    <2>5. Moved(t, p, L)
      BY <1>9, <2>3
    <2> QED
      BY <1>2, <1>4, <1>7, <1>8, <1>11, <1>12, <1>13, <2>2, <2>3, <2>4, <2>5, HeaderMove
  <1> QED
    BY <1>2, <1>14 DEF PoolStep

(* The objects of the public list are now with the thread that took them.  *)
LEMMA SwapKeeps ==
    ASSUME KeepInv, NEW t \in Threads, NEW p, Swap(t, p),
           \/ pc[t] = "swap" /\ p = "count"
           \/ pc[t] = "destruct" /\ p = "lose"
    PROVE  KeepInv' /\ PoolStep
  <1>1. PICK b : b = loc[t].block
    OBVIOUS
  <1>2. UNCHANGED store /\ UNCHANGED lists /\ held' = held
    BY DEF Swap
  <1>3. /\ TypeOK /\ GoodThread(t) /\ loc[t] \in Locals /\ BlocksKept /\ ObjectsPlaced
        /\ b \in ToSet(bucket[t])
    BY <1>1, ThreadFacts DEF KeepInv, GoodThread, AtWork
  <1>4. b \in Kept(t) /\ b \in Blocks /\ b \in Mapped /\ block[b] \in Header /\ InHand(t) = {}
    <2>1. b \in Kept(t) /\ InHand(t) = {}
      BY <1>3 DEF Kept, InHand, InHands
    <2> QED
      BY <1>3, <2>1, KeptIsMapped
  <1>5. Apart(b) /\ Right(block[b], Away(b))
    <2>1. At({"own_empty"}, b) = {}
      BY <1>3, <1>4, HeldIsNotNew
    <2> QED
      BY <1>3, <1>4, <2>1 DEF ObjectsPlaced, Placed
  <1>6. PICK P \in SUBSET Slots : P = block[b].public
    <2>1. PICK A \in Header : A = block[b]
      BY <1>4
    <2>2. A.public \in SUBSET Slots
      BY DEF Header
    <2> QED
      BY <2>1, <2>2
  <1>7. PICK L \in Locals : L = [loc[t] EXCEPT !.taken = P]
    BY <1>3 DEF Locals
  <1>8. L.taken = P /\ L.block = b /\ L.full = loc[t].full /\ L.todo = loc[t].todo /\ L.fresh = loc[t].fresh
    BY <1>1, <1>3, <1>7 DEF Locals
  <1>9. Moved(t, p, L)
    BY <1>1, <1>3, <1>6, <1>7 DEF Swap, Moved, GoTo, Places, Ending, TypeOK
  <1>10. Others(t) /\ pc'[t] = p /\ loc'[t] = L
    BY <1>2, <1>9, MovedSame
  <1>11. PICK C \in Header : C = [block[b] EXCEPT !.public = {}]
    BY <1>4 DEF Header
  <1>12. /\ C.owner = block[b].owner /\ C.thread = block[b].thread /\ C.public = {}
         /\ C.next = block[b].next /\ SameObjects(block[b], C) /\ C.allocated = block[b].allocated
         /\ C.mapped = TRUE
    BY <1>4, <1>11 DEF Header, SameObjects
  <1>13. block' = [block EXCEPT ![b] = C]
    BY <1>1, <1>11 DEF Swap
  <1>14. block'[b] = C
    BY <1>3, <1>4, <1>13 DEF TypeOK
  <1>15. /\ \A c : Program(c)' = Program(c) /\ Carried(t, c) = {}
         /\ \A c \in Blocks \ {b} : Carried(t, c)' = {}
         /\ Carried(t, b)' = P
    BY <1>2, <1>8, <1>10 DEF Program, InUse, Carried
  <1>16. Placed(b)'
    <2>1. PICK new : new = {}
      OBVIOUS
    <2>2. P \cap Program(b) = {}
      BY <1>5, <1>6 DEF Apart
    <2>3. new \cap Away(b) = {} /\ Program(b)' \cap block'[b].public = {}
      BY <1>12, <1>14, <2>1
    <2>4. Carried(t, b)' \cap (Program(b)' \cup block'[b].public) = {}
      BY <1>12, <1>14, <1>15, <2>2
    <2>5. Program(b)' \cup block'[b].public \cup Carried(t, b)' \subseteq
               Program(b) \cup block[b].public \cup Carried(t, b) \cup new
      BY <1>6, <1>12, <1>14, <1>15
    <2>6. /\ Apart(b)'
          /\ Away(b)' = (Away(b) \ (Program(b) \cup block[b].public \cup Carried(t, b)))
                            \cup Program(b)' \cup block'[b].public \cup Carried(t, b)'
      BY <1>4, <1>5, <1>10, <2>3, <2>4, <2>5, PlacedMoved
    <2>7. Program(b) \subseteq Away(b) /\ block[b].public \subseteq Away(b)
      BY DEF Away
    <2>8. Away(b)' = Away(b)
      BY <1>6, <1>12, <1>14, <1>15, <2>6, <2>7
    <2>9. At({"own_empty"}, b)' = {}
      BY <1>3, <1>4, <1>10, NotNewAfter
    <2>10. Right(C, Away(b)) /\ (b \in Mapped)'
      BY <1>4, <1>5, <1>12, <1>14, RightOfSame DEF Mapped
    <2> QED
      BY <1>14, <2>6, <2>8, <2>9, <2>10 DEF Placed
  <1>17. held' \in [Objects -> {0, 1}]
    BY <1>2, <1>3 DEF TypeOK
  <1>18. KeepInv'
    <2>1. L.fresh = FALSE /\ (pc[t] \notin Ending => L.full \in ToSet(bucket[t]) \cup {NoBlock})
      BY <1>2, <1>8, ListsStay
    <2>2. p \in Ending => ToSet(L.todo) \subseteq ToSet(bucket[t]) \ {L.block} /\ IsInjective(L.todo)
      BY <1>1, <1>3, <1>8 DEF GoodThread, Ending
    <2>3. /\ {p, pc[t]} \cap {"uncount", "push_empty", "own_empty", "pop_next", "pop_cas"} = {}
          /\ (IF p \in InHands THEN {L.block} ELSE {}) = InHand(t) /\ p \notin EmptyHands
          /\ (p \notin Ending => pc[t] \notin Ending) /\ p \notin {"publish", "tally", "own_thread"}
      BY <1>4 DEF InHands, Ending, AtWork, EmptyHands
    <2>4. \A c \in Blocks \ {b} : Program(c)' = Program(c) /\ Carried(t, c)' = Carried(t, c)
      BY <1>15
    <2> QED
      BY <1>2, <1>3, <1>4, <1>8, <1>9, <1>12, <1>13, <1>16, <1>17, <2>1, <2>2, <2>3, <2>4, HeaderMove
  <1> QED
    BY <1>2, <1>18 DEF PoolStep

LEMMA FreeForeignKeeps ==
    ASSUME KeepInv, NEW t \in Threads, FreeForeign(t)
    PROVE  KeepInv' /\ PoolStep
  <1>1. UNCHANGED store /\ UNCHANGED lists /\ block' = block /\ pc[t] = "idle"
    BY DEF FreeForeign
  <1>2. /\ TypeOK /\ GoodThread(t) /\ loc[t] \in Locals /\ BlocksKept /\ ObjectsPlaced
    BY ThreadFacts DEF KeepInv
  <1>3. PICK x \in InUse : /\ held' = [held EXCEPT ![x] = @ - 1]
                           /\ loc' = [loc EXCEPT ![t].block = x[1], ![t].object = x[2]]
    BY DEF FreeForeign
  <1>4. PICK b \in Blocks, o \in Slots : x = <<b, o>> /\ o \in Program(b)
    BY DEF InUse, Objects, Program
  <1>5. b \in Mapped /\ block[b] \in Header /\ Apart(b) /\ Right(block[b], Away(b)) /\ At({"own_empty"}, b) = {}
    BY <1>4, UsedIsMapped
  <1>6. held[x] = 1 /\ held' = [held EXCEPT ![x] = 0] /\ x \in Objects
    <2>1. x \in Objects /\ held[x] > 0
      BY DEF InUse
    <2>2. held[x] \in {0, 1}
      BY <1>2, <2>1 DEF TypeOK
    <2>3. held[x] = 1
      BY <2>1, <2>2
    <2> QED
      BY <1>2, <1>3, <2>1, <2>3 DEF TypeOK
  <1>7. /\ held' \in [Objects -> {0, 1}] /\ Program(b)' = Program(b) \ {o}
        /\ \A c \in Blocks \ {b} : Program(c)' = Program(c)
    <2>1. PICK v \in {0, 1} : v = 0
      OBVIOUS
    <2>2. held' = [held EXCEPT ![<<b, o>>] = v]
      BY <1>4, <1>6, <2>1
    <2>3. /\ held' \in [Objects -> {0, 1}]
          /\ Program(b)' = IF v = 1 THEN Program(b) \cup {o} ELSE Program(b) \ {o}
          /\ \A c \in Blocks \ {b} : Program(c)' = Program(c)
      BY <1>2, <1>4, <2>2, ProgramChanged
    <2> QED
      BY <2>1, <2>3
  <1>8. PICK L \in Locals : L = [loc[t] EXCEPT !.block = b, !.object = o]
    BY <1>2, <1>4 DEF Locals
  <1>9. L.block = b /\ L.object = o /\ L.full = loc[t].full /\ L.fresh = loc[t].fresh
    BY <1>2, <1>8 DEF Locals
  <1>10. Moved(t, "publish", L)
    <2>1. loc' = [loc EXCEPT ![t] = L]
      BY <1>2, <1>3, <1>4, <1>8 DEF TypeOK
    <2> QED
      BY <2>1 DEF FreeForeign, Moved, GoTo, Places
  <1>11. Others(t) /\ pc'[t] = "publish" /\ loc'[t] = L
    BY <1>1, <1>10, MovedSame
  <1>12. (\A c : Carried(t, c) = {}) /\ Carried(t, b)' = {o} /\ \A c \in Blocks \ {b} : Carried(t, c)' = {}
    BY <1>1, <1>9, <1>11 DEF Carried
  <1>13. Placed(b)'
    <2>1. PICK new : new = {}
      OBVIOUS
    <2>2. block[b].public \cap Program(b) = {}
      BY <1>5 DEF Apart
    <2>3. new \cap Away(b) = {} /\ Program(b)' \cap block'[b].public = {}
      BY <1>1, <1>7, <2>1, <2>2
    <2>4. Carried(t, b)' \cap (Program(b)' \cup block'[b].public) = {}
      BY <1>1, <1>4, <1>7, <1>12, <2>2
    <2>5. Program(b)' \cup block'[b].public \cup Carried(t, b)' \subseteq
               Program(b) \cup block[b].public \cup Carried(t, b) \cup new
      BY <1>1, <1>4, <1>7, <1>12
    <2>6. /\ Apart(b)'
          /\ Away(b)' = (Away(b) \ (Program(b) \cup block[b].public \cup Carried(t, b)))
                            \cup Program(b)' \cup block'[b].public \cup Carried(t, b)'
      BY <1>5, <1>11, <2>3, <2>4, <2>5, PlacedMoved
    <2>7. Program(b) \subseteq Away(b) /\ block[b].public \subseteq Away(b)
      BY DEF Away
    <2>8. Away(b)' = Away(b)
      BY <1>1, <1>4, <1>7, <1>12, <2>6, <2>7
    <2>9. At({"own_empty"}, b)' = {}
      BY <1>5, <1>11, NewStays
    <2> QED
      BY <1>1, <1>5, <2>6, <2>8, <2>9 DEF Placed, Mapped
  <1>14. KeepInv'
    <2>1. L.fresh = FALSE /\ L.full \in ToSet(bucket[t]) \cup {NoBlock} /\ InHand(t) = {}
      BY <1>1, <1>9, ListsStay DEF Ending, InHand, InHands
    <2>2. PICK p : p = "publish"
      OBVIOUS
    <2>3. PICK C \in Header : C = block[b]
      BY <1>5
    <2>4. block' = [block EXCEPT ![b] = C]
      BY <1>1, <1>2, <2>3 DEF TypeOK
    <2>5. /\ {p, pc[t]} \cap {"uncount", "push_empty", "own_empty", "pop_next", "pop_cas"} = {}
          /\ (IF p \in InHands THEN {L.block} ELSE {}) = InHand(t) /\ p \notin EmptyHands
          /\ p \notin AtWork /\ p \notin Ending /\ pc[t] \notin Ending
      BY <1>1, <2>1, <2>2 DEF InHands, Ending, AtWork, EmptyHands
    <2>6. Moved(t, p, L)
      BY <1>10, <2>2
    <2>7. \A c \in Blocks \ {b} : Program(c)' = Program(c) /\ Carried(t, c)' = Carried(t, c)
      BY <1>7, <1>12
    <2> QED
      BY <1>1, <1>5, <1>7, <1>9, <1>13, <2>1, <2>2, <2>3, <2>4, <2>5, <2>6, <2>7, HeaderMove
  <1> QED
    BY <1>6, <1>14 DEF PoolStep

LEMMA PublishKeeps ==
    ASSUME KeepInv, NEW t \in Threads, Publish(t)
    PROVE  KeepInv' /\ PoolStep
  <1>1. UNCHANGED store /\ UNCHANGED lists /\ held' = held /\ pc[t] = "publish"
    BY DEF Publish
  <1>2. PICK b, o : b = loc[t].block /\ o = loc[t].object
    OBVIOUS
  <1>3. /\ TypeOK /\ loc[t] \in Locals /\ o \in Slots /\ b \in Blocks
    BY <1>1, <1>2, ThreadFacts DEF GoodThread, Locals
  <1>4. Carried(t, b) = {o} /\ \A c \in Blocks \ {b} : Carried(t, c) = {}
    BY <1>1, <1>2 DEF Carried
  <1>5. b \in Mapped /\ block[b] \in Header /\ Apart(b) /\ Right(block[b], Away(b)) /\ At({"own_empty"}, b) = {}
    <2>1. o \in CarriedAll(b)
      BY <1>4 DEF CarriedAll
    <2> QED
      BY <1>3, <2>1, UsedIsMapped
  <1>6. PICK P \in SUBSET Slots : P = block[b].public \cup {o}
    <2>1. PICK A \in Header : A = block[b]
      BY <1>5
    <2>2. A.public \in SUBSET Slots
      BY DEF Header
    <2> QED
      BY <1>3, <2>1, <2>2
  <1>7. PICK C \in Header : C = [block[b] EXCEPT !.public = P]
    BY <1>5 DEF Header
  <1>8. /\ C.owner = block[b].owner /\ C.thread = block[b].thread /\ C.public = P
        /\ C.next = block[b].next /\ SameObjects(block[b], C) /\ C.allocated = block[b].allocated
        /\ C.mapped = TRUE
    BY <1>5, <1>7 DEF Header, SameObjects
  <1>9. block' = [block EXCEPT ![b] = C]
    BY <1>2, <1>6, <1>7 DEF Publish
  <1>10. block'[b] = C
    BY <1>3, <1>9 DEF TypeOK
  <1>11. Moved(t, "tally", loc[t])
    BY <1>3 DEF Publish, Moved, GoTo, Places, TypeOK
  <1>12. Others(t) /\ pc'[t] = "tally" /\ loc'[t] = loc[t]
    BY <1>1, <1>11, MovedSame
  <1>13. \A c : Program(c)' = Program(c) /\ Carried(t, c)' = {}
    BY <1>1, <1>12 DEF Carried, Program, InUse
  <1>14. Placed(b)'
    <2>1. PICK new : new = {}
      OBVIOUS
    <2>2. /\ block[b].public \cap Program(b) = {} /\ o \notin Program(b)
      BY <1>4, <1>5 DEF Apart
    <2>3. new \cap Away(b) = {} /\ Program(b)' \cap block'[b].public = {}
      BY <1>6, <1>8, <1>10, <1>13, <2>1, <2>2
    <2>4. Carried(t, b)' \cap (Program(b)' \cup block'[b].public) = {}
      BY <1>13
    <2>5. Program(b)' \cup block'[b].public \cup Carried(t, b)' \subseteq
               Program(b) \cup block[b].public \cup Carried(t, b) \cup new
      BY <1>4, <1>6, <1>8, <1>10, <1>13
    <2>6. /\ Apart(b)'
          /\ Away(b)' = (Away(b) \ (Program(b) \cup block[b].public \cup Carried(t, b)))
                            \cup Program(b)' \cup block'[b].public \cup Carried(t, b)'
      BY <1>3, <1>5, <1>12, <2>3, <2>4, <2>5, PlacedMoved
    <2>7. Program(b) \subseteq Away(b) /\ block[b].public \subseteq Away(b) /\ Carried(t, b) \subseteq Away(b)
      BY DEF Away, CarriedAll
    <2>8. Away(b)' = Away(b)
      BY <1>4, <1>6, <1>8, <1>10, <1>13, <2>6, <2>7
    <2>9. At({"own_empty"}, b)' = {}
      BY <1>5, <1>12, NewStays
    <2>10. Right(C, Away(b)) /\ (b \in Mapped)'
      BY <1>3, <1>5, <1>8, <1>10, RightOfSame DEF Mapped
    <2> QED
      BY <1>10, <2>6, <2>8, <2>9, <2>10 DEF Placed
  <1>15. held' \in [Objects -> {0, 1}]
    BY <1>1, <1>3 DEF TypeOK
  <1>16. KeepInv'
    <2>1. /\ loc[t].full \in ToSet(bucket[t]) \cup {NoBlock} /\ loc[t].fresh = FALSE
          /\ InHand(t) = {}
      BY <1>1, ListsStay DEF Ending, InHand, InHands
    <2>2. PICK p, L : p = "tally" /\ L = loc[t]
      OBVIOUS
    <2>3. /\ {p, pc[t]} \cap {"uncount", "push_empty", "own_empty", "pop_next", "pop_cas"} = {}
          /\ (IF p \in InHands THEN {L.block} ELSE {}) = InHand(t) /\ p \notin EmptyHands
          /\ p \notin AtWork /\ p \notin Ending /\ pc[t] \notin Ending
      BY <1>1, <2>1, <2>2 DEF InHands, Ending, AtWork, EmptyHands
    <2>4. Moved(t, p, L)
      BY <1>11, <2>2
    <2>5. \A c \in Blocks \ {b} : Program(c)' = Program(c) /\ Carried(t, c)' = Carried(t, c)
      BY <1>4, <1>13
    <2> QED
      BY <1>1, <1>2, <1>3, <1>5, <1>8, <1>9, <1>14, <1>15, <2>1, <2>2, <2>3, <2>4, <2>5, HeaderMove
  <1> QED
    BY <1>1, <1>16 DEF PoolStep

(* The owner frees an object: it becomes private, and the block may move   *)
(* before the active one.                                                  *)
LEMMA FreeOwnKeeps ==
    ASSUME KeepInv, NEW t \in Threads, FreeOwn(t)
    PROVE  KeepInv' /\ PoolStep
  <1>1. UNCHANGED store /\ UNCHANGED <<pc, loc>> /\ pc[t] = "idle"
    BY DEF FreeOwn
  <1>2. /\ TypeOK /\ GoodThread(t) /\ loc[t] \in Locals /\ BlocksKept /\ ObjectsPlaced /\ OwnersGood
        /\ ListsOf(t) \in ListRecord /\ ListsOf(t).bucket = bucket[t] /\ ReadIsFresh(t)
    BY ThreadFacts DEF KeepInv
  <1>3. PICK x \in InUse :
          LET b == x[1]
              B == RestoreIfEmpty([block[b] EXCEPT !.allocated = @ - 1, !.private = @ \cup {x[2]}])
              u == B.owner
          IN  /\ Owns(t, b)
              /\ held' = [held EXCEPT ![x] = @ - 1]
              /\ IF ~B.inPrevious /\ (B.allocated = 0 \/ IsReady(B))
                   THEN /\ block' = [block EXCEPT ![b] = [B EXCEPT !.inPrevious = TRUE]]
                        /\ SetLists(u, InsertToPrevious(RemoveFrom(ListsOf(u), b), b))
                   ELSE block' = [block EXCEPT ![b] = B] /\ UNCHANGED lists
    BY DEF FreeOwn
  <1>4. PICK b \in Blocks, o \in Slots : x = <<b, o>> /\ o \in Program(b)
    BY DEF InUse, Objects, Program
  <1>5. b \in Mapped /\ block[b] \in Header /\ Apart(b) /\ Right(block[b], Away(b)) /\ At({"own_empty"}, b) = {}
    BY <1>4, UsedIsMapped
  <1>6. /\ b \in ToSet(bucket[t]) /\ b \in Kept(t) /\ block[b].owner = t
        /\ InHand(t) = {} /\ Kept(t) = ToSet(bucket[t])
    <2>1. block[b].thread = t
      BY <1>3, <1>4 DEF Owns
    <2>2. b \in ToSet(bucket[t])
      BY <1>1, <1>2, <1>5, <2>1 DEF OwnersGood, Ending
    <2> QED
      BY <1>1, <1>2, <2>2 DEF OwnersGood, Kept, InHand, InHands
  <1>7. held[x] = 1 /\ held' = [held EXCEPT ![x] = 0] /\ x \in Objects
    <2>1. x \in Objects /\ held[x] > 0
      BY DEF InUse
    <2>2. held[x] \in {0, 1}
      BY <1>2, <2>1 DEF TypeOK
    <2>3. held[x] = 1
      BY <2>1, <2>2
    <2>4. held' = [held EXCEPT ![x] = @ - 1]
      BY <1>3
    <2> QED
      BY <1>2, <2>1, <2>3, <2>4 DEF TypeOK
  <1>8. /\ held' \in [Objects -> {0, 1}] /\ Program(b)' = Program(b) \ {o}
        /\ \A c \in Blocks \ {b} : Program(c)' = Program(c)
    <2>1. PICK v \in {0, 1} : v = 0
      OBVIOUS
    <2>2. held' = [held EXCEPT ![<<b, o>>] = v]
      BY <1>4, <1>7, <2>1
    <2>3. /\ held' \in [Objects -> {0, 1}]
          /\ Program(b)' = IF v = 1 THEN Program(b) \cup {o} ELSE Program(b) \ {o}
          /\ \A c \in Blocks \ {b} : Program(c)' = Program(c)
      BY <1>2, <1>4, <2>2, ProgramChanged
    <2> QED
      BY <2>1, <2>3
  <1>9. PICK F : F = [block[b] EXCEPT !.allocated = @ - 1, !.private = @ \cup {o}]
    OBVIOUS
  <1>10. o \in Away(b) /\ o \notin block[b].public /\ \A u \in Threads : o \notin Carried(u, b)
    BY <1>4, <1>5 DEF Away, Apart
  <1>11. F \in Header /\ Right(F, Away(b) \ {o}) /\ SameRest(block[b], F)
    BY <1>5, <1>9, <1>10, RightFreed
  <1>12. PICK B : B = RestoreIfEmpty(F)
    OBVIOUS
  <1>13. /\ B \in Header /\ Right(B, Away(b) \ {o}) /\ SameRest(F, B)
    BY <1>11, <1>12, RightIfEmpty
  <1>14. B.owner = t /\ B.thread = block[b].thread /\ B.next = block[b].next /\ B.public = block[b].public
    BY <1>6, <1>11, <1>13 DEF SameRest
  <1>r. PICK ready : ready = (~B.inPrevious /\ (B.allocated = 0 \/ IsReady(B)))
    OBVIOUS
  <1>15. /\ IF ready
            THEN /\ block' = [block EXCEPT ![b] = [B EXCEPT !.inPrevious = TRUE]]
                 /\ SetLists(t, InsertToPrevious(RemoveFrom(ListsOf(t), b), b))
            ELSE block' = [block EXCEPT ![b] = B] /\ UNCHANGED lists
    BY <1>3, <1>4, <1>9, <1>12, <1>14, <1>r
  <1>16. Moved(t, pc[t], loc[t])
    BY <1>1, <1>2 DEF Moved, TypeOK
  <1>17. \A c : Carried(t, c)' = Carried(t, c) /\ Carried(t, c) = {}
    BY <1>1 DEF Carried
  <1>18. GoodLists(ListsOf(t)) /\ loc[t].full \in ToSet(bucket[t]) \cup {NoBlock} /\ loc[t].fresh = FALSE
    BY <1>1, <1>2 DEF GoodThread, Ending, ReadIsFresh, Locals
  <1>19. PICK C \in Header, X \in ListRecord :
            /\ block' = [block EXCEPT ![b] = C]
            /\ SetLists(t, X) \/ (X = ListsOf(t) /\ UNCHANGED lists)
            /\ GoodLists(X) /\ ToSet(X.bucket) = ToSet(bucket[t])
            /\ Right(C, Away(b) \ {o})
            /\ C.owner = t /\ C.thread = B.thread /\ C.next = B.next /\ C.public = B.public /\ C.mapped = TRUE
    <2>1. CASE ready
      <3>1. PICK C \in Header : C = [B EXCEPT !.inPrevious = TRUE]
        BY <1>13 DEF Header
      <3>2. /\ SameObjects(B, C) /\ C.owner = B.owner /\ C.thread = B.thread /\ C.next = B.next
            /\ C.public = B.public /\ C.mapped = TRUE
        BY <1>13, <3>1 DEF Header, SameObjects
      <3>3. PICK M : M = RemoveFrom(ListsOf(t), b)
        OBVIOUS
      <3>4. GoodLists(M) /\ ToSet(M.bucket) = ToSet(bucket[t]) \ {b}
        BY <1>2, <1>6, <1>18, <3>3, GoodRemove
      <3>5. PICK X : X = InsertToPrevious(M, b)
        OBVIOUS
      <3>6. b \in Blocks \ ToSet(M.bucket)
        BY <3>4
      <3>7. GoodLists(X) /\ ToSet(X.bucket) = ToSet(M.bucket) \cup {b}
        BY <3>4, <3>5, <3>6, GoodInsert
      <3>8. X \in ListRecord /\ ToSet(X.bucket) = ToSet(bucket[t])
        BY <1>6, <3>4, <3>7 DEF GoodLists, ListRecord
      <3>9. SetLists(t, X) /\ block' = [block EXCEPT ![b] = C]
        BY <1>15, <2>1, <3>1, <3>3, <3>5
      <3>10. Right(C, Away(b) \ {o})
        BY <1>13, <3>2, RightOfSame
      <3> QED
        BY <1>14, <3>2, <3>7, <3>8, <3>9, <3>10
    <2>2. CASE ~ready
      <3>1. B.mapped = TRUE
        BY <1>13 DEF Header
      <3>2. PICK X \in ListRecord : X = ListsOf(t)
        BY <1>2
      <3>3. block' = [block EXCEPT ![b] = B] /\ UNCHANGED lists
        BY <1>15, <2>2
      <3> QED
        BY <1>2, <1>13, <1>14, <1>18, <3>1, <3>2, <3>3
    <2> QED
      BY <2>1, <2>2
  <1>20. Others(t) /\ pc'[t] = pc[t] /\ loc'[t] = loc[t]
    BY <1>2, <1>16, <1>19, MovedOnly DEF ListRecord
  <1>21. block'[b] = C
    BY <1>2, <1>19 DEF TypeOK
  <1>22. Placed(b)'
    <2>1. PICK new : new = {}
      OBVIOUS
    <2>2. block[b].public \cap Program(b) = {}
      BY <1>5 DEF Apart
    <2>3. new \cap Away(b) = {} /\ Program(b)' \cap block'[b].public = {}
      BY <1>8, <1>14, <1>19, <1>21, <2>1, <2>2
    <2>4. Carried(t, b)' \cap (Program(b)' \cup block'[b].public) = {}
      BY <1>17
    <2>5. Program(b)' \cup block'[b].public \cup Carried(t, b)' \subseteq
               Program(b) \cup block[b].public \cup Carried(t, b) \cup new
      BY <1>8, <1>14, <1>17, <1>19, <1>21
    <2>6. /\ Apart(b)'
          /\ Away(b)' = (Away(b) \ (Program(b) \cup block[b].public \cup Carried(t, b)))
                            \cup Program(b)' \cup block'[b].public \cup Carried(t, b)'
      BY <1>5, <1>20, <2>3, <2>4, <2>5, PlacedMoved
    <2>7. Program(b) \subseteq Away(b) /\ block[b].public \subseteq Away(b)
      BY DEF Away
    <2>8. Away(b)' = Away(b) \ {o}
      BY <1>4, <1>8, <1>10, <1>14, <1>17, <1>19, <1>21, <2>6, <2>7
    <2>9. At({"own_empty"}, b)' = {}
      BY <1>1, <1>5, <1>20, NewStays
    <2> QED
      BY <1>19, <1>21, <2>6, <2>8, <2>9 DEF Placed, Mapped
  <1>23. KeepInv'
    <2>1. PICK p, L : p = pc[t] /\ L = loc[t]
      OBVIOUS
    <2>2. PICK H : H = (IF p \in InHands THEN {L.block} ELSE {})
      OBVIOUS
    <2>3. /\ {p, pc[t]} \cap {"uncount", "push_empty", "own_empty", "pop_next", "pop_cas"} = {}
          /\ H = {} /\ p \notin EmptyHands
          /\ p \notin AtWork /\ p \notin Ending /\ pc[t] \notin Ending
          /\ p \notin {"publish", "tally", "own_thread"}
      BY <1>1, <2>1, <2>2 DEF InHands, Ending, AtWork, EmptyHands
    <2>4. Moved(t, p, L)
      BY <1>16, <2>1
    <2>5. \A c \in Blocks \ {b} : Program(c)' = Program(c) /\ Carried(t, c)' = Carried(t, c)
      BY <1>8, <1>17
    <2>6. C.next = block[b].next /\ C.thread = block[b].thread /\ C.owner = block[b].owner
      BY <1>6, <1>14, <1>19
    <2>7. /\ IsInjective(X.bucket) /\ ToSet(X.bucket) \subseteq ToSet(bucket[t])
          /\ ToSet(X.bucket) \cup H = Kept(t) /\ ToSet(X.bucket) \cap H = {}
      BY <1>6, <1>19, <2>3 DEF GoodLists
    <2> QED
      BY <1>1, <1>5, <1>6, <1>8, <1>18, <1>19, <1>22, <2>1, <2>2, <2>3, <2>4, <2>5, <2>6, <2>7, BlockMove
  <1> QED
    BY <1>7, <1>23 DEF PoolStep

(* A thread that ends gives up a block: it has it in hand.                 *)
LEMMA LoseKeeps ==
    ASSUME KeepInv, NEW t \in Threads, Lose(t)
    PROVE  KeepInv' /\ PoolStep
  <1>1. UNCHANGED store /\ held' = held /\ pc[t] = "lose"
    BY DEF Lose
  <1>2. PICK b, taken : b = loc[t].block /\ taken = loc[t].taken
    OBVIOUS
  <1>3. /\ TypeOK /\ GoodThread(t) /\ loc[t] \in Locals /\ BlocksKept /\ ObjectsPlaced /\ OwnersGood
        /\ bucket[t] \in Seq(Blocks) /\ ReadIsFresh(t) /\ b \in ToSet(bucket[t])
    BY <1>1, <1>2, ThreadFacts DEF KeepInv, GoodThread, AtWork
  <1>4. b \in Kept(t) /\ b \in Blocks /\ b \in Mapped /\ block[b] \in Header /\ Kept(t) = ToSet(bucket[t])
    <2>1. b \in Kept(t) /\ Kept(t) = ToSet(bucket[t])
      BY <1>1, <1>3 DEF Kept, InHand, InHands
    <2> QED
      BY <1>3, <2>1, KeptIsMapped
  <1>5. Apart(b) /\ Right(block[b], Away(b))
    <2>1. At({"own_empty"}, b) = {}
      BY <1>1, <1>3, <1>4, HeldIsNotNew
    <2> QED
      BY <1>3, <1>4, <2>1 DEF ObjectsPlaced, Placed
  <1>6. Carried(t, b) = taken /\ \A c \in Blocks \ {b} : Carried(t, c) = {}
    BY <1>1, <1>2 DEF Carried
  <1>7. taken \in SUBSET Away(b)
    BY <1>6 DEF Away, CarriedAll
  <1>8. PICK R : R = Repatriate(block[b], taken)
    OBVIOUS
  <1>9. /\ R \in Header /\ Right(R, Away(b) \ taken) /\ R.public = block[b].public
        /\ R.owner = block[b].owner /\ R.thread = block[b].thread /\ R.next = block[b].next
    <2>1. PICK A : A = block[b]
      OBVIOUS
    <2>2. A \in Header /\ Right(A, Away(b)) /\ R = Repatriate(A, taken)
      BY <1>4, <1>5, <1>8, <2>1
    <2>3. /\ R \in Header /\ Right(R, Away(b) \ taken) /\ R.public = A.public
          /\ R.owner = A.owner /\ R.thread = A.thread /\ R.next = A.next
      BY <1>7, <2>2, RightRepatriated
    <2> QED
      BY <2>1, <2>3
  <1>10. PICK C \in Header : C = [R EXCEPT !.owner = Nobody, !.inPrevious = FALSE]
    BY <1>9 DEF Header
  <1>11. /\ C.thread = block[b].thread /\ C.public = block[b].public
         /\ C.next = block[b].next /\ SameObjects(R, C) /\ C.mapped = TRUE
    BY <1>9, <1>10 DEF Header, SameObjects
  <1>12. block' = [block EXCEPT ![b] = C]
    BY <1>2, <1>8, <1>10 DEF Lose
  <1>13. PICK s \in Seq(Blocks) : /\ s = RemoveAt(bucket[t], PosOf(bucket[t], b))
                                  /\ IsInjective(s) /\ ToSet(s) = ToSet(bucket[t]) \ {b}
    BY <1>3, TakenOut DEF GoodThread
  <1>14. PICK X \in ListRecord : X = [bucket |-> s, active |-> NoBlock, lastNext |-> NoBlock]
    BY DEF ListRecord
  <1>15. X.bucket = s
    BY <1>14
  <1>16. SetLists(t, X)
    BY <1>2, <1>3, <1>13, <1>14 DEF Lose, SetLists, TypeOK
  <1>17. PICK p \in {"keep", "push"} : p = IF R.allocated = 0 THEN "keep" ELSE "push"
    OBVIOUS
  <1>18. PICK L \in Locals : L = [loc[t] EXCEPT !.taken = {}]
    BY <1>3 DEF Locals
  <1>19. L.block = b /\ L.todo = loc[t].todo /\ L.fresh = loc[t].fresh
    BY <1>2, <1>3, <1>18 DEF Locals
  <1>20. Moved(t, p, L)
    BY <1>2, <1>3, <1>8, <1>17, <1>18 DEF Lose, Moved, GoTo, Places, Ending, TypeOK
  <1>21. Others(t) /\ pc'[t] = p /\ loc'[t] = L
    BY <1>3, <1>16, <1>20, MovedOnly DEF ListRecord
  <1>22. Right(C, Away(b) \ Carried(t, b))
    BY <1>6, <1>9, <1>11, RightOfSame
  <1>23. /\ Placed(b)'
         /\ \A c \in Blocks \ {b} : Program(c)' = Program(c) /\ (Carried(t, c) = {} => Carried(t, c)' = Carried(t, c))
    BY <1>1, <1>4, <1>5, <1>11, <1>12, <1>17, <1>21, <1>22, Settled
  <1>24. KeepInv'
    <2>1. PICK H : H = (IF p \in InHands THEN {L.block} ELSE {})
      OBVIOUS
    <2>2. /\ {p, pc[t]} \cap {"uncount", "push_empty", "own_empty", "pop_next", "pop_cas"} = {}
          /\ H = {b} /\ p \notin AtWork /\ p \in Ending
          /\ p \notin {"publish", "tally", "own_thread"}
      BY <1>1, <1>17, <1>19, <2>1 DEF InHands, Ending, AtWork
    <2>3. \A c \in Blocks \ {b} : Program(c)' = Program(c) /\ Carried(t, c)' = Carried(t, c)
      BY <1>6, <1>23
    <2>4. /\ IsInjective(X.bucket) /\ ToSet(X.bucket) \subseteq ToSet(bucket[t])
          /\ ToSet(X.bucket) \cup H = Kept(t) /\ ToSet(X.bucket) \cap H = {} /\ b \notin ToSet(X.bucket)
      BY <1>3, <1>4, <1>13, <1>15, <2>2
    <2>5. ToSet(L.todo) \subseteq ToSet(X.bucket) \ {L.block} /\ IsInjective(L.todo)
      <3>1. ToSet(loc[t].todo) \subseteq ToSet(bucket[t]) \ {b} /\ IsInjective(loc[t].todo)
        BY <1>1, <1>2, <1>3 DEF GoodThread, Ending
      <3> QED
        BY <1>13, <1>15, <1>19, <3>1
    <2>6. p \in EmptyHands => L.block = b /\ C.allocated = 0
      BY <1>11, <1>17, <1>19 DEF EmptyHands, SameObjects
    <2>7. L.fresh = FALSE
      BY <1>1, <1>3, <1>19 DEF ReadIsFresh, Locals
    <2>8. held' \in [Objects -> {0, 1}]
      BY <1>1, <1>3 DEF TypeOK
    <2> QED
      BY <1>1, <1>4, <1>11, <1>12, <1>16, <1>20, <1>23, <2>1, <2>2, <2>3, <2>4, <2>5, <2>6, <2>7, <2>8, BlockMove, ZenonT(60)
  <1> QED
    BY <1>1, <1>24 DEF PoolStep

-----------------------------------------------------------------------------
\* Blocks that come to a thread and go

(* Touch makes stale what was read of stack s, and nothing else.           *)
LEMMA Touched ==
    ASSUME NEW M \in [Threads -> Locals], NEW s, NEW T, T = Touch(s, M)
    PROVE  /\ T \in [Threads -> Locals]
           /\ \A u \in Threads :
                 /\ T[u].block = M[u].block /\ T[u].full = M[u].full /\ T[u].stage = M[u].stage
                 /\ T[u].taken = M[u].taken /\ T[u].object = M[u].object /\ T[u].stack = M[u].stack
                 /\ T[u].top = M[u].top /\ T[u].next = M[u].next /\ T[u].todo = M[u].todo
                 /\ T[u].fresh => M[u].fresh /\ M[u].stack # s
  <1>1. ASSUME NEW u \in Threads
        PROVE  /\ T[u] \in Locals
               /\ T[u].block = M[u].block /\ T[u].full = M[u].full /\ T[u].stage = M[u].stage
               /\ T[u].taken = M[u].taken /\ T[u].object = M[u].object /\ T[u].stack = M[u].stack
               /\ T[u].top = M[u].top /\ T[u].next = M[u].next /\ T[u].todo = M[u].todo
               /\ T[u].fresh => M[u].fresh /\ M[u].stack # s
    <2>1. PICK m \in Locals : m = M[u]
      OBVIOUS
    <2>2. T[u] = IF m.stack = s THEN [m EXCEPT !.fresh = FALSE] ELSE m
      BY <2>1 DEF Touch
    <2>3. CASE m.stack = s
      <3>1. PICK n \in Locals : n = [m EXCEPT !.fresh = FALSE]
        BY DEF Locals
      <3>2. /\ n.block = m.block /\ n.full = m.full /\ n.stage = m.stage
            /\ n.taken = m.taken /\ n.object = m.object /\ n.stack = m.stack
            /\ n.top = m.top /\ n.next = m.next /\ n.todo = m.todo /\ n.fresh = FALSE
        BY <3>1 DEF Locals
      <3> QED
        BY <2>1, <2>2, <2>3, <3>1, <3>2
    <2>4. CASE m.stack # s
      BY <2>1, <2>2, <2>4
    <2> QED
      BY <2>3, <2>4
  <1>2. T \in [Threads -> Locals]
    BY <1>1 DEF Touch
  <1> QED
    BY <1>1, <1>2

LEMMA PushKeeps ==
    ASSUME KeepInv, NEW t \in Threads, NEW s \in Stacks, PushOn(s, t), UNCHANGED <<emptyCount, lists, held>>,
           pc[t] = IF s = "empty" THEN "push_empty" ELSE "push"
    PROVE  KeepInv' /\ PoolStep
  <1>1. PICK b : b = loc[t].block
    OBVIOUS
  <1>2. /\ TypeOK /\ GoodThread(t) /\ loc[t] \in Locals /\ BlocksKept /\ ObjectsPlaced /\ OwnersGood
        /\ bucket[t] \in Seq(Blocks) /\ ListsGood /\ ReadsFresh
    BY ThreadFacts DEF KeepInv
  <1>3. pc[t] \in InHands /\ pc[t] \in Ending /\ pc[t] \notin AtWork
    BY DEF InHands, Ending, AtWork
  <1>4. /\ b \in Blocks /\ b \in Mapped /\ block[b] \in Header /\ b \in Kept(t) /\ InHand(t) = {b}
        /\ b \notin ToSet(bucket[t]) /\ Kept(t) = ToSet(bucket[t]) \cup {b} /\ Placed(b)
    BY <1>1, <1>3, HandFacts
  <1>5. PICK q \in Seq(Blocks) : q = loc[t].todo
    BY <1>2 DEF Locals
  <1>6. IsInjective(q) /\ ToSet(q) \subseteq ToSet(bucket[t])
    BY <1>2, <1>3, <1>5 DEF GoodThread
  <1>7. PICK L : L = LocalsFor(q)
    OBVIOUS
  <1>8. /\ L \in Locals /\ L.fresh = FALSE /\ IsInjective(L.todo)
        /\ ToSet(L.todo) \subseteq ToSet(q) \ {L.block}
        /\ PlaceFor(q) \in {"destruct", "gone"}
        /\ PlaceFor(q) = "destruct" => L.block \in ToSet(q)
    BY <1>6, <1>7, LocalsForTyped
  <1>9. PICK M \in [Threads -> Locals] : M = [loc EXCEPT ![t] = L]
    BY <1>2, <1>8 DEF TypeOK
  <1>10. M[t] = L /\ \A u \in Threads \ {t} : M[u] = loc[u]
    BY <1>2, <1>9 DEF TypeOK
  <1>11. loc' = Touch(s, M)
    BY <1>5, <1>7, <1>9 DEF PushOn
  <1>12. /\ loc' \in [Threads -> Locals]
         /\ \A u \in Threads :
                 /\ loc'[u].block = M[u].block /\ loc'[u].full = M[u].full /\ loc'[u].stage = M[u].stage
                 /\ loc'[u].taken = M[u].taken /\ loc'[u].object = M[u].object /\ loc'[u].stack = M[u].stack
                 /\ loc'[u].top = M[u].top /\ loc'[u].next = M[u].next /\ loc'[u].todo = M[u].todo
                 /\ loc'[u].fresh => M[u].fresh /\ M[u].stack # s
    BY <1>11, Touched
  <1>13. PICK p \in {"destruct", "gone"} : p = PlaceFor(q)
    BY <1>8
  <1>14. /\ pc' = [pc EXCEPT ![t] = p] /\ pc'[t] = p /\ pc' \in [Threads -> Places]
         /\ \A u \in Threads \ {t} : pc'[u] = pc[u]
    BY <1>2, <1>5, <1>13 DEF PushOn, GoTo, TypeOK, Places, Ending
  <1>15. UNCHANGED <<bucket, active, lastNext, emptyCount, held>>
    BY DEF lists
  <1>16. Others(t)
    BY <1>10, <1>12, <1>14, <1>15 DEF Others
  <1>17. /\ loc'[t].block = L.block /\ loc'[t].todo = L.todo /\ loc'[t].fresh = FALSE
    BY <1>2, <1>8, <1>10, <1>12 DEF Locals
  <1>18. PICK n \in Blocks \cup {NoBlock} : n = top[s]
    BY <1>2 DEF TypeOK
  <1>19. PICK C \in Header : C = [block[b] EXCEPT !.next = n]
    BY <1>4 DEF Header
  <1>20. /\ C.next = n /\ C.thread = block[b].thread /\ C.owner = block[b].owner /\ C.public = block[b].public
         /\ SameObjects(block[b], C) /\ C.mapped = TRUE /\ C.allocated = block[b].allocated
         /\ block[b].mapped = TRUE
    BY <1>4, <1>19 DEF Header, SameObjects
  <1>21. block' = [block EXCEPT ![b] = C] /\ top' = [top EXCEPT ![s] = b]
    BY <1>1, <1>18, <1>19 DEF PushOn
  <1>22. block'[b] = C /\ \A c \in Blocks \ {b} : block'[c] = block[c]
    BY <1>2, <1>4, <1>21 DEF TypeOK
  <1>23. TypeOK'
    <2>1. block' \in [Blocks -> Header \cup NoHeader] /\ top' \in [Stacks -> Blocks \cup {NoBlock}]
      BY <1>2, <1>4, <1>21 DEF TypeOK
    <2> QED
      BY <1>2, <1>12, <1>14, <1>15, <2>1 DEF TypeOK
  <1>24. ListsGood'
    <2>1. GoodThread(t)'
      <3>1. ToSet(loc'[t].todo) \subseteq ToSet(bucket'[t]) \ {loc'[t].block} /\ IsInjective(loc'[t].todo)
        BY <1>6, <1>8, <1>15, <1>17
      <3>2. pc'[t] \in AtWork => loc'[t].block \in ToSet(bucket'[t])
        BY <1>6, <1>8, <1>13, <1>14, <1>15, <1>17 DEF AtWork
      <3>3. IsInjective(bucket'[t]) /\ pc'[t] \in Ending /\ pc'[t] \notin {"publish", "tally"}
        BY <1>2, <1>13, <1>14, <1>15 DEF GoodThread, Ending
      <3> QED
        BY <3>1, <3>2, <3>3 DEF GoodThread
    <2> QED
      BY <1>2, <1>16, <2>1, OthersLists
  <1>25. InHand(t)' = {} /\ Due(t)' = 0 /\ pc'[t] \in Ending
    BY <1>13, <1>14 DEF InHand, InHands, Due, Ending
  <1>26. BlocksKept'
    <2>1. IF s = "empty" THEN block[b].allocated = 0 /\ Due(t) = 1 ELSE Due(t) = 0
      BY <1>1, <1>2 DEF Due, BlocksKept, EmptiesEmpty, EmptyHands
    <2>2. /\ block'[b].mapped /\ block'[b].next = top[s] /\ block'[b].allocated = block[b].allocated
      BY <1>18, <1>20, <1>22
    <2>3. b \in InHand(t) /\ bucket'[t] = bucket[t] /\ emptyCount' = emptyCount
      BY <1>4, <1>15
    <2> QED
      BY <1>2, <1>16, <1>21, <1>22, <1>25, <2>1, <2>2, <2>3, KeptPushed
  <1>27. Mapped' = Mapped
    <2>1. \A c \in Blocks : block'[c].mapped = block[c].mapped
      BY <1>20, <1>22
    <2> QED
      BY <2>1 DEF Mapped
  <1>28. OwnersGood'
    <2>1. \A c \in Blocks : block'[c].owner = block[c].owner /\ block'[c].thread = block[c].thread
      BY <1>20, <1>22
    <2>2. \A c \in ToSet(bucket'[t]) : block'[c].owner = t /\ block'[c].thread = t
      BY <1>2, <1>15, <2>1, ThreadFacts DEF OwnersGood
    <2>3. \A c \in Kept(t) : c \in Mapped' => block'[c].thread \in {block[c].thread, t}
      BY <2>1 DEF Mapped
    <2>4. pc'[t] # "own_thread"
      BY <1>13, <1>14
    <2> QED
      BY <1>2, <1>16, <1>25, <1>27, <2>1, <2>2, <2>3, <2>4, OwnersStay
  <1>29. ReadsFresh'
    <2>1. ReadIsFresh(t)'
      BY <1>13, <1>14, <1>17 DEF ReadIsFresh
    <2>2. ASSUME NEW u \in Threads \ {t}, loc'[u].fresh PROVE top'[loc[u].stack] = top[loc[u].stack]
      <3>1. loc[u].stack # s
        BY <1>10, <1>12, <2>2
      <3>2. PICK r \in Stacks : r = loc[u].stack
        BY <1>2 DEF TypeOK, Locals
      <3> QED
        BY <1>2, <1>21, <3>1, <3>2 DEF TypeOK
    <2>3. \A c \in Blocks \ Kept(t) : c \in Mapped => block'[c].next = block[c].next
      BY <1>4, <1>22
    <2> QED
      BY <1>2, <1>16, <2>1, <2>2, <2>3, ReadsStay
  <1>30. ObjectsPlaced'
    <2>1. \A c : Program(c)' = Program(c) /\ Carried(t, c)' = {} /\ Carried(t, c) = {}
      BY <1>13, <1>14, <1>15 DEF Program, InUse, Carried
    <2>2. pc[t] # "own_empty" /\ pc'[t] # "own_empty"
      BY <1>13, <1>14
    <2>3. Placed(b)'
      BY <1>4, <1>16, <1>20, <1>22, <2>1, <2>2, PlacedSame
    <2> QED
      BY <1>2, <1>4, <1>16, <1>22, <2>1, <2>2, <2>3, OnlyOneMoves
  <1> QED
    BY <1>15, <1>23, <1>24, <1>26, <1>28, <1>29, <1>30 DEF KeepInv, PoolStep

LEMMA PopCasKeeps ==
    ASSUME KeepInv, NEW t \in Threads, PopCas(t)
    PROVE  KeepInv' /\ PoolStep
  <1>1. PICK b, s : b = loc[t].top /\ s = loc[t].stack
    OBVIOUS
  <1>2. /\ TypeOK /\ GoodThread(t) /\ loc[t] \in Locals /\ BlocksKept /\ ObjectsPlaced /\ OwnersGood
        /\ ListsGood /\ ReadsFresh /\ ReadIsFresh(t)
    BY ThreadFacts DEF KeepInv
  <1>3. pc[t] = "pop_cas" /\ loc[t].fresh = TRUE /\ UNCHANGED <<block, emptyCount, held>> /\ UNCHANGED lists
    BY <1>2 DEF PopCas, CasPasses, Locals
  <1>4. /\ b \in Blocks /\ s \in Stacks /\ top[s] = b /\ loc[t].next = block[b].next
    BY <1>1, <1>2, <1>3 DEF ReadIsFresh, Locals
  <1>5. PICK L \in Locals : L = [loc[t] EXCEPT !.block = b]
    BY <1>2, <1>4 DEF Locals
  <1>6. L.block = b /\ L.full = loc[t].full /\ L.stack = s
    BY <1>1, <1>2, <1>5 DEF Locals
  <1>7. PICK M \in [Threads -> Locals] : M = [loc EXCEPT ![t] = L]
    BY <1>2 DEF TypeOK
  <1>8. M[t] = L /\ \A u \in Threads \ {t} : M[u] = loc[u]
    BY <1>2, <1>7 DEF TypeOK
  <1>9. loc' = Touch(s, M)
    BY <1>1, <1>2, <1>5, <1>7 DEF PopCas, TypeOK
  <1>10. /\ loc' \in [Threads -> Locals]
         /\ \A u \in Threads :
                 /\ loc'[u].block = M[u].block /\ loc'[u].full = M[u].full /\ loc'[u].stage = M[u].stage
                 /\ loc'[u].taken = M[u].taken /\ loc'[u].object = M[u].object /\ loc'[u].stack = M[u].stack
                 /\ loc'[u].top = M[u].top /\ loc'[u].next = M[u].next /\ loc'[u].todo = M[u].todo
                 /\ loc'[u].fresh => M[u].fresh /\ M[u].stack # s
    BY <1>9, Touched
  <1>11. PICK p \in {"own", "uncount"} : p = IF s = "nonempty" THEN "own" ELSE "uncount"
    OBVIOUS
  <1>12. /\ pc' = [pc EXCEPT ![t] = p] /\ pc'[t] = p /\ pc' \in [Threads -> Places]
         /\ \A u \in Threads \ {t} : pc'[u] = pc[u]
    BY <1>1, <1>2, <1>11 DEF PopCas, GoTo, TypeOK, Places
  <1>13. UNCHANGED <<bucket, active, lastNext>>
    BY <1>3 DEF lists
  <1>14. Others(t)
    BY <1>8, <1>10, <1>12, <1>13 DEF Others
  <1>15. /\ loc'[t].block = b /\ loc'[t].full = loc[t].full /\ loc'[t].fresh = FALSE
    BY <1>6, <1>8, <1>10 DEF Locals
  <1>16. top' = [top EXCEPT ![s] = block[b].next]
    BY <1>1, <1>4 DEF PopCas
  <1>17. TypeOK'
    <2>1. top' \in [Stacks -> Blocks \cup {NoBlock}]
      <3>1. loc[t].next \in Blocks \cup {NoBlock}
        BY <1>2 DEF Locals
      <3> QED
        BY <1>2, <1>4, <1>16, <3>1 DEF TypeOK
    <2> QED
      BY <1>2, <1>3, <1>10, <1>12, <1>13, <2>1 DEF TypeOK
  <1>18. ListsGood'
    <2>1. GoodLists(ListsOf(t))' /\ IsInjective(bucket'[t])
      BY <1>2, <1>3, <1>13 DEF GoodThread, Ending, ListsOf, GoodLists
    <2>2. loc'[t].full \in ToSet(bucket'[t]) \cup {NoBlock}
      BY <1>2, <1>3, <1>13, <1>15 DEF GoodThread, Ending
    <2>3. pc'[t] \notin AtWork /\ pc'[t] \notin Ending /\ pc'[t] \notin {"publish", "tally"}
      BY <1>11, <1>12 DEF AtWork, Ending
    <2>4. GoodThread(t)'
      BY <2>1, <2>2, <2>3 DEF GoodThread
    <2> QED
      BY <1>2, <1>14, <2>4, OthersLists
  <1>19. InHand(t) = {} /\ InHand(t)' = {b} /\ Due(t) = 0 /\ pc[t] \notin Ending
    BY <1>3, <1>11, <1>12, <1>15 DEF InHand, InHands, Due, Ending
  <1>20. BlocksKept'
    <2>1. IF s = "empty" THEN Due(t)' = 1 ELSE Due(t)' = 0 /\ pc'[t] \notin EmptyHands
      BY <1>4, <1>11, <1>12 DEF Due, EmptyHands, Stacks
    <2> QED
      BY <1>2, <1>3, <1>4, <1>13, <1>14, <1>15, <1>16, <1>19, <2>1, KeptPopped
  <1>21. Mapped' = Mapped
    BY <1>3 DEF Mapped
  <1>22. OwnersGood'
    <2>1. \A c \in ToSet(bucket'[t]) : block'[c].owner = t /\ block'[c].thread = t
      BY <1>2, <1>3, <1>13 DEF OwnersGood
    <2>2. \A c \in Mapped' : block'[c].thread = t => c \in ToSet(bucket'[t])
      BY <1>2, <1>3, <1>13, <1>19, <1>21 DEF OwnersGood
    <2>3. pc'[t] # "own_thread"
      BY <1>11, <1>12
    <2> QED
      BY <1>2, <1>3, <1>14, <1>21, <2>1, <2>2, <2>3, OwnersStay
  <1>23. ReadsFresh'
    <2>1. ReadIsFresh(t)'
      BY <1>11, <1>12, <1>15 DEF ReadIsFresh
    <2>2. ASSUME NEW u \in Threads \ {t}, loc'[u].fresh PROVE top'[loc[u].stack] = top[loc[u].stack]
      <3>1. loc[u].stack # s
        BY <1>8, <1>10, <2>2
      <3>2. PICK r \in Stacks : r = loc[u].stack
        BY <1>2 DEF TypeOK, Locals
      <3> QED
        BY <1>2, <1>16, <3>1, <3>2 DEF TypeOK
    <2> QED
      BY <1>2, <1>3, <1>14, <2>1, <2>2, ReadsStay
  <1>24. ObjectsPlaced'
    <2>1. \A c : Program(c)' = Program(c) /\ Carried(t, c)' = {} /\ Carried(t, c) = {}
      BY <1>3, <1>11, <1>12 DEF Program, InUse, Carried
    <2>2. pc[t] # "own_empty" /\ pc'[t] # "own_empty"
      BY <1>3, <1>11, <1>12
    <2>3. Placed(b)'
      BY <1>2, <1>3, <1>4, <1>14, <2>1, <2>2, PlacedSame DEF SameObjects, ObjectsPlaced
    <2> QED
      BY <1>2, <1>3, <1>4, <1>14, <2>1, <2>2, <2>3, OnlyOneMoves
  <1> QED
    BY <1>3, <1>17, <1>18, <1>20, <1>22, <1>23, <1>24 DEF KeepInv, PoolStep

LEMMA TallyFinite ==
    ASSUME NEW b
    PROVE  IsFiniteSet(At({"tally"}, b)) /\ Cardinality(At({"tally"}, b)) \in Nat
  <1>1. IsFiniteSet(At({"tally"}, b))
    BY BlockAllocatorAssumption, FS_Subset DEF At
  <1> QED
    BY <1>1, FS_CardinalityType

LEMMA MapBlockKeeps ==
    ASSUME KeepInv, NEW t \in Threads, MapBlock(t)
    PROVE  KeepInv' /\ PoolStep
  <1>n. PICK n \in Nat, b \in Blocks :
            /\ ~block[b].mapped /\ block' = [block EXCEPT ![b] = NewBlock(n)]
            /\ loc' = [loc EXCEPT ![t].block = b]
    <2>1. PICK b \in Blocks : /\ ~block[b].mapped
                              /\ block' = [block EXCEPT ![b] = NewBlock(Cardinality(At({"tally"}, b)))]
                              /\ loc' = [loc EXCEPT ![t].block = b]
      BY DEF MapBlock
    <2>2. Cardinality(At({"tally"}, b)) \in Nat
      BY TallyFinite
    <2> QED
      BY <2>1, <2>2
  <1>1. /\ ~block[b].mapped /\ block' = [block EXCEPT ![b] = NewBlock(n)]
        /\ loc' = [loc EXCEPT ![t].block = b]
    BY <1>n
  <1>2. /\ TypeOK /\ GoodThread(t) /\ loc[t] \in Locals /\ BlocksKept /\ ObjectsPlaced /\ OwnersGood
        /\ ListsGood /\ ReadsFresh /\ ReadIsFresh(t)
    BY ThreadFacts DEF KeepInv
  <1>3. pc[t] = "map" /\ UNCHANGED store /\ UNCHANGED lists /\ held' = held
    BY DEF MapBlock
  <1>4. PICK L \in Locals : L = [loc[t] EXCEPT !.block = b]
    BY <1>2 DEF Locals
  <1>5. L.block = b /\ L.full = loc[t].full /\ L.fresh = loc[t].fresh
    BY <1>2, <1>4 DEF Locals
  <1>6. Moved(t, "own_empty", L)
    BY <1>1, <1>2, <1>4 DEF MapBlock, Moved, GoTo, Places, TypeOK
  <1>7. Others(t) /\ pc'[t] = "own_empty" /\ loc'[t] = L
    BY <1>3, <1>6, MovedSame
  <1>8. \A u \in Threads \ {t} : loc'[u] = loc[u]
    BY <1>2, <1>6 DEF Moved, TypeOK
  <1>9. PICK C \in Header : /\ C = NewBlock(n) /\ C.thread = Nobody /\ C.public = {} /\ C.allocated = 0
                            /\ C.mapped = TRUE
    <2>1. PICK m \in Int : m = PerBlock
      BY SizeBounds
    <2>2. PICK C : C = NewBlock(n)
      OBVIOUS
    <2>3. C = [mapped |-> TRUE, owner |-> Nobody, thread |-> Nobody, private |-> {}, public |-> {},
               bump |-> m, allocated |-> 0, number |-> 0, inPrevious |-> FALSE, next |-> NoBlock,
               late |-> n]
      BY <2>1, <2>2 DEF NewBlock
    <2>4. C \in Header
      BY <2>3 DEF Header
    <2> QED
      BY <2>2, <2>3, <2>4
  <1>10. block'[b] = C /\ \A c \in Blocks \ {b} : block'[c] = block[c]
    BY <1>1, <1>2, <1>9 DEF TypeOK
  <1>11. UNCHANGED <<bucket, active, lastNext, top, emptyCount>>
    BY <1>3 DEF lists, store
  <1>12. b \notin Mapped /\ (b \in Mapped)' /\ Mapped' = Mapped \cup {b}
    BY <1>1, <1>9, <1>10 DEF Mapped
  <1>13. TypeOK'
    <2>1. block' \in [Blocks -> Header \cup NoHeader]
      BY <1>1, <1>2, <1>9 DEF TypeOK
    <2>2. pc' \in [Threads -> Places] /\ loc' \in [Threads -> Locals]
      BY <1>2, <1>6 DEF Moved, TypeOK
    <2> QED
      BY <1>2, <1>3, <1>11, <2>1, <2>2 DEF TypeOK
  <1>14. ListsGood'
    <2>1. GoodLists(ListsOf(t))' /\ IsInjective(bucket'[t])
      BY <1>2, <1>3, <1>11 DEF GoodThread, Ending, ListsOf, GoodLists
    <2>2. loc'[t].full \in ToSet(bucket'[t]) \cup {NoBlock}
      BY <1>2, <1>3, <1>5, <1>7, <1>11 DEF GoodThread, Ending
    <2>3. GoodThread(t)'
      BY <1>7, <2>1, <2>2 DEF GoodThread, AtWork, Ending
    <2> QED
      BY <1>2, <1>7, <2>3, OthersLists
  <1>15. InHand(t) = {} /\ InHand(t)' = {b} /\ Due(t) = 0 /\ Due(t)' = 0 /\ pc[t] \notin Ending /\ loc'[t].block = b
    BY <1>3, <1>5, <1>7 DEF InHand, InHands, Due, Ending
  <1>16. b \notin Kept(t)
    BY <1>2, <1>12, KeptIsMapped
  <1>17. BlocksKept'
    <2>1. block'[b].allocated = 0
      BY <1>9, <1>10
    <2> QED
      BY <1>2, <1>7, <1>10, <1>11, <1>12, <1>15, <2>1, KeptMapped
  <1>18. OwnersGood'
    <2>1. \A c \in Blocks \ Kept(t) : c \in Mapped =>
              block'[c].owner = block[c].owner /\ block'[c].thread = block[c].thread
      BY <1>10, <1>12
    <2>2. \A c \in Mapped' : c \in Mapped \/ block'[c].thread = Nobody
      BY <1>9, <1>10, <1>12
    <2>3. \A c \in Kept(t) : c \in Mapped' => block'[c].thread \in {block[c].thread, t}
      BY <1>2, <1>10, <1>16, KeptIsMapped
    <2>4. \A c \in ToSet(bucket'[t]) : block'[c].owner = t /\ block'[c].thread = t
      <3> SUFFICES ASSUME NEW c \in ToSet(bucket[t]) PROVE block'[c].owner = t /\ block'[c].thread = t
        BY <1>11
      <3>1. c \in Kept(t)
        BY DEF Kept
      <3>2. c \in Blocks \ {b}
        BY <1>2, <1>16, <3>1, KeptIsMapped
      <3> QED
        BY <1>2, <1>10, <3>2 DEF OwnersGood
    <2>5. \A c \in Mapped' : block'[c].thread = t => c \in ToSet(bucket'[t])
      <3> SUFFICES ASSUME NEW c \in Mapped', block'[c].thread = t PROVE c \in ToSet(bucket[t])
        BY <1>11
      <3>1. c # b
        BY <1>9, <1>10, BlockAllocatorAssumption DEF Nobody
      <3>2. c \in Mapped /\ c \in Blocks \ {b}
        BY <1>12, <3>1 DEF Mapped
      <3> QED
        BY <1>2, <1>10, <1>15, <3>2 DEF OwnersGood
    <2>6. pc'[t] # "own_thread"
      BY <1>7
    <2> QED
      BY <1>2, <1>7, <2>1, <2>2, <2>3, <2>4, <2>5, <2>6, OwnersStay
  <1>19. ReadsFresh'
    <2>1. ReadIsFresh(t)'
      BY <1>2, <1>3, <1>5, <1>7 DEF ReadIsFresh
    <2>2. \A c \in Blocks \ Kept(t) : c \in Mapped => block'[c].next = block[c].next
      BY <1>10, <1>12
    <2> QED
      BY <1>2, <1>7, <1>11, <2>1, <2>2, ReadsStay
  <1>20. ObjectsPlaced'
    <2>1. \A c : Program(c)' = Program(c) /\ Carried(t, c)' = {} /\ Carried(t, c) = {}
      BY <1>3, <1>7 DEF Program, InUse, Carried
    <2>2. pc[t] # "own_empty" /\ loc'[t].block = b
      BY <1>3, <1>15
    <2>3. Placed(b)'
      <3>1. Program(b) = {} /\ CarriedAll(b) = {}
        BY <1>2, <1>12 DEF ObjectsPlaced, Placed
      <3>2. \A u \in Threads : Carried(u, b)' = {}
        <4> SUFFICES ASSUME NEW u \in Threads PROVE Carried(u, b)' = {}
          OBVIOUS
        <4>1. CASE u = t
          BY <2>1, <4>1
        <4>2. CASE u # t
          <5>1. Carried(u, b)' = Carried(u, b)
            BY <1>7, <4>2, OthersHold
          <5> QED
            BY <3>1, <5>1 DEF CarriedAll
        <4> QED
          BY <4>1, <4>2
      <3>3. CarriedAll(b)' = {}
        BY <3>2 DEF CarriedAll
      <3>4. Program(b)' = {} /\ block'[b].public = {} /\ block'[b].allocated = 0
        BY <1>9, <1>10, <2>1, <3>1
      <3>5. Apart(b)' /\ Away(b)' = {}
        BY <3>2, <3>3, <3>4 DEF Apart, Away
      <3>6. At({"own_empty"}, b)' # {}
        BY <1>7, <1>15 DEF At
      <3> QED
        BY <1>12, <3>4, <3>5, <3>6 DEF Placed
    <2> QED
      BY <1>2, <1>7, <1>10, <2>1, <2>2, <2>3, OnlyOneMoves
  <1> QED
    BY <1>3, <1>13, <1>14, <1>17, <1>18, <1>19, <1>20 DEF KeepInv, PoolStep

LEMMA UnmapKeeps ==
    ASSUME KeepInv, NEW t \in Threads, Unmap(t)
    PROVE  KeepInv' /\ PoolStep
  <1>1. PICK b : b = loc[t].block
    OBVIOUS
  <1>2. /\ TypeOK /\ GoodThread(t) /\ loc[t] \in Locals /\ BlocksKept /\ ObjectsPlaced /\ OwnersGood
        /\ bucket[t] \in Seq(Blocks) /\ ListsGood /\ ReadsFresh
    BY ThreadFacts DEF KeepInv
  <1>3. pc[t] = "keep" /\ UNCHANGED store /\ UNCHANGED lists /\ held' = held
    BY DEF Unmap
  <1>4. /\ b \in Blocks /\ b \in Mapped /\ block[b] \in Header /\ b \in Kept(t) /\ InHand(t) = {b}
        /\ b \notin ToSet(bucket[t]) /\ Kept(t) = ToSet(bucket[t]) \cup {b} /\ Placed(b)
    BY <1>1, <1>3, HandFacts DEF InHands
  <1>5. PICK q \in Seq(Blocks) : q = loc[t].todo
    BY <1>2 DEF Locals
  <1>6. IsInjective(q) /\ ToSet(q) \subseteq ToSet(bucket[t])
    BY <1>2, <1>3, <1>5 DEF GoodThread, Ending
  <1>7. PICK L : L = LocalsFor(q)
    OBVIOUS
  <1>8. /\ L \in Locals /\ L.fresh = FALSE /\ IsInjective(L.todo)
        /\ ToSet(L.todo) \subseteq ToSet(q) \ {L.block}
        /\ PlaceFor(q) \in {"destruct", "gone"}
        /\ PlaceFor(q) = "destruct" => L.block \in ToSet(q)
    BY <1>6, <1>7, LocalsForTyped
  <1>9. PICK p \in {"destruct", "gone"} : p = PlaceFor(q)
    BY <1>8
  <1>10. Moved(t, p, L)
    BY <1>5, <1>7, <1>8, <1>9 DEF Unmap, Moved, GoTo, Places, Ending
  <1>11. Others(t) /\ pc'[t] = p /\ loc'[t] = L
    BY <1>3, <1>10, MovedSame
  <1>12. UNCHANGED <<bucket, active, lastNext, top, emptyCount>>
    BY <1>3 DEF lists, store
  <1>13. PICK N \in NoHeader : N = Unmapped /\ N.mapped = FALSE
    <2>1. [mapped |-> FALSE] \in [mapped : {FALSE}] /\ [mapped |-> FALSE].mapped = FALSE
      OBVIOUS
    <2> QED
      BY <2>1 DEF NoHeader, Unmapped
  <1>14. block' = [block EXCEPT ![b] = N]
    BY <1>1, <1>13 DEF Unmap
  <1>15. block'[b] = N /\ \A c \in Blocks \ {b} : block'[c] = block[c]
    BY <1>2, <1>4, <1>14 DEF TypeOK
  <1>16. b \notin Mapped' /\ Mapped' = Mapped \ {b}
    BY <1>13, <1>15 DEF Mapped
  <1>17. TypeOK'
    <2>1. block' \in [Blocks -> Header \cup NoHeader]
      BY <1>2, <1>13, <1>14 DEF TypeOK
    <2>2. pc' \in [Threads -> Places] /\ loc' \in [Threads -> Locals]
      BY <1>2, <1>10 DEF Moved, TypeOK
    <2> QED
      BY <1>2, <1>3, <1>12, <2>1, <2>2 DEF TypeOK
  <1>18. ListsGood'
    <2>1. ToSet(loc'[t].todo) \subseteq ToSet(bucket'[t]) \ {loc'[t].block} /\ IsInjective(loc'[t].todo)
      BY <1>6, <1>8, <1>11, <1>12
    <2>2. pc'[t] \in AtWork => loc'[t].block \in ToSet(bucket'[t])
      BY <1>6, <1>8, <1>9, <1>11, <1>12 DEF AtWork
    <2>3. IsInjective(bucket'[t]) /\ pc'[t] \in Ending /\ pc'[t] \notin {"publish", "tally"}
      BY <1>2, <1>9, <1>11, <1>12 DEF GoodThread, Ending
    <2>4. GoodThread(t)'
      BY <2>1, <2>2, <2>3 DEF GoodThread
    <2> QED
      BY <1>2, <1>11, <2>4, OthersLists
  <1>19. InHand(t)' = {} /\ Due(t) = 0 /\ Due(t)' = 0 /\ pc'[t] \in Ending
    BY <1>3, <1>9, <1>11 DEF InHand, InHands, Due, Ending
  <1>20. BlocksKept'
    <2>1. b \in InHand(t) /\ bucket'[t] = bucket[t] /\ top' = top /\ emptyCount' = emptyCount
      BY <1>4, <1>12
    <2> QED
      BY <1>2, <1>11, <1>15, <1>16, <1>19, <2>1, KeptUnmapped
  <1>21. OwnersGood'
    <2>1. \A c \in Blocks \ Kept(t) : c \in Mapped =>
              block'[c].owner = block[c].owner /\ block'[c].thread = block[c].thread
      BY <1>4, <1>15
    <2>2. \A c \in Mapped' : c \in Mapped
      BY <1>16
    <2>3. \A c \in Kept(t) : c \in Mapped' => block'[c].thread \in {block[c].thread, t}
      BY <1>15, <1>16 DEF Mapped
    <2>4. \A c \in ToSet(bucket'[t]) : block'[c].owner = t /\ block'[c].thread = t
      <3> SUFFICES ASSUME NEW c \in ToSet(bucket[t]) PROVE block'[c].owner = t /\ block'[c].thread = t
        BY <1>12
      <3>1. c \in Blocks \ {b}
        BY <1>4, ThreadFacts
      <3> QED
        BY <1>2, <1>15, <3>1 DEF OwnersGood
    <2>5. pc'[t] # "own_thread"
      BY <1>9, <1>11
    <2> QED
      BY <1>2, <1>11, <1>19, <2>1, <2>2, <2>3, <2>4, <2>5, OwnersStay
  <1>22. ReadsFresh'
    <2>1. ReadIsFresh(t)'
      BY <1>8, <1>9, <1>11 DEF ReadIsFresh
    <2>2. \A c \in Blocks \ Kept(t) : c \in Mapped => block'[c].next = block[c].next
      BY <1>4, <1>15
    <2> QED
      BY <1>2, <1>11, <1>12, <2>1, <2>2, ReadsStay
  <1>23. ObjectsPlaced'
    <2>1. \A c : Program(c)' = Program(c) /\ Carried(t, c)' = {} /\ Carried(t, c) = {}
      BY <1>3, <1>9, <1>11 DEF Program, InUse, Carried
    <2>2. pc[t] # "own_empty" /\ pc'[t] # "own_empty"
      BY <1>3, <1>9, <1>11
    <2>3. Away(b) = {}
      <3>1. At({"own_empty"}, b) = {}
        BY <1>2, <1>4, <2>2, HeldIsNotNew
      <3>2. Right(block[b], Away(b)) /\ block[b].allocated = 0
        BY <1>1, <1>2, <1>3, <1>4, <3>1 DEF Placed, BlocksKept, EmptiesEmpty, EmptyHands
      <3>3. IsFiniteSet(Away(b)) /\ Cardinality(Away(b)) = 0
        BY <3>2, RightFinite DEF Right
      <3> QED
        BY <3>3, FS_EmptySet
    <2>4. Placed(b)'
      <3>1. Program(b)' = {}
        BY <2>1, <2>3 DEF Away
      <3>2. \A u \in Threads : Carried(u, b)' = {}
        <4> SUFFICES ASSUME NEW u \in Threads PROVE Carried(u, b)' = {}
          OBVIOUS
        <4>1. CASE u = t
          BY <2>1, <4>1
        <4>2. CASE u # t
          <5>1. Carried(u, b)' = Carried(u, b)
            BY <1>11, <4>2, OthersHold
          <5> QED
            BY <2>3, <5>1 DEF CarriedAll, Away
        <4> QED
          BY <4>1, <4>2
      <3>3. CarriedAll(b)' = {}
        BY <3>2 DEF CarriedAll
      <3> QED
        BY <1>16, <3>1, <3>3 DEF Placed
    <2> QED
      BY <1>2, <1>4, <1>11, <1>15, <2>1, <2>2, <2>4, OnlyOneMoves
  <1> QED
    BY <1>3, <1>17, <1>18, <1>20, <1>21, <1>22, <1>23 DEF KeepInv, PoolStep

-----------------------------------------------------------------------------
\* Every step

LEMMA StepKeeps ==
    ASSUME KeepInv, Next
    PROVE  KeepInv' /\ PoolStep
  <1>1. PICK t \in Threads : Step(t)
    BY DEF Next
  <1>2. CASE Alloc(t) \/ FreeOwn(t) \/ FreeForeign(t) \/ Exit(t)
    BY <1>2, AllocKeeps, FreeOwnKeeps, FreeForeignKeeps, ExitKeeps
  <1>3. CASE AllocSwaps(t) \/ DestructSwaps(t)
    BY <1>3, SwapKeeps DEF AllocSwaps, DestructSwaps
  <1>4. CASE AllocCounts(t) \/ Walk(t) \/ ScanFinds(t) \/ ScanMisses(t)
    BY <1>4, AllocCountsKeeps, WalkKeeps, ScanFindsKeeps, ScanMissesKeeps
  <1>f. CASE FoundGivesNothing(t)
    BY <1>f, FoundGivesNothingKeeps
  <1>5. CASE PopTop(t) \/ PopNext(t) \/ PopCas(t) \/ PopFails(t)
    BY <1>5, PopTopKeeps, PopNextKeeps, PopCasKeeps, PopFailsKeeps
  <1>6. CASE OwnBlock(t) \/ OwnThread(t) \/ OwnEmpty(t)
    BY <1>6, OwnBlockKeeps, OwnThreadKeeps, OwnEmptyKeeps
  <1>7. CASE MapBlock(t) \/ MapFails(t) \/ Unmap(t)
    BY <1>7, MapBlockKeeps, MapFailsKeeps, UnmapKeeps
  <1>8. CASE Publish(t) \/ Tally(t) \/ Lose(t)
    BY <1>8, PublishKeeps, TallyKeeps, LoseKeeps
  <1>9. CASE PushNonEmpty(t) \/ PushEmpty(t)
    <2>1. PICK s \in Stacks : /\ PushOn(s, t) /\ UNCHANGED <<emptyCount, lists, held>>
                              /\ pc[t] = IF s = "empty" THEN "push_empty" ELSE "push"
      BY <1>9 DEF PushNonEmpty, PushEmpty, Stacks
    <2> QED
      BY <2>1, PushKeeps
  <1>10. CASE Keep(t) \/ CountEmpty(t) \/ Uncount(t)
    BY <1>10, KeepKeeps
  <1> QED
    BY <1>1, <1>2, <1>3, <1>4, <1>5, <1>6, <1>7, <1>8, <1>9, <1>10, <1>f DEF Step, Continue

LEMMA StutterKeeps ==
    ASSUME KeepInv, UNCHANGED vars
    PROVE  KeepInv'
  <1>1. UNCHANGED <<block, top, emptyCount, bucket, active, lastNext, held, pc, loc>>
    BY DEF vars, store, lists
  <1>2. TypeOK'
    BY <1>1 DEF KeepInv, TypeOK
  <1>3. ListsGood'
    BY <1>1 DEF KeepInv, ListsGood, GoodThread, GoodLists, ListsOf
  <1>4. BlocksKept'
    <2>1. PICK Q \in [Stacks -> Seq(Blocks)] : OneKeeper(Q) /\ EmptiesEmpty(Q) /\ EmptiesCounted(Q)
      BY DEF KeepInv, BlocksKept
    <2>2. OneKeeper(Q)'
      BY <1>1, <2>1, ZenonT(60) DEF OneKeeper, IsStack, Kept, InHand, Mapped
    <2>3. EmptiesEmpty(Q)' /\ EmptiesCounted(Q)'
      BY <1>1, <2>1 DEF EmptiesEmpty, EmptiesCounted
    <2> QED
      BY <2>1, <2>2, <2>3 DEF BlocksKept
  <1>5. OwnersGood'
    BY <1>1 DEF KeepInv, OwnersGood, Mapped
  <1>6. ReadsFresh'
    BY <1>1 DEF KeepInv, ReadsFresh, ReadIsFresh
  <1>7. ObjectsPlaced'
    <2>1. ASSUME NEW b \in Blocks
          PROVE  /\ Program(b)' = Program(b) /\ Away(b)' = Away(b) /\ CarriedAll(b)' = CarriedAll(b)
                 /\ At({"own_empty"}, b)' = At({"own_empty"}, b)
      BY <1>1 DEF Away, CarriedAll, Carried, Program, InUse, At
    <2>2. ASSUME NEW b \in Blocks, Apart(b) PROVE Apart(b)'
      BY <1>1, <2>2 DEF Apart, Carried, Program, InUse
    <2> QED
      BY <1>1, <2>1, <2>2 DEF KeepInv, ObjectsPlaced, Placed, Right, Mapped
  <1> QED
    BY <1>2, <1>3, <1>4, <1>5, <1>6, <1>7 DEF KeepInv

LEMMA InitKeeps ==
    ASSUME Init
    PROVE  KeepInv
  <1>1. TypeOK
    <2>1. Unmapped \in NoHeader
      BY DEF Unmapped, NoHeader
    <2>2. <<>> \in Seq(Blocks)
      BY EmptySeq
    <2> QED
      BY <2>1, <2>2, NoLocalsTyped DEF Init, TypeOK, Places
  <1>2. \A t \in Threads : bucket[t] = <<>> /\ active[t] = NoBlock /\ lastNext[t] = NoBlock
                           /\ pc[t] = "idle" /\ loc[t] = NoLocals
    BY DEF Init
  <1>3. Mapped = {} /\ \A b \in Blocks : block[b].mapped = FALSE
    BY DEF Init, Unmapped, Mapped
  <1>4. ToSet(<<>>) = {} /\ <<>> \in Seq(Blocks) /\ Len(<<>>) = 0
    BY EmptySeq, SeqFacts
  <1>5. IsInjective(<<>>)
    BY <1>4, SeqFacts
  <1>6. ListsGood
    <2> SUFFICES ASSUME NEW t \in Threads PROVE GoodThread(t)
      BY DEF ListsGood
    <2>1. ListsOf(t) = [bucket |-> <<>>, active |-> NoBlock, lastNext |-> NoBlock]
      BY <1>2 DEF ListsOf
    <2>2. GoodLists(ListsOf(t))
      BY <1>4, <1>5, <2>1 DEF GoodLists
    <2> QED
      BY <1>2, <1>4, <1>5, <2>2, NoLocalsTyped DEF GoodThread, Ending, AtWork
  <1>7. BlocksKept
    <2>1. PICK Q : Q = [s \in Stacks |-> <<>>]
      OBVIOUS
    <2>2. Q \in [Stacks -> Seq(Blocks)] /\ \A s \in Stacks : Q[s] = <<>>
      BY <1>4, <2>1
    <2>3. \A s \in Stacks : IsStack(s, Q[s])
      BY <1>4, <1>5, <2>2 DEF Init, IsStack
    <2>4. \A t \in Threads : InHand(t) = {} /\ Kept(t) = {} /\ ToSet(bucket[t]) = {}
      BY <1>2, <1>4 DEF InHand, InHands, Kept
    <2>5. OneKeeper(Q)
      BY <1>3, <1>4, <2>2, <2>3, <2>4 DEF OneKeeper
    <2>6. "empty" \in Stacks
      BY DEF Stacks
    <2>7. EmptiesEmpty(Q)
      BY <1>2, <1>4, <2>2, <2>6 DEF EmptiesEmpty, EmptyHands
    <2>8. {t \in Threads : pc[t] \in {"uncount", "push_empty"}} = {}
      BY <1>2
    <2>9. EmptiesCounted(Q)
      <3>1. Cardinality({t \in Threads : pc[t] \in {"uncount", "push_empty"}}) = 0
        BY <2>8, FS_EmptySet
      <3>2. Len(Q["empty"]) = 0 /\ emptyCount = 0
        BY <1>4, <2>2, <2>6 DEF Init
      <3> QED
        BY <3>1, <3>2 DEF EmptiesCounted
    <2> QED
      BY <2>2, <2>5, <2>7, <2>9 DEF BlocksKept
  <1>8. OwnersGood
    BY <1>2, <1>3, <1>4 DEF OwnersGood
  <1>9. ReadsFresh
    BY <1>2, NoLocalsTyped DEF ReadsFresh, ReadIsFresh
  <1>10. ObjectsPlaced
    <2> SUFFICES ASSUME NEW b \in Blocks PROVE Program(b) = {} /\ CarriedAll(b) = {}
      BY <1>3 DEF ObjectsPlaced, Placed
    <2>1. Program(b) = {}
      BY DEF Program, InUse, Init
    <2>2. \A t \in Threads : Carried(t, b) = {}
      BY <1>2 DEF Carried
    <2> QED
      BY <2>1, <2>2 DEF CarriedAll
  <1> QED
    BY <1>1, <1>6, <1>7, <1>8, <1>9, <1>10 DEF KeepInv

(* Where the blocks and the objects are is an invariant of the allocator.  *)
THEOREM AllocatorInvariant == Spec => []KeepInv
  <1>1. Init => KeepInv
    BY InitKeeps
  <1>2. KeepInv /\ [Next]_vars => KeepInv'
    BY StepKeeps, StutterKeeps
  <1> QED
    BY <1>1, <1>2, PTL DEF Spec

-----------------------------------------------------------------------------
\* What the invariant says

(* The allocator hands out objects that nobody holds, and takes back those *)
(* that somebody holds, whichever threads allocate, free, publish, end or  *)
(* take over blocks meanwhile, and also if the system maps an address      *)
(* again: every step is a step of ObjectPool or changes nothing of it.     *)
THEOREM AllocatorRefines == Spec => ImplementsObjectPool
  <1>1. Init => Pool!Init
    BY DEF Init, Pool!Init
  <1>2. ASSUME KeepInv, [Next]_vars PROVE [Pool!Next]_held
    <2>1. CASE UNCHANGED vars
      BY <2>1 DEF vars
    <2>2. CASE Next
      <3>1. PoolStep
        BY <1>2, <2>2, StepKeeps
      <3> QED
        BY <3>1 DEF PoolStep, Pool!Next, Pool!Alloc, Pool!Free
    <2> QED
      BY <1>2, <2>1, <2>2
  <1> QED
    BY <1>1, <1>2, AllocatorInvariant, PTL DEF Spec, ImplementsObjectPool, Pool!Spec

LEMMA ChainIsShort ==
    ASSUME NEW q \in Seq(Blocks), IsInjective(q)
    PROVE  q \in SeqOf(Blocks, Cardinality(Blocks))
  <1>1. PICK n \in Nat : n = Len(q) /\ q \in [1 .. n -> Blocks] /\ DOMAIN q = 1 .. n
    OBVIOUS
  <1>2. q \in Injection(1 .. n, Blocks)
    BY <1>1 DEF IsInjective, Injection
  <1>3. PICK m \in Nat : m = Cardinality(Blocks)
    BY BlockAllocatorAssumption, FS_CardinalityType
  <1>4. Cardinality(1 .. n) = n
    <2>1. 1 \in Int /\ n \in Int
      OBVIOUS
    <2> QED
      BY <2>1, FS_Interval
  <1>5. n <= m
    BY <1>2, <1>3, <1>4, BlockAllocatorAssumption, FS_Injection
  <1>6. n \in 0 .. m
    BY <1>5
  <1> QED
    BY <1>1, <1>3, <1>6 DEF SeqOf

LEMMA OneKeeperCounts ==
    ASSUME TypeOK, NEW Q \in [Stacks -> Seq(Blocks)], OneKeeper(Q), NEW b \in Blocks
    PROVE  Cardinality({t \in Threads : b \in ToSet(bucket[t])})
             + Cardinality({s \in Stacks : b \in ToSet(Q[s])})
             + Cardinality(At(InHands, b)) = IF block[b].mapped THEN 1 ELSE 0
  <1>1. PICK A1, A2, A3 :
            /\ A1 = {t \in Threads : b \in ToSet(bucket[t])}
            /\ A2 = {s \in Stacks : b \in ToSet(Q[s])}
            /\ A3 = At(InHands, b)
    OBVIOUS
  <1>2. /\ \A t \in Threads : (t \in A1) <=> (b \in ToSet(bucket[t]))
        /\ \A s \in Stacks : (s \in A2) <=> (b \in ToSet(Q[s]))
        /\ \A t \in Threads : (t \in A3) <=> (b \in InHand(t))
        /\ A1 \subseteq Threads /\ A2 \subseteq Stacks /\ A3 \subseteq Threads
    BY <1>1 DEF At, InHand
  <1>3. \A t \in Threads : (b \in Kept(t)) <=> (t \in A1 \/ t \in A3)
    BY <1>2 DEF Kept
  <1>4. \A x : Cardinality({x}) = 1
    BY FS_Singleton
  <1>5. Cardinality({}) = 0
    BY FS_EmptySet
  <1>6. (b \in Mapped) <=> block[b].mapped
    BY DEF Mapped
  <1>12. SUFFICES ASSUME NEW n1, n1 = Cardinality(A1), NEW n2, n2 = Cardinality(A2),
                         NEW n3, n3 = Cardinality(A3)
                  PROVE  n1 + n2 + n3 = IF b \in Mapped THEN 1 ELSE 0
    BY <1>1, <1>6
  <1>7. CASE b \notin Mapped
    <2>1. A1 = {} /\ A2 = {} /\ A3 = {}
      BY <1>2, <1>3, <1>7 DEF OneKeeper
    <2> QED
      BY <1>5, <1>6, <1>7, <1>12, <2>1
  <1>8. ASSUME b \in Mapped, NEW t \in A1
        PROVE  A1 = {t} /\ A2 = {} /\ A3 = {}
    <2>1. t \in Threads /\ b \in Kept(t) /\ b \in ToSet(bucket[t])
      BY <1>2, <1>3, <1>8
    <2>2. \A u \in Threads \ {t} : b \notin Kept(u)
      BY <2>1 DEF OneKeeper
    <2>3. t \notin A3
      BY <1>2, <2>1 DEF OneKeeper
    <2>4. A2 = {}
      BY <1>2, <2>1 DEF OneKeeper
    <2> QED
      BY <1>2, <1>3, <1>8, <2>2, <2>3, <2>4
  <1>9. ASSUME b \in Mapped, NEW t \in A3
        PROVE  A1 = {} /\ A2 = {} /\ A3 = {t}
    <2>1. t \in Threads /\ b \in Kept(t) /\ b \in InHand(t)
      BY <1>2, <1>3, <1>9
    <2>2. \A u \in Threads \ {t} : b \notin Kept(u)
      BY <2>1 DEF OneKeeper
    <2>3. t \notin A1
      BY <1>2, <2>1 DEF OneKeeper
    <2>4. A2 = {}
      BY <1>2, <2>1 DEF OneKeeper
    <2> QED
      BY <1>2, <1>3, <1>9, <2>2, <2>3, <2>4
  <1>10. ASSUME b \in Mapped, NEW s \in A2
         PROVE  A1 = {} /\ A2 = {s} /\ A3 = {}
    <2>1. s \in Stacks /\ b \in ToSet(Q[s])
      BY <1>2, <1>10
    <2>2. \A r \in Stacks : r # s => b \notin ToSet(Q[r])
      BY <2>1 DEF OneKeeper
    <2>3. \A u \in Threads : b \notin Kept(u)
      BY <2>1 DEF OneKeeper
    <2> QED
      BY <1>2, <1>3, <1>10, <2>2, <2>3
  <1>11. CASE b \in Mapped
    <2>1. (\E t \in Threads : b \in Kept(t)) \/ (\E s \in Stacks : b \in ToSet(Q[s]))
      BY <1>11 DEF OneKeeper
    <2>2. CASE \E t : t \in A1
      <3>1. PICK t : t \in A1
        BY <2>2
      <3>2. A1 = {t} /\ A2 = {} /\ A3 = {}
        BY <1>8, <1>11, <3>1
      <3>3. Cardinality({t}) = 1
        BY <1>4
      <3>4. n1 = 1 /\ n2 = 0 /\ n3 = 0
        BY <1>5, <1>12, <3>2, <3>3
      <3> QED
        BY <1>11, <3>4
    <2>3. CASE \E t : t \in A3
      <3>1. PICK t : t \in A3
        BY <2>3
      <3>2. A1 = {} /\ A2 = {} /\ A3 = {t}
        BY <1>9, <1>11, <3>1
      <3>3. Cardinality({t}) = 1
        BY <1>4
      <3>4. n1 = 0 /\ n2 = 0 /\ n3 = 1
        BY <1>5, <1>12, <3>2, <3>3
      <3> QED
        BY <1>11, <3>4
    <2>4. CASE \E s : s \in A2
      <3>1. PICK s : s \in A2
        BY <2>4
      <3>2. A1 = {} /\ A2 = {s} /\ A3 = {}
        BY <1>10, <1>11, <3>1
      <3>3. Cardinality({s}) = 1
        BY <1>4
      <3>4. n1 = 0 /\ n2 = 1 /\ n3 = 0
        BY <1>5, <1>12, <3>2, <3>3
      <3> QED
        BY <1>11, <3>4
    <2> QED
      BY <1>2, <1>3, <2>1, <2>2, <2>3, <2>4
  <1> QED
    BY <1>7, <1>11

(* A block is always with one keeper: in the lists of its owner, on one of *)
(* the two stacks or in one thread's hand, though the pops of several      *)
(* threads overlap with pushes and a thread may end at any time.           *)
THEOREM BlocksStayAccounted == Spec => []BlocksAccounted
  <1>1. ASSUME KeepInv PROVE BlocksAccounted
    <2>0. TypeOK /\ ListsGood /\ BlocksKept /\ OwnersGood
      BY <1>1 DEF KeepInv
    <2>1. ASSUME NEW t \in Threads
          PROVE  /\ IsInjective(bucket[t])
                 /\ \A b \in ToSet(bucket[t]) : block[b].mapped /\ Owns(t, b) /\ block[b].owner = t
      <3>1. IsInjective(bucket[t])
        BY <2>0 DEF ListsGood, GoodThread
      <3>2. ASSUME NEW b \in ToSet(bucket[t])
            PROVE  block[b].mapped /\ Owns(t, b) /\ block[b].owner = t
        <4>1. b \in Kept(t)
          BY DEF Kept
        <4>2. block[b].mapped
          BY <2>0, <4>1, KeptIsMapped
        <4>3. block[b].owner = t /\ block[b].thread = t /\ t # Nobody
          BY <2>0, BlockAllocatorAssumption DEF OwnersGood, Nobody
        <4> QED
          BY <4>2, <4>3 DEF Owns
      <3> QED
        BY <3>1, <3>2
    <2>2. PICK Q \in [Stacks -> Seq(Blocks)] : OneKeeper(Q) /\ EmptiesCounted(Q)
      BY <2>0 DEF BlocksKept
    <2>3. \A s \in Stacks : IsStack(s, Q[s])
      BY <2>2 DEF OneKeeper
    <2>4. Q \in [Stacks -> SeqOf(Blocks, Cardinality(Blocks))]
      <3>1. ASSUME NEW s \in Stacks PROVE Q[s] \in SeqOf(Blocks, Cardinality(Blocks))
        BY <2>3, ChainIsShort DEF IsStack
      <3> QED
        BY <2>2, <3>1
    <2>5. \A b \in Blocks :
             Cardinality({t \in Threads : b \in ToSet(bucket[t])})
               + Cardinality({s \in Stacks : b \in ToSet(Q[s])})
               + Cardinality(At(InHands, b)) = IF block[b].mapped THEN 1 ELSE 0
      BY <2>0, <2>2, OneKeeperCounts
    <2>6. emptyCount = Len(Q["empty"]) + Cardinality({t \in Threads : pc[t] \in {"uncount", "push_empty"}})
      BY <2>2 DEF EmptiesCounted
    <2> QED
      BY <2>1, <2>3, <2>4, <2>5, <2>6 DEF BlocksAccounted
  <1> QED
    BY <1>1, AllocatorInvariant, PTL

-----------------------------------------------------------------------------
\* What the counts of the public lists say

\* Objects that a thread has taken from the public list of a block and not counted.
Taken(t, b) ==
    IF pc[t] \in {"count", "lose"} /\ loc[t].block = b THEN loc[t].taken ELSE {}
Published(b) == block[b].public \cup UNION {Taken(t, b) : t \in Threads}

\* m_ObjectFreeVector_Public_Number is behind the public list by the threads
\* that have pushed an object and not added to it, and before it by those whose
\* object was of an earlier block at the same address.
NumberRight(b) ==
    b \in Mapped =>
        block[b].number =
            Cardinality(Published(b)) - Cardinality(At({"tally"}, b)) + block[b].late

\* A full block that the scan found has a public list that gives something, or
\* its count is not only about its own list.
FoundFor(t) ==
    loc[t].stage = "none" \/ pc[t] = "none" =>
        \/ pc[t] = "swap" /\ block[loc[t].block].public # {}
        \/ pc[t] = "count" /\ loc[t].taken # {}
        \/ pc[t] \in {"swap", "count", "none"} /\ block[loc[t].block].late > 0

CountInv == (\A b \in Blocks : NumberRight(b)) /\ (\A t \in Threads : FoundFor(t))

\* What the counts depend on of the threads that do not step.
SameThreads(t) ==
    \A u \in Threads \ {t} :
        /\ pc'[u] = pc[u] /\ loc'[u].block = loc[u].block
        /\ loc'[u].taken = loc[u].taken /\ loc'[u].stage = loc[u].stage

(* A step of thread t moves no other thread.                               *)
LEMMA OthersStand == ASSUME TypeOK, NEW t \in Threads, Step(t) PROVE SameThreads(t)
  <1>1. ASSUME NEW p, GoTo(t, p), NEW L, loc' = [loc EXCEPT ![t] = L] \/ loc' = loc
        PROVE  SameThreads(t)
    BY <1>1 DEF GoTo, SameThreads, TypeOK
  <1>2. ASSUME NEW p, GoTo(t, p), NEW L, NEW s, loc' = Touch(s, [loc EXCEPT ![t] = L])
        PROVE  SameThreads(t)
    <2> SUFFICES ASSUME NEW u \in Threads \ {t}
                 PROVE  /\ pc'[u] = pc[u] /\ loc'[u].block = loc[u].block
                        /\ loc'[u].taken = loc[u].taken /\ loc'[u].stage = loc[u].stage
      BY DEF SameThreads
    <2>1. PICK l \in Locals : l = loc[u]
      BY DEF TypeOK
    <2>2. loc'[u] = IF l.stack = s THEN [l EXCEPT !.fresh = FALSE] ELSE l
      BY <1>2, <2>1 DEF Touch, TypeOK
    <2>3. pc'[u] = pc[u]
      BY <1>2 DEF GoTo, TypeOK
    <2> QED
      BY <2>1, <2>2, <2>3 DEF Locals
  <1>3. ASSUME NEW b, NEW B, Grant(t, b, B) PROVE SameThreads(t)
    BY <1>1, <1>3 DEF Grant, Back
  <1>4. ASSUME NEW b, NEW B, NEW stage, TryBlock(t, b, B, stage) PROVE SameThreads(t)
    <2>1. CASE HasRoom(B)
      BY <1>3, <1>4, <2>1 DEF TryBlock
    <2>2. CASE ~HasRoom(B)
      BY <1>4, <2>2 DEF TryBlock, GoTo, SameThreads, TypeOK
    <2> QED
      BY <2>1, <2>2
  <1>5. CASE Alloc(t)
    <2>1. CASE HasRoom(block[active[t]]) /\ active[t] # NoBlock
      BY <1>3, <1>5, <2>1 DEF Alloc
    <2>2. CASE ~(HasRoom(block[active[t]]) /\ active[t] # NoBlock)
      BY <1>5, <2>2 DEF Alloc, GoTo, SameThreads, TypeOK
    <2> QED
      BY <2>1, <2>2
  <1>6. CASE FreeOwn(t)
    BY <1>6 DEF FreeOwn, SameThreads
  <1>7. CASE FreeForeign(t)
    BY <1>7 DEF FreeForeign, GoTo, SameThreads, TypeOK
  <1>8. CASE Exit(t)
    BY <1>1, <1>8 DEF Exit
  <1>9. CASE AllocSwaps(t) \/ DestructSwaps(t)
    BY <1>9 DEF AllocSwaps, DestructSwaps, Swap, GoTo, SameThreads, TypeOK
  <1>10. CASE AllocCounts(t)
    <2> DEFINE B == RestoreIfEmpty(Repatriate(block[loc[t].block], loc[t].taken))
    <2>1. CASE HasRoom(B)
      BY <1>3, <1>10, <2>1 DEF AllocCounts
    <2>2. CASE ~HasRoom(B)
      BY <1>10, <2>2 DEF AllocCounts, GoTo, SameThreads, TypeOK
    <2> QED
      BY <2>1, <2>2
  <1>11. CASE Walk(t)
    <2>1. CASE PrevOf(bucket[t], loc[t].block) = NoBlock
      BY <1>11, <2>1 DEF Walk, GoTo, SameThreads, TypeOK
    <2>2. CASE PrevOf(bucket[t], loc[t].block) # NoBlock
      BY <1>4, <1>11, <2>2 DEF Walk
    <2> QED
      BY <2>1, <2>2
  <1>12. CASE ScanFinds(t)
    BY <1>4, <1>12 DEF ScanFinds
  <1>13. CASE ScanMisses(t) \/ FoundGivesNothing(t) \/ PopTop(t) \/ PopNext(t) \/ PopFails(t)
    BY <1>13 DEF ScanMisses, FoundGivesNothing, PopTop, PopNext, PopFails, GoTo, Back, SameThreads, TypeOK
  <1>14. CASE PopCas(t)
    <2>1. PICK L : L = [loc[t] EXCEPT !.block = loc[t].top]
      OBVIOUS
    <2>2. [loc EXCEPT ![t].block = loc[t].top] = [loc EXCEPT ![t] = L]
      BY <2>1
    <2> QED
      BY <1>2, <1>14, <2>2 DEF PopCas
  <1>15. CASE OwnBlock(t) \/ Uncount(t) \/ MapFails(t) \/ Keep(t) \/ CountEmpty(t)
    BY <1>15 DEF OwnBlock, Uncount, MapFails, Keep, CountEmpty, GoTo, Back, SameThreads, TypeOK
  <1>16. CASE MapBlock(t) \/ Publish(t) \/ Tally(t) \/ Lose(t) \/ Unmap(t)
    BY <1>16 DEF MapBlock, Publish, Tally, Lose, Unmap, GoTo, Back, SameThreads, TypeOK
  <1>17. CASE OwnThread(t)
    BY <1>4, <1>17 DEF OwnThread
  <1>18. CASE OwnEmpty(t)
    BY <1>3, <1>18 DEF OwnEmpty
  <1>19. CASE PushNonEmpty(t) \/ PushEmpty(t)
    BY <1>2, <1>19 DEF PushNonEmpty, PushEmpty, PushOn
  <1> QED
    BY <1>5, <1>6, <1>7, <1>8, <1>9, <1>10, <1>11, <1>12, <1>13, <1>14, <1>15, <1>16, <1>17,
       <1>18, <1>19 DEF Step, Continue

\* Block c has the public list and the count it had.
SameCount(c) ==
    /\ block'[c].mapped = block[c].mapped
    /\ block[c].mapped =>
          /\ block'[c].number = block[c].number /\ block'[c].public = block[c].public
          /\ block'[c].late = block[c].late

(* What the other threads have taken and are about to add stays so.        *)
LEMMA OthersCounts ==
    ASSUME NEW t \in Threads, SameThreads(t), NEW u \in Threads \ {t}, NEW c
    PROVE  Taken(u, c)' = Taken(u, c) /\ (u \in At({"tally"}, c)' <=> u \in At({"tally"}, c))
  BY DEF SameThreads, Taken, At

(* A step that counts nothing of block c leaves its count right.           *)
LEMMA NumberStays ==
    ASSUME NEW t \in Threads, SameThreads(t), NEW c \in Blocks, NumberRight(c), SameCount(c),
           Taken(t, c)' = Taken(t, c), t \in At({"tally"}, c)' <=> t \in At({"tally"}, c)
    PROVE  NumberRight(c)'
  <1>1. \A u \in Threads : Taken(u, c)' = Taken(u, c)
    BY OthersCounts
  <1>2. At({"tally"}, c)' = At({"tally"}, c)
    <2>1. At({"tally"}, c)' \subseteq Threads /\ At({"tally"}, c) \subseteq Threads
      BY DEF At
    <2> QED
      BY <2>1, OthersCounts
  <1>3. (c \in Mapped)' <=> c \in Mapped
    BY DEF Mapped, SameCount
  <1>4. c \in Mapped => Published(c)' = Published(c)
    BY <1>1 DEF Published, SameCount, Mapped
  <1> QED
    BY <1>2, <1>3, <1>4 DEF NumberRight, SameCount, Mapped

(* No step takes from the public list that another thread is to find.      *)
LEMMA FoundStays ==
    ASSUME KeepInv, CountInv, NEW t \in Threads, SameThreads(t), FoundFor(t)',
           \A c \in Mapped \ Kept(t) :
              block[c].public \subseteq block'[c].public /\ block'[c].late = block[c].late
    PROVE  \A u \in Threads : FoundFor(u)'
  <1> SUFFICES ASSUME NEW u \in Threads \ {t} PROVE FoundFor(u)'
    OBVIOUS
  <1>1. FoundFor(u)
    BY DEF CountInv
  <1>2. /\ pc'[u] = pc[u] /\ loc'[u].block = loc[u].block
        /\ loc'[u].taken = loc[u].taken /\ loc'[u].stage = loc[u].stage
    BY DEF SameThreads
  <1>3. ASSUME pc[u] \in {"swap", "count", "none"} PROVE loc[u].block \in Mapped \ Kept(t)
    <2>1. loc[u].block \in Kept(u)
      BY <1>3, ThreadFacts DEF GoodThread, AtWork, Kept
    <2> QED
      BY <2>1, KeptIsMapped, OthersElsewhere DEF KeepInv
  <1> QED
    BY <1>1, <1>2, <1>3 DEF FoundFor

(* A step that counts nothing keeps the counts.                            *)
LEMMA PlainStep ==
    ASSUME KeepInv, CountInv, NEW t \in Threads, SameThreads(t), FoundFor(t)',
           \A c \in Blocks : SameCount(c),
           pc[t] \notin {"count", "lose", "tally"}, pc'[t] \notin {"count", "lose", "tally"}
    PROVE  CountInv'
  <1>1. ASSUME NEW c \in Blocks PROVE NumberRight(c)'
    <2>1. Taken(t, c)' = Taken(t, c) /\ (t \in At({"tally"}, c)' <=> t \in At({"tally"}, c))
      BY DEF Taken, At
    <2> QED
      BY <2>1, NumberStays DEF CountInv
  <1>2. \A c \in Mapped \ Kept(t) :
           block[c].public \subseteq block'[c].public /\ block'[c].late = block[c].late
    BY DEF SameCount, Mapped
  <1> QED
    BY <1>1, <1>2, FoundStays DEF CountInv

(* The header of block b is now C, whose public list and count are those   *)
(* of b.                                                                   *)
LEMMA HeaderCounts ==
    ASSUME TypeOK, NEW b \in Mapped, NEW C, C.mapped = TRUE, C.number = block[b].number,
           C.public = block[b].public, C.late = block[b].late, block' = [block EXCEPT ![b] = C]
    PROVE  \A c \in Blocks : SameCount(c)
  <1>1. b \in Blocks /\ block[b].mapped = TRUE
    BY MappedHeader DEF Mapped, Header
  <1>2. block'[b] = C /\ \A c \in Blocks \ {b} : block'[c] = block[c]
    BY <1>1 DEF TypeOK
  <1> QED
    BY <1>1, <1>2 DEF SameCount

LEMMA UsedCounts ==
    ASSUME NEW B \in Header
    PROVE  /\ Used(B).mapped = TRUE /\ Used(B).number = B.number /\ Used(B).public = B.public
           /\ Used(B).late = B.late
  BY DEF Used, Header

(* What Alloc does with a block, but for the block the scan found.         *)
LEMMA GrantPlain ==
    ASSUME KeepInv, CountInv, NEW t \in Threads, SameThreads(t), NEW b \in Mapped, NEW B \in Header,
           B.number = block[b].number, B.public = block[b].public, B.late = block[b].late,
           Grant(t, b, B),
           pc[t] \notin {"count", "lose", "tally"}
    PROVE  CountInv'
  <1>1. PICK C : C = Used(B)
    OBVIOUS
  <1>2. \A c \in Blocks : SameCount(c)
    BY <1>1, UsedCounts, HeaderCounts DEF KeepInv, Grant
  <1>3. pc'[t] = "idle" /\ loc'[t].stage = "walk"
    BY NoLocalsTyped DEF Grant, Back, GoTo, KeepInv, TypeOK
  <1> QED
    BY <1>2, <1>3, PlainStep DEF FoundFor

LEMMA TryPlain ==
    ASSUME KeepInv, CountInv, NEW t \in Threads, SameThreads(t), NEW b \in Mapped, NEW B \in Header,
           B.number = block[b].number, B.public = block[b].public, B.late = block[b].late,
           NEW s \in {"walk", "none", "pop"}, TryBlock(t, b, B, s),
           s = "none" /\ ~HasRoom(B) => B.public # {} \/ B.late > 0,
           pc[t] \notin {"count", "lose", "tally"}
    PROVE  CountInv'
  <1>1. CASE HasRoom(B)
    BY <1>1, GrantPlain DEF TryBlock
  <1>2. CASE ~HasRoom(B)
    <2>1. \A c \in Blocks : SameCount(c)
      <3>1. block' = [block EXCEPT ![b] = B] /\ B.mapped = TRUE
        BY <1>2 DEF TryBlock, Header
      <3> QED
        BY <3>1, HeaderCounts DEF KeepInv
    <2>2. pc'[t] = "swap" /\ loc'[t].stage = s /\ loc'[t].block = b
      <3>1. PICK L \in Locals : L = loc[t]
        BY ThreadFacts
      <3>2. loc'[t] = [L EXCEPT !.block = b, !.stage = s] /\ pc'[t] = "swap"
        BY <1>2, <3>1 DEF TryBlock, GoTo, KeepInv, TypeOK
      <3> QED
        BY <3>2 DEF Locals
    <2>3. block'[b].public = B.public /\ block'[b].late = B.late
      BY <1>2 DEF TryBlock, KeepInv, TypeOK, Mapped
    <2> QED
      BY <1>2, <2>1, <2>2, <2>3, PlainStep DEF FoundFor
  <1> QED
    BY <1>1, <1>2

(* The steps of a thread that finds nothing and counts nothing.            *)
LEMMA CalmStep ==
    ASSUME KeepInv, CountInv, NEW t \in Threads, SameThreads(t), \A c \in Blocks : SameCount(c),
           pc[t] \notin {"swap", "count", "none", "lose", "tally"},
           pc'[t] \notin {"none", "count", "lose", "tally"},
           loc'[t].stage \in {loc[t].stage, "walk"}
    PROVE  CountInv'
  <1>1. FoundFor(t)
    BY DEF CountInv
  <1>2. FoundFor(t)'
    BY <1>1 DEF FoundFor
  <1> QED
    BY <1>2, PlainStep

(* The steps that take, count and find nothing.                            *)
LEMMA CalmCounts ==
    ASSUME KeepInv, CountInv, NEW t \in Threads, SameThreads(t),
           \/ FreeForeign(t) \/ Exit(t) \/ ScanMisses(t) \/ PopTop(t) \/ PopNext(t) \/ PopFails(t)
           \/ PopCas(t) \/ Uncount(t) \/ MapFails(t) \/ Keep(t) \/ CountEmpty(t)
    PROVE  CountInv'
  <1>1. TypeOK /\ loc[t] \in Locals
    BY ThreadFacts
  <1>2. block' = block
    BY DEF FreeForeign, Exit, ScanMisses, PopTop, PopNext, PopFails, PopCas, Uncount, MapFails, Keep,
           CountEmpty, Back
  <1>3. \A c \in Blocks : SameCount(c)
    BY <1>2 DEF SameCount
  <1>4. /\ pc[t] \notin {"swap", "count", "none", "lose", "tally"}
        /\ pc'[t] \notin {"none", "count", "lose", "tally"}
    BY <1>1 DEF FreeForeign, Exit, ScanMisses, PopTop, PopNext, PopFails, PopCas, Uncount, MapFails, Keep,
           CountEmpty, Back, GoTo, PlaceFor, TypeOK
  <1>5. loc'[t].stage \in {loc[t].stage, "walk"}
    <2>1. PICK L \in Locals : L = loc[t]
      BY <1>1
    <2>2. CASE FreeForeign(t)
      <3>1. PICK b, o : loc' = [loc EXCEPT ![t].block = b, ![t].object = o]
        BY <2>2 DEF FreeForeign
      <3>2. loc'[t] = [L EXCEPT !.block = b, !.object = o]
        BY <1>1, <2>1, <3>1 DEF TypeOK
      <3> QED
        BY <2>1, <3>2 DEF Locals
    <2>3. CASE Exit(t)
      <3>1. \A q : LocalsFor(q).stage = "walk"
        BY DEF LocalsFor, NoLocals
      <3> QED
        BY <1>1, <2>3, <3>1 DEF Exit, TypeOK
    <2>4. CASE loc' = loc
      BY <2>4
    <2>5. CASE PopTop(t)
      <3>1. \/ loc' = loc
            \/ \E v : loc' = [loc EXCEPT ![t].top = v, ![t].fresh = TRUE]
            \/ loc' = [loc EXCEPT ![t].stack = "empty"]
        BY <2>5, Zenon DEF PopTop
      <3>2. CASE \E v : loc' = [loc EXCEPT ![t].top = v, ![t].fresh = TRUE]
        <4>1. PICK v : loc' = [loc EXCEPT ![t].top = v, ![t].fresh = TRUE]
          BY <3>2
        <4>2. loc'[t] = [L EXCEPT !.top = v, !.fresh = TRUE]
          BY <1>1, <2>1, <4>1 DEF TypeOK
        <4> QED
          BY <2>1, <4>2 DEF Locals
      <3>3. CASE loc' = [loc EXCEPT ![t].stack = "empty"]
        <4>1. loc'[t] = [L EXCEPT !.stack = "empty"]
          BY <1>1, <2>1, <3>3 DEF TypeOK
        <4> QED
          BY <2>1, <4>1 DEF Locals
      <3> QED
        BY <3>1, <3>2, <3>3
    <2>6. CASE PopNext(t)
      <3>1. \E v : loc'[t] = [L EXCEPT !.next = v]
        BY <1>1, <2>1, <2>6 DEF PopNext, TypeOK
      <3> QED
        BY <2>1, <3>1 DEF Locals
    <2>7. CASE PopCas(t)
      <3>1. PICK K : K = [L EXCEPT !.block = loc[t].top]
        OBVIOUS
      <3>2. K.stage = L.stage
        BY <3>1 DEF Locals
      <3>3. loc'[t] \in {K, [K EXCEPT !.fresh = FALSE]}
        BY <1>1, <2>1, <2>7, <3>1 DEF PopCas, Touch, TypeOK
      <3>4. [K EXCEPT !.fresh = FALSE].stage = K.stage
        BY <3>1 DEF Locals
      <3> QED
        BY <2>1, <3>2, <3>3, <3>4
    <2>8. CASE MapFails(t)
      BY <1>1, <2>8, NoLocalsTyped DEF MapFails, Back, TypeOK
    <2> QED
      BY <2>2, <2>3, <2>4, <2>5, <2>6, <2>7, <2>8
         DEF ScanMisses, PopFails, Uncount, Keep, CountEmpty
  <1> QED
    BY <1>3, <1>4, <1>5, CalmStep

LEMMA FoundGivesNothingCounts ==
    ASSUME KeepInv, CountInv, NEW t \in Threads, SameThreads(t), FoundGivesNothing(t)
    PROVE  CountInv'
  <1>1. /\ TypeOK /\ block' = block /\ pc[t] = "none"
        /\ pc'[t] = "idle" /\ loc'[t] = NoLocals
    BY DEF KeepInv, FoundGivesNothing, Back, GoTo, TypeOK
  <1>2. \A c \in Blocks : SameCount(c)
    BY <1>1 DEF SameCount
  <1>3. FoundFor(t)'
    BY <1>1, NoLocalsTyped DEF FoundFor
  <1> QED
    BY <1>1, <1>2, <1>3, PlainStep

(* A push writes the link of a block.                                      *)
LEMMA PushCounts ==
    ASSUME KeepInv, CountInv, NEW t \in Threads, SameThreads(t), PushNonEmpty(t) \/ PushEmpty(t)
    PROVE  CountInv'
  <1>1. PICK b, s : /\ b = loc[t].block /\ PushOn(s, t) /\ pc[t] \in {"push", "push_empty"}
    BY DEF PushNonEmpty, PushEmpty
  <1>2. TypeOK /\ b \in Mapped /\ block[b] \in Header
    BY <1>1, HandFacts DEF InHands, KeepInv
  <1>3. \A c \in Blocks : SameCount(c)
    <2>1. PICK A \in Header : A = block[b]
      BY <1>2
    <2>2. PICK C : C = [A EXCEPT !.next = top[s]]
      OBVIOUS
    <2>3. C.mapped = TRUE /\ C.number = A.number /\ C.public = A.public /\ C.late = A.late
      BY <2>2 DEF Header
    <2>4. block' = [block EXCEPT ![b] = C]
      BY <1>1, <1>2, <2>1, <2>2 DEF PushOn
    <2> QED
      BY <1>2, <2>1, <2>3, <2>4, HeaderCounts
  <1>4. loc'[t].stage = "walk"
    <2>1. PICK K : K = LocalsFor(loc[t].todo)
      OBVIOUS
    <2>2. K.stage = "walk" /\ [K EXCEPT !.fresh = FALSE].stage = "walk"
      BY <2>1 DEF LocalsFor, NoLocals
    <2>3. loc'[t] \in {K, [K EXCEPT !.fresh = FALSE]}
      BY <1>1, <1>2, <2>1 DEF PushOn, Touch, TypeOK
    <2> QED
      BY <2>2, <2>3
  <1>5. pc'[t] \in {"gone", "destruct"}
    BY <1>1, <1>2 DEF PushOn, GoTo, PlaceFor, TypeOK
  <1> QED
    BY <1>1, <1>3, <1>4, <1>5, CalmStep

LEMMA OwnBlockCounts ==
    ASSUME KeepInv, CountInv, NEW t \in Threads, SameThreads(t), OwnBlock(t)
    PROVE  CountInv'
  <1>1. PICK b : b = loc[t].block
    OBVIOUS
  <1>2. pc[t] = "own" /\ TypeOK /\ b \in Mapped /\ block[b] \in Header
    BY <1>1, HandFacts DEF InHands, KeepInv, OwnBlock
  <1>3. \A c \in Blocks : SameCount(c)
    <2>1. PICK A \in Header : A = block[b]
      BY <1>2
    <2>2. PICK C : C = [A EXCEPT !.owner = t]
      OBVIOUS
    <2>3. C.mapped = TRUE /\ C.number = A.number /\ C.public = A.public /\ C.late = A.late
      BY <2>2 DEF Header
    <2>4. block' = [block EXCEPT ![b] = C]
      BY <1>1, <1>2, <2>1, <2>2 DEF OwnBlock
    <2> QED
      BY <1>2, <2>1, <2>3, <2>4, HeaderCounts
  <1>4. loc'[t].stage = loc[t].stage /\ pc'[t] = "own_thread"
    BY <1>2 DEF OwnBlock, GoTo, TypeOK
  <1> QED
    BY <1>2, <1>3, <1>4, CalmStep

LEMMA AllocMayCount ==
    ASSUME KeepInv, CountInv, NEW t \in Threads, SameThreads(t), Alloc(t)
    PROVE  CountInv'
  <1>0. /\ TypeOK /\ GoodThread(t) /\ loc[t] \in Locals /\ pc[t] = "idle" /\ BlocksKept
        /\ GoodLists(ListsOf(t))
    BY ThreadFacts DEF Alloc, KeepInv, GoodThread, Ending
  <1>1. CASE active[t] = NoBlock
    <2>1. (\A c \in Blocks : SameCount(c)) /\ loc'[t].stage = loc[t].stage /\ pc'[t] = "pop"
      BY <1>0, <1>1 DEF Alloc, GoTo, TypeOK, SameCount
    <2> QED
      BY <1>0, <2>1, CalmStep
  <1>2. CASE active[t] # NoBlock
    <2>1. PICK a : a = active[t]
      OBVIOUS
    <2>2. a \in Kept(t)
      BY <1>0, <1>2, <2>1 DEF GoodLists, ListsOf, Kept
    <2>3. a \in Mapped /\ block[a] \in Header
      BY <1>0, <2>2, KeptIsMapped
    <2>4. CASE HasRoom(block[a])
      <3>1. Grant(t, a, block[a])
        BY <1>2, <2>1, <2>4 DEF Alloc
      <3> QED
        BY <1>0, <2>3, <3>1, GrantPlain
    <2>5. CASE ~HasRoom(block[a])
      <3>1. (\A c \in Blocks : SameCount(c)) /\ pc'[t] = "swap"
        BY <1>0, <1>2, <2>1, <2>5 DEF Alloc, GoTo, TypeOK, SameCount
      <3>2. loc'[t].stage = loc[t].stage
        <4>1. PICK L \in Locals : L = loc[t]
          BY <1>0
        <4>2. \E f : loc'[t] = [L EXCEPT !.block = a, !.full = f]
          BY <1>0, <1>2, <2>1, <2>5, <4>1 DEF Alloc, TypeOK
        <4> QED
          BY <4>1, <4>2 DEF Locals
      <3> QED
        BY <1>0, <3>1, <3>2, CalmStep
    <2> QED
      BY <2>4, <2>5
  <1> QED
    BY <1>1, <1>2

LEMMA WalkCounts ==
    ASSUME KeepInv, CountInv, NEW t \in Threads, SameThreads(t), Walk(t)
    PROVE  CountInv'
  <1>0. /\ TypeOK /\ GoodThread(t) /\ bucket[t] \in Seq(Blocks) /\ pc[t] = "walk" /\ BlocksKept
        /\ loc[t].block \in ToSet(bucket[t])
    BY ThreadFacts DEF Walk, KeepInv, GoodThread, AtWork
  <1>1. PICK p : p = PrevOf(bucket[t], loc[t].block)
    OBVIOUS
  <1>2. CASE p = NoBlock
    <2>1. (\A c \in Blocks : SameCount(c)) /\ loc'[t].stage = loc[t].stage /\ pc'[t] = "scan"
      BY <1>0, <1>1, <1>2 DEF Walk, GoTo, TypeOK, SameCount
    <2> QED
      BY <1>0, <2>1, CalmStep
  <1>3. CASE p # NoBlock
    <2>1. p \in Kept(t)
      BY <1>0, <1>1, <1>3, NeighboursIn DEF Kept
    <2>2. p \in Mapped /\ block[p] \in Header
      BY <1>0, <2>1, KeptIsMapped
    <2>3. TryBlock(t, p, block[p], "walk")
      BY <1>1, <1>3 DEF Walk
    <2>4. PICK s \in {"walk", "none", "pop"} : s = "walk"
      OBVIOUS
    <2> QED
      BY <1>0, <2>2, <2>3, <2>4, TryPlain
  <1> QED
    BY <1>2, <1>3

(* A full block that its counts show to be empty enough has something on   *)
(* its public list: nobody but its owner takes from it.                    *)
LEMMA FullButReady ==
    ASSUME KeepInv, CountInv, NEW t \in Threads, pc[t] = "scan", NEW b \in ToSet(bucket[t]),
           ~HasRoom(block[b]), IsReady(block[b])
    PROVE  block[b].public # {} \/ block[b].late > 0
  <1>0. TypeOK /\ BlocksKept /\ b \in Kept(t) /\ ObjectsPlaced
    BY DEF KeepInv, Kept
  <1>1. b \in Blocks /\ b \in Mapped /\ block[b] \in Header
    BY <1>0, KeptIsMapped
  <1>2. Right(block[b], Away(b))
    <2>1. At({"own_empty"}, b) = {}
      BY <1>0, HeldIsNotNew
    <2> QED
      BY <1>0, <1>1, <2>1 DEF ObjectsPlaced, Placed
  <1>3. PICK B \in Header : B = block[b]
    BY <1>1
  <1>4. B.allocated = PerBlock
    <2>1. B.private = {} /\ B.bump = PerBlock
      BY <1>2, <1>3, SizeBounds DEF HasRoom, Right
    <2>2. Away(b) = Slots
      BY <1>2, <1>3, <2>1, SizeBounds DEF Right
    <2> QED
      BY <1>2, <1>3, <2>2, SlotsFacts DEF Right
  <1>5. B.number \in Int /\ B.number > 0
    <2>1. B.number \in Int /\ B.allocated - B.number \in Int
      BY <1>4, SizeBounds DEF Header
    <2>2. B.allocated - B.number < PerBlock
      BY <1>3, <2>1, EmptyEnoughIsNotFull DEF IsReady
    <2> QED
      BY <1>4, <2>1, <2>2, SizeBounds
  <1>6. \A u \in Threads : Taken(u, b) = {}
    <2> SUFFICES ASSUME NEW u \in Threads, pc[u] \in {"count", "lose"}, loc[u].block = b PROVE FALSE
      BY DEF Taken
    <2>1. b \in Kept(u) /\ u # t
      BY ThreadFacts DEF GoodThread, AtWork, Kept
    <2> QED
      BY <1>0, <2>1, OthersElsewhere
  <1>7. Published(b) = block[b].public
    BY <1>6 DEF Published
  <1>8. Cardinality(At({"tally"}, b)) \in Nat
    <2>1. IsFiniteSet(At({"tally"}, b))
      BY BlockAllocatorAssumption, FS_Subset DEF At
    <2> QED
      BY <2>1, FS_CardinalityType
  <1>9. B.number = Cardinality(Published(b)) - Cardinality(At({"tally"}, b)) + B.late
    BY <1>1, <1>3 DEF CountInv, NumberRight
  <1> SUFFICES ASSUME block[b].public = {}, ~(B.late > 0) PROVE FALSE
    BY <1>3
  <1>10. Cardinality(Published(b)) = 0
    BY <1>7, FS_EmptySet
  <1>11. PICK n \in Nat : n = Cardinality(At({"tally"}, b))
    BY <1>8
  <1>12. B.number = 0 - n /\ B.late = 0
    <2>1. PICK l \in Nat : l = B.late /\ l = 0
      BY DEF Header
    <2> QED
      BY <1>9, <1>10, <1>11, <2>1
  <1> QED
    BY <1>5, <1>11, <1>12

LEMMA ScanFindsCounts ==
    ASSUME KeepInv, CountInv, NEW t \in Threads, SameThreads(t), ScanFinds(t)
    PROVE  CountInv'
  <1>0. /\ TypeOK /\ GoodThread(t) /\ bucket[t] \in Seq(Blocks) /\ pc[t] = "scan" /\ BlocksKept
        /\ GoodLists(ListsOf(t)) /\ loc[t].full \in ToSet(bucket[t]) \cup {NoBlock}
        /\ ListsOf(t) \in ListRecord /\ ListsOf(t).bucket = bucket[t]
    BY ThreadFacts DEF ScanFinds, KeepInv, GoodThread, Ending
  <1>1. PICK b : b = bucket[t][Min(ScanHits(t))]
    OBVIOUS
  <1>2. b \in ToSet(bucket[t]) /\ IsReady(block[b])
    <2>1. Min(ScanHits(t)) \in ScanHits(t)
      BY <1>0, ScanRangeIn DEF ScanFinds
    <2>2. Min(ScanHits(t)) \in 1 .. Len(bucket[t]) /\ IsReady(block[b])
      BY <1>0, <1>1, <2>1, ScanRangeIn DEF ScanHits
    <2> QED
      BY <1>0, <1>1, <2>2, SeqFacts
  <1>3. b \in Mapped /\ block[b] \in Header
    <2>1. b \in Kept(t)
      BY <1>2 DEF Kept
    <2> QED
      BY <1>0, <2>1, KeptIsMapped
  <1>4. PICK B \in Header : B = [block[b] EXCEPT !.inPrevious = TRUE]
    BY <1>3 DEF Header
  <1>5. /\ B.number = block[b].number /\ B.public = block[b].public /\ B.late = block[b].late
        /\ (HasRoom(B) <=> HasRoom(block[b]))
    BY <1>3, <1>4 DEF Header, HasRoom
  <1>6. ~HasRoom(B) => B.public # {} \/ B.late > 0
    BY <1>0, <1>2, <1>5, FullButReady
  <1>7. TryBlock(t, b, B, "none")
    BY <1>1, <1>4 DEF ScanFinds
  <1>8. PICK s \in {"walk", "none", "pop"} : s = "none"
    OBVIOUS
  <1> QED
    BY <1>0, <1>3, <1>5, <1>6, <1>7, <1>8, TryPlain

LEMMA OwnThreadCounts ==
    ASSUME KeepInv, CountInv, NEW t \in Threads, SameThreads(t), OwnThread(t)
    PROVE  CountInv'
  <1>1. PICK b : b = loc[t].block
    OBVIOUS
  <1>2. pc[t] = "own_thread" /\ TypeOK /\ b \in Mapped /\ block[b] \in Header
    BY <1>1, HandFacts DEF InHands, KeepInv, OwnThread
  <1>3. PICK r \in BOOLEAN : r = IsReady(block[b])
    BY DEF IsReady, EmptyEnough
  <1>4. PICK B \in Header : B = [block[b] EXCEPT !.thread = t, !.inPrevious = r]
    BY <1>2 DEF Header
  <1>5. B.number = block[b].number /\ B.public = block[b].public /\ B.late = block[b].late
    BY <1>2, <1>4 DEF Header
  <1>6. PICK s \in {"walk", "none", "pop"} : s = "pop"
    OBVIOUS
  <1>7. TryBlock(t, b, B, s)
    BY <1>1, <1>3, <1>4, <1>6 DEF OwnThread
  <1> QED
    BY <1>2, <1>5, <1>6, <1>7, TryPlain

LEMMA OwnEmptyCounts ==
    ASSUME KeepInv, CountInv, NEW t \in Threads, SameThreads(t), OwnEmpty(t)
    PROVE  CountInv'
  <1>1. PICK b : b = loc[t].block
    OBVIOUS
  <1>2. pc[t] = "own_empty" /\ TypeOK /\ b \in Mapped /\ block[b] \in Header
    BY <1>1, HandFacts DEF InHands, KeepInv, OwnEmpty
  <1>3. PICK C \in Header : C = [block[b] EXCEPT !.owner = t, !.thread = t, !.inPrevious = TRUE]
    BY <1>2 DEF Header
  <1>4. C.number = block[b].number /\ C.public = block[b].public /\ C.late = block[b].late
    BY <1>2, <1>3 DEF Header
  <1>5. PICK B \in Header : B = Restore(C)
    <2>1. {} \in SUBSET Slots /\ 0 \in Int
      OBVIOUS
    <2> QED
      BY <2>1 DEF Restore, Header
  <1>6. B.number = C.number /\ B.public = C.public /\ B.late = C.late
    BY <1>5 DEF Restore, Header
  <1>7. Grant(t, b, B)
    BY <1>1, <1>3, <1>5 DEF OwnEmpty
  <1> QED
    BY <1>2, <1>4, <1>6, <1>7, GrantPlain

LEMMA FreeOwnCounts ==
    ASSUME KeepInv, CountInv, NEW t \in Threads, SameThreads(t), FreeOwn(t)
    PROVE  CountInv'
  <1>0. TypeOK /\ pc[t] = "idle" /\ pc' = pc /\ loc' = loc
    BY DEF KeepInv, FreeOwn
  <1>1. PICK x \in InUse :
            LET B == RestoreIfEmpty([block[x[1]] EXCEPT !.allocated = @ - 1, !.private = @ \cup {x[2]}])
            IN  block' \in {[block EXCEPT ![x[1]] = [B EXCEPT !.inPrevious = TRUE]], [block EXCEPT ![x[1]] = B]}
    BY DEF FreeOwn
  <1>2. PICK b \in Blocks, o \in Slots : x = <<b, o>> /\ o \in Program(b)
    BY DEF InUse, Objects, Program
  <1>3. b \in Mapped /\ block[b] \in Header
    BY <1>2, UsedIsMapped
  <1>4. PICK A \in Header : A = block[b]
    BY <1>3
  <1>5. PICK C : C = [A EXCEPT !.allocated = @ - 1, !.private = @ \cup {o}]
    OBVIOUS
  <1>6. PICK B : B = RestoreIfEmpty(C)
    OBVIOUS
  <1>7. B \in {C, [C EXCEPT !.bump = 0, !.private = {}]}
    BY <1>6 DEF RestoreIfEmpty, Restore
  <1>8. PICK D \in {B, [B EXCEPT !.inPrevious = TRUE]} : block' = [block EXCEPT ![b] = D]
    BY <1>1, <1>2, <1>4, <1>5, <1>6
  <1>9. D.mapped = TRUE /\ D.number = A.number /\ D.public = A.public /\ D.late = A.late
    BY <1>5, <1>7 DEF Header
  <1>10. \A c \in Blocks : SameCount(c)
    BY <1>0, <1>3, <1>4, <1>8, <1>9, HeaderCounts
  <1> QED
    BY <1>0, <1>10, CalmStep

-----------------------------------------------------------------------------
\* The steps that count

(* The count of block b is right again, and nothing of another changes.    *)
LEMMA CountedStep ==
    ASSUME KeepInv, CountInv, NEW t \in Threads, SameThreads(t), FoundFor(t)',
           NEW b \in Blocks, NumberRight(b)',
           \A c \in Blocks \ {b} :
              /\ block'[c] = block[c] /\ Taken(t, c)' = Taken(t, c)
              /\ (t \in At({"tally"}, c)' <=> t \in At({"tally"}, c)),
           b \in Mapped \ Kept(t) =>
              block[b].public \subseteq block'[b].public /\ block'[b].late = block[b].late
    PROVE  CountInv'
  <1>1. ASSUME NEW c \in Blocks PROVE NumberRight(c)'
    <2>1. CASE c # b
      BY <2>1, NumberStays DEF CountInv, SameCount
    <2> QED
      BY <2>1
  <1>2. \A c \in Mapped \ Kept(t) :
           block[c].public \subseteq block'[c].public /\ block'[c].late = block[c].late
    BY DEF Mapped
  <1> QED
    BY <1>1, <1>2, FoundStays DEF CountInv

(* The public list goes to the thread that took it.                        *)
LEMMA SwapCounts ==
    ASSUME KeepInv, CountInv, NEW t \in Threads, SameThreads(t), NEW p, Swap(t, p),
           \/ pc[t] = "swap" /\ p = "count"
           \/ pc[t] = "destruct" /\ p = "lose"
    PROVE  CountInv'
  <1>1. PICK b : b = loc[t].block
    OBVIOUS
  <1>2. TypeOK /\ GoodThread(t) /\ loc[t] \in Locals /\ b \in Kept(t) /\ BlocksKept
    BY <1>1, ThreadFacts DEF KeepInv, GoodThread, AtWork, Kept
  <1>3. b \in Blocks /\ b \in Mapped /\ block[b] \in Header
    BY <1>2, KeptIsMapped
  <1>4. PICK A \in Header, L \in Locals : A = block[b] /\ L = loc[t]
    BY <1>2, <1>3
  <1>5. /\ pc'[t] = p /\ loc'[t] = [L EXCEPT !.taken = A.public]
        /\ block'[b] = [A EXCEPT !.public = {}] /\ \A c \in Blocks \ {b} : block'[c] = block[c]
    BY <1>1, <1>2, <1>3, <1>4 DEF Swap, GoTo, TypeOK
  <1>6. /\ loc'[t].block = b /\ loc'[t].taken = A.public /\ loc'[t].stage = loc[t].stage
        /\ block'[b].public = {} /\ block'[b].number = A.number /\ block'[b].mapped = TRUE
        /\ block'[b].late = A.late
    BY <1>1, <1>4, <1>5 DEF Header, Locals
  <1>7. \A c : Taken(t, c) = {} /\ Taken(t, c)' = IF c = b THEN A.public ELSE {}
    BY <1>5, <1>6 DEF Taken
  <1>8. \A u \in Threads \ {t} : Taken(u, b)' = Taken(u, b)
    BY OthersCounts
  <1>9. Published(b)' = Published(b)
    BY <1>4, <1>6, <1>7, <1>8 DEF Published
  <1>10. At({"tally"}, b)' = At({"tally"}, b)
    BY <1>5 DEF At, SameThreads
  <1>11. NumberRight(b)'
    <2>1. (b \in Mapped)' /\ NumberRight(b)
      BY <1>3, <1>6 DEF Mapped, CountInv
    <2> QED
      BY <1>3, <1>4, <1>6, <1>9, <1>10, <2>1 DEF NumberRight
  <1>12. FoundFor(t)'
    <2>1. FoundFor(t)
      BY DEF CountInv
    <2> QED
      BY <1>1, <1>4, <1>5, <1>6, <2>1 DEF FoundFor
  <1>13. \A c : t \in At({"tally"}, c)' <=> t \in At({"tally"}, c)
    BY <1>5 DEF At
  <1> QED
    BY <1>2, <1>3, <1>5, <1>7, <1>11, <1>12, <1>13, CountedStep

(* What is published or taken of a block are slots of it.                  *)
LEMMA PublishedFinite ==
    ASSUME TypeOK, NEW b \in Mapped
    PROVE  /\ Published(b) \subseteq Slots /\ IsFiniteSet(Published(b)) /\ Cardinality(Published(b)) \in Nat
           /\ IsFiniteSet(At({"tally"}, b)) /\ Cardinality(At({"tally"}, b)) \in Nat
           /\ block[b].number \in Int /\ block[b].late \in Nat
  <1>1. PICK A \in Header : A = block[b]
    BY MappedHeader DEF Mapped
  <1>2. A.public \subseteq Slots /\ A.number \in Int /\ A.late \in Nat
    BY DEF Header
  <1>3. \A u \in Threads : Taken(u, b) \subseteq Slots
    <2> SUFFICES ASSUME NEW u \in Threads PROVE loc[u].taken \subseteq Slots
      BY DEF Taken
    <2>1. PICK L \in Locals : L = loc[u]
      BY DEF TypeOK
    <2> QED
      BY <2>1 DEF Locals
  <1>4. Published(b) \subseteq Slots
    BY <1>1, <1>2, <1>3 DEF Published
  <1>5. IsFiniteSet(Published(b))
    BY <1>4, SlotsFacts, FS_Subset
  <1>6. IsFiniteSet(At({"tally"}, b))
    BY BlockAllocatorAssumption, FS_Subset DEF At
  <1> QED
    BY <1>1, <1>2, <1>4, <1>5, <1>6, FS_CardinalityType

(* What a thread has taken nobody else has, and it is not published again. *)
LEMMA TakenApart ==
    ASSUME KeepInv, NEW b \in Mapped, NEW t \in Threads
    PROVE  /\ Taken(t, b) \cap block[b].public = {}
           /\ \A u \in Threads \ {t} : Taken(t, b) \cap Taken(u, b) = {}
  <1>1. Apart(b)
    BY DEF KeepInv, ObjectsPlaced, Placed, Mapped
  <1>2. \A u \in Threads : Taken(u, b) \subseteq Carried(u, b)
    BY DEF Taken, Carried
  <1> QED
    BY <1>1, <1>2 DEF Apart

(* A thread counts what it has taken.                                      *)
LEMMA TakenCounted ==
    ASSUME KeepInv, CountInv, NEW t \in Threads, SameThreads(t),
           pc[t] \in {"count", "lose"}, NEW b \in Mapped, b = loc[t].block,
           block'[b].mapped, block'[b].public = block[b].public, block'[b].late = block[b].late,
           NEW k, k = Cardinality(loc[t].taken), block'[b].number = block[b].number - k,
           pc'[t] \notin {"count", "lose", "tally"}
    PROVE  NumberRight(b)'
  <1>0. TypeOK /\ b \in Blocks
    BY DEF KeepInv, Mapped
  <1>1. PICK T : T = loc[t].taken
    OBVIOUS
  <1>2. Taken(t, b) = T /\ Taken(t, b)' = {}
    BY <1>1 DEF Taken
  <1>3. \A u \in Threads \ {t} : Taken(u, b)' = Taken(u, b)
    BY OthersCounts
  <1>4. Published(b)' = Published(b) \ T
    BY <1>2, <1>3, TakenApart DEF Published
  <1>5. T \subseteq Published(b)
    BY <1>2 DEF Published
  <1>6. IsFiniteSet(Published(b)) /\ IsFiniteSet(T)
    BY <1>0, <1>5, PublishedFinite, FS_Subset
  <1>7. Cardinality(Published(b) \ T) = Cardinality(Published(b)) - Cardinality(T)
    <2>1. Published(b) \cap T = T
      BY <1>5
    <2>2. PICK P : P = Published(b)
      OBVIOUS
    <2>3. IsFiniteSet(P) /\ IsFiniteSet(T) /\ P \cap T = T
      BY <1>6, <2>1, <2>2
    <2>4. Cardinality(P \ T) = Cardinality(P) - Cardinality(P \cap T)
      BY <2>3, FS_Difference
    <2> QED
      BY <2>2, <2>3, <2>4
  <1>8. At({"tally"}, b)' = At({"tally"}, b)
    BY DEF At, SameThreads
  <1>9. block[b].number = Cardinality(Published(b)) - Cardinality(At({"tally"}, b)) + block[b].late
    BY <1>0 DEF CountInv, NumberRight
  <1>10. PICK p \in Nat, n \in Nat, l \in Nat :
             p = Cardinality(Published(b)) /\ n = Cardinality(At({"tally"}, b)) /\ l = block[b].late
    BY <1>0, PublishedFinite
  <1>11. block'[b].number = (p - k) - n + l
    <2>1. k \in Nat
      BY <1>1, <1>6, FS_CardinalityType
    <2>2. block[b].number = (p - n) + l
      BY <1>9, <1>10
    <2>3. block'[b].number = ((p - n) + l) - k
      BY <2>2
    <2> QED
      BY <2>1, <2>3
  <1>12. (b \in Mapped)'
    BY <1>0 DEF Mapped
  <1>13. Cardinality(Published(b) \ T) = p - k
    BY <1>1, <1>7, <1>10
  <1> QED
    BY <1>4, <1>8, <1>10, <1>11, <1>12, <1>13 DEF NumberRight

LEMMA RepatriateCounts ==
    ASSUME NEW A \in Header, NEW T \in SUBSET Slots, NEW R, R = Repatriate(A, T)
    PROVE  /\ R \in Header /\ R.public = A.public /\ R.number = A.number - Cardinality(T)
           /\ R.private = A.private \cup T /\ R.late = A.late
  <1>1. Cardinality(T) \in Int /\ Repatriated(T) = Cardinality(T)
    BY SlotsFacts, FS_Subset, FS_CardinalityType DEF Repatriated
  <1>2. PICK k \in Int : k = Cardinality(T)
    BY <1>1
  <1>3. PICK p, a, n : p = A.private \cup T /\ a = A.allocated - k /\ n = A.number - k
    OBVIOUS
  <1>4. p \in SUBSET Slots /\ a \in Int /\ n \in Int
    <2>1. A.private \in SUBSET Slots /\ A.allocated \in Int /\ A.number \in Int
      BY DEF Header
    <2>2. p \in SUBSET Slots
      BY <1>3, <2>1
    <2>3. a \in Int /\ n \in Int
      BY <1>3, <2>1
    <2> QED
      BY <2>2, <2>3
  <1>5. R = [A EXCEPT !.private = p, !.allocated = a, !.number = n]
    BY <1>1, <1>2, <1>3 DEF Repatriate
  <1>6. R \in Header
    BY <1>4, <1>5 DEF Header
  <1>7. R.public = A.public /\ R.private = p /\ R.number = n /\ R.late = A.late
    BY <1>5 DEF Header
  <1> QED
    BY <1>2, <1>3, <1>6, <1>7

LEMMA AllocCountsCounts ==
    ASSUME KeepInv, CountInv, NEW t \in Threads, SameThreads(t), AllocCounts(t)
    PROVE  CountInv'
  <1>1. PICK b, T : b = loc[t].block /\ T = loc[t].taken
    OBVIOUS
  <1>2. /\ TypeOK /\ GoodThread(t) /\ loc[t] \in Locals /\ b \in Kept(t) /\ BlocksKept /\ pc[t] = "count"
    BY <1>1, ThreadFacts DEF KeepInv, GoodThread, AtWork, Kept, AllocCounts
  <1>3. b \in Blocks /\ b \in Mapped /\ block[b] \in Header
    BY <1>2, KeptIsMapped
  <1>4. PICK A \in Header, L \in Locals : A = block[b] /\ L = loc[t]
    BY <1>2, <1>3
  <1>5. T \in SUBSET Slots /\ L.taken = T
    BY <1>1, <1>4 DEF Locals
  <1>6. PICK R \in Header : /\ R = Repatriate(A, T) /\ R.public = A.public
                            /\ R.number = A.number - Cardinality(T) /\ R.private = A.private \cup T
                            /\ R.late = A.late
    BY <1>5, RepatriateCounts
  <1>7. PICK B \in Header : /\ B = RestoreIfEmpty(R) /\ B.public = R.public /\ B.number = R.number
                            /\ B.late = R.late
                            /\ (T # {} => HasRoom(B))
    <2>1. PICK B : B = RestoreIfEmpty(R)
      OBVIOUS
    <2>2. CASE R.allocated = 0
      <3>1. B = [R EXCEPT !.bump = 0, !.private = {}]
        BY <2>1, <2>2 DEF RestoreIfEmpty, Restore
      <3>2. PICK z \in Int : z = 0
        BY SizeBounds
      <3>3. PICK e \in SUBSET Slots : e = {}
        OBVIOUS
      <3>4. B \in Header
        <4>1. B = [R EXCEPT !.bump = z, !.private = e]
          BY <3>1, <3>2, <3>3
        <4> QED
          BY <4>1 DEF Header
      <3>5. B.public = R.public /\ B.number = R.number /\ B.bump = 0 /\ B.late = R.late
        BY <3>1 DEF Header
      <3>6. HasRoom(B)
        BY <3>5, SizeBounds DEF HasRoom
      <3> QED
        BY <2>1, <3>4, <3>5, <3>6
    <2>3. CASE R.allocated # 0
      <3>1. B = R
        BY <2>1, <2>3 DEF RestoreIfEmpty
      <3>2. T # {} => HasRoom(B)
        BY <1>6, <3>1 DEF HasRoom
      <3> QED
        BY <2>1, <3>1, <3>2
    <2> QED
      BY <2>2, <2>3
  <1>8. /\ \A c \in Blocks \ {b} : block'[c] = block[c]
        /\ block'[b].mapped = TRUE /\ block'[b].public = B.public /\ block'[b].number = B.number
        /\ block'[b].late = B.late /\ pc'[t] \notin {"count", "lose", "tally"} /\ FoundFor(t)'
    <2>1. CASE HasRoom(B)
      <3>1. Grant(t, b, B)
        BY <1>1, <1>4, <1>6, <1>7, <2>1 DEF AllocCounts
      <3>2. /\ \A c \in Blocks \ {b} : block'[c] = block[c]
            /\ block'[b] = Used(B) /\ pc'[t] = "idle" /\ loc'[t] = NoLocals
        BY <1>2, <1>3, <3>1 DEF Grant, Back, GoTo, TypeOK
      <3>3. FoundFor(t)'
        BY <3>2, NoLocalsTyped DEF FoundFor
      <3> QED
        BY <3>2, <3>3, UsedCounts
    <2>2. CASE ~HasRoom(B)
      <3>1. /\ block' = [block EXCEPT ![b] = B] /\ GoTo(t, loc[t].stage)
            /\ loc' = [loc EXCEPT ![t].taken = {}]
        BY <1>1, <1>4, <1>6, <1>7, <2>2 DEF AllocCounts
      <3>2. /\ \A c \in Blocks \ {b} : block'[c] = block[c]
            /\ block'[b] = B /\ pc'[t] = L.stage /\ loc'[t] = [L EXCEPT !.taken = {}]
        BY <1>2, <1>3, <1>4, <3>1 DEF GoTo, TypeOK
      <3>3. L.stage \in {"walk", "none", "pop"} /\ loc'[t].stage = L.stage /\ B.mapped = TRUE
        BY <3>2 DEF Locals, Header
      <3>4. L.stage = "none" => A.late > 0
        <4>1. FoundFor(t) /\ T = {}
          BY <1>7, <2>2 DEF CountInv
        <4> QED
          BY <1>1, <1>2, <1>4, <4>1 DEF FoundFor
      <3>5. loc'[t].block = b /\ block'[b].late = A.late
        BY <1>1, <1>4, <1>6, <1>7, <3>2 DEF Locals
      <3>6. FoundFor(t)'
        BY <3>2, <3>3, <3>4, <3>5 DEF FoundFor
      <3> QED
        BY <3>2, <3>3, <3>6
    <2> QED
      BY <2>1, <2>2
  <1>9. NumberRight(b)'
    <2>1. PICK k : k = Cardinality(T)
      OBVIOUS
    <2>2. /\ block'[b].number = block[b].number - k /\ block'[b].public = block[b].public
          /\ block'[b].mapped /\ block'[b].late = block[b].late
      BY <1>4, <1>6, <1>7, <1>8, <2>1
    <2> QED
      BY <1>1, <1>2, <1>3, <1>8, <2>1, <2>2, TakenCounted
  <1>10. \A c \in Blocks \ {b} : Taken(t, c)' = Taken(t, c) /\ (t \in At({"tally"}, c)' <=> t \in At({"tally"}, c))
    BY <1>1, <1>2, <1>8 DEF Taken, At
  <1> QED
    BY <1>2, <1>3, <1>8, <1>9, <1>10, CountedStep

LEMMA LoseCounts ==
    ASSUME KeepInv, CountInv, NEW t \in Threads, SameThreads(t), Lose(t)
    PROVE  CountInv'
  <1>1. PICK b, T : b = loc[t].block /\ T = loc[t].taken
    OBVIOUS
  <1>2. /\ TypeOK /\ GoodThread(t) /\ loc[t] \in Locals /\ b \in Kept(t) /\ BlocksKept /\ pc[t] = "lose"
    BY <1>1, ThreadFacts DEF KeepInv, GoodThread, AtWork, Kept, Lose
  <1>3. b \in Blocks /\ b \in Mapped /\ block[b] \in Header
    BY <1>2, KeptIsMapped
  <1>4. PICK A \in Header, L \in Locals : A = block[b] /\ L = loc[t]
    BY <1>2, <1>3
  <1>5. T \in SUBSET Slots
    BY <1>1, <1>4 DEF Locals
  <1>6. PICK R \in Header : /\ R = Repatriate(A, T) /\ R.public = A.public
                            /\ R.number = A.number - Cardinality(T) /\ R.late = A.late
    BY <1>5, RepatriateCounts
  <1>7. /\ \A c \in Blocks \ {b} : block'[c] = block[c]
        /\ block'[b] = [R EXCEPT !.owner = Nobody, !.inPrevious = FALSE]
        /\ pc'[t] \in {"keep", "push"} /\ loc'[t] = [L EXCEPT !.taken = {}]
    BY <1>1, <1>2, <1>3, <1>4, <1>6 DEF Lose, GoTo, TypeOK
  <1>8. /\ block'[b].mapped = TRUE /\ block'[b].public = R.public /\ block'[b].number = R.number
        /\ loc'[t].stage = L.stage /\ block'[b].late = R.late
    <2>1. PICK C : C = block'[b]
      OBVIOUS
    <2>2. C = [R EXCEPT !.owner = Nobody, !.inPrevious = FALSE]
      BY <1>7, <2>1
    <2>3. C.mapped = TRUE /\ C.public = R.public /\ C.number = R.number /\ C.late = R.late
      BY <2>2 DEF Header
    <2>4. loc'[t].stage = L.stage
      BY <1>7 DEF Locals
    <2> QED
      BY <2>1, <2>3, <2>4
  <1>9. FoundFor(t)'
    <2>1. FoundFor(t)
      BY DEF CountInv
    <2> QED
      BY <1>2, <1>4, <1>7, <1>8, <2>1 DEF FoundFor
  <1>10. NumberRight(b)'
    <2>1. PICK k : k = Cardinality(T)
      OBVIOUS
    <2>2. /\ block'[b].number = block[b].number - k /\ block'[b].public = block[b].public
          /\ block'[b].mapped /\ block'[b].late = block[b].late
      BY <1>4, <1>6, <1>8, <2>1
    <2>3. pc'[t] \notin {"count", "lose", "tally"}
      BY <1>7
    <2> QED
      BY <1>1, <1>2, <1>3, <2>1, <2>2, <2>3, TakenCounted
  <1>11. \A c \in Blocks \ {b} : Taken(t, c)' = Taken(t, c) /\ (t \in At({"tally"}, c)' <=> t \in At({"tally"}, c))
    BY <1>1, <1>2, <1>7 DEF Taken, At
  <1> QED
    BY <1>2, <1>3, <1>7, <1>9, <1>10, <1>11, CountedStep
(* The object is on the public list before it is counted.                  *)
LEMMA PublishCounts ==
    ASSUME KeepInv, CountInv, NEW t \in Threads, SameThreads(t), Publish(t)
    PROVE  CountInv'
  <1>1. PICK b, o : b = loc[t].block /\ o = loc[t].object
    OBVIOUS
  <1>2. pc[t] = "publish" /\ loc' = loc
    BY DEF Publish
  <1>3. TypeOK /\ loc[t] \in Locals /\ o \in Slots /\ b \in Blocks
    BY <1>1, <1>2, ThreadFacts DEF GoodThread, Locals
  <1>4. Carried(t, b) = {o}
    BY <1>1, <1>2 DEF Carried
  <1>5. b \in Mapped /\ block[b] \in Header /\ Apart(b)
    <2>1. o \in CarriedAll(b)
      BY <1>4 DEF CarriedAll
    <2> QED
      BY <1>3, <2>1, UsedIsMapped
  <1>6. PICK A \in Header : A = block[b]
    BY <1>5
  <1>p. PICK P : P = A.public \cup {o}
    OBVIOUS
  <1>7. PICK C : C = [A EXCEPT !.public = P]
    OBVIOUS
  <1>8. C.public = P /\ C.number = A.number /\ C.mapped = TRUE /\ C.late = A.late
    BY <1>7 DEF Header
  <1>9. /\ block'[b] = C /\ (\A c \in Blocks \ {b} : block'[c] = block[c])
        /\ pc'[t] = "tally"
    BY <1>1, <1>3, <1>6, <1>p, <1>7 DEF Publish, GoTo, TypeOK
  <1>10. \A c : Taken(t, c) = {} /\ Taken(t, c)' = {}
    BY <1>2, <1>9 DEF Taken
  <1>11. \A u \in Threads \ {t} : Taken(u, b)' = Taken(u, b)
    BY OthersCounts
  <1>12. Published(b)' = Published(b) \cup {o}
    BY <1>6, <1>p, <1>8, <1>9, <1>10, <1>11 DEF Published
  <1>13. o \notin Published(b)
    <2>1. o \notin block[b].public
      BY <1>4, <1>5 DEF Apart
    <2>2. ASSUME NEW u \in Threads PROVE o \notin Taken(u, b)
      <3>1. CASE u = t
        BY <1>10, <3>1
      <3>2. CASE u # t
        <4>1. Taken(u, b) \subseteq Carried(u, b)
          BY DEF Taken, Carried
        <4> QED
          BY <1>4, <1>5, <3>2, <4>1 DEF Apart
      <3> QED
        BY <3>1, <3>2
    <2> QED
      BY <2>1, <2>2 DEF Published
  <1>14. At({"tally"}, b)' = At({"tally"}, b) \cup {t} /\ t \notin At({"tally"}, b)
    BY <1>1, <1>2, <1>9 DEF At, SameThreads
  <1>15. PICK P0, N0 : P0 = Published(b) /\ N0 = At({"tally"}, b)
    OBVIOUS
  <1>16. /\ IsFiniteSet(P0) /\ IsFiniteSet(N0) /\ o \notin P0 /\ t \notin N0
         /\ Cardinality(P0) \in Nat /\ Cardinality(N0) \in Nat
    BY <1>3, <1>5, <1>13, <1>14, <1>15, PublishedFinite
  <1>17. PICK p \in Nat, n \in Nat : p = Cardinality(P0) /\ n = Cardinality(N0)
    BY <1>16
  <1>18. Cardinality(P0 \cup {o}) = p + 1 /\ Cardinality(N0 \cup {t}) = n + 1
    BY <1>16, <1>17, FS_AddElement
  <1>l. PICK l \in Nat : l = A.late
    BY DEF Header
  <1>19. A.number = (p - n) + l
    BY <1>3, <1>5, <1>6, <1>15, <1>17, <1>l DEF CountInv, NumberRight
  <1>20. NumberRight(b)'
    <2>1. (b \in Mapped)'
      BY <1>3, <1>8, <1>9 DEF Mapped
    <2>2. block'[b].number = ((p + 1) - (n + 1)) + l /\ block'[b].late = l
      BY <1>8, <1>9, <1>19, <1>l
    <2> QED
      BY <1>12, <1>14, <1>15, <1>18, <2>1, <2>2 DEF NumberRight
  <1>21. FoundFor(t)'
    <2>1. FoundFor(t)
      BY DEF CountInv
    <2> QED
      BY <1>2, <1>9, <2>1 DEF FoundFor
  <1>22. \A c \in Blocks \ {b} : t \in At({"tally"}, c)' <=> t \in At({"tally"}, c)
    BY <1>1, <1>2, <1>9 DEF At
  <1>23. block[b].public \subseteq block'[b].public /\ block'[b].late = block[b].late
    BY <1>6, <1>p, <1>8, <1>9
  <1> QED
    BY <1>3, <1>9, <1>10, <1>20, <1>21, <1>22, <1>23, CountedStep

LEMMA TallyCounts ==
    ASSUME KeepInv, CountInv, NEW t \in Threads, SameThreads(t), Tally(t)
    PROVE  CountInv'
  <1>1. PICK b : b = loc[t].block
    OBVIOUS
  <1>2. pc[t] = "tally" /\ block[b].mapped
    BY <1>1 DEF Tally
  <1>3. TypeOK /\ loc[t] \in Locals /\ b \in Blocks
    BY <1>1, <1>2, ThreadFacts DEF GoodThread
  <1>4. b \in Mapped /\ block[b] \in Header
    BY <1>2, <1>3, MappedHeader
  <1>5. PICK A \in Header : A = block[b]
    BY <1>4
  <1>6. PICK m : m = A.number + 1
    OBVIOUS
  <1>7. PICK C : C = [A EXCEPT !.number = m]
    OBVIOUS
  <1>8. C.public = A.public /\ C.number = m /\ C.mapped = TRUE /\ C.late = A.late
    BY <1>7 DEF Header
  <1>9. /\ block'[b] = C /\ (\A c \in Blocks \ {b} : block'[c] = block[c])
        /\ pc'[t] = "idle" /\ loc'[t] = NoLocals
    BY <1>1, <1>3, <1>5, <1>6, <1>7 DEF Tally, Back, GoTo, TypeOK
  <1>10. \A c : Taken(t, c) = {} /\ Taken(t, c)' = {}
    BY <1>2, <1>9 DEF Taken
  <1>11. \A u \in Threads \ {t} : Taken(u, b)' = Taken(u, b)
    BY OthersCounts
  <1>12. Published(b)' = Published(b)
    BY <1>5, <1>8, <1>9, <1>10, <1>11 DEF Published
  <1>13. At({"tally"}, b)' = At({"tally"}, b) \ {t} /\ t \in At({"tally"}, b)
    BY <1>1, <1>2, <1>9 DEF At, SameThreads
  <1>14. PICK P0, N0 : P0 = Published(b) /\ N0 = At({"tally"}, b)
    OBVIOUS
  <1>15. /\ IsFiniteSet(N0) /\ t \in N0
         /\ Cardinality(P0) \in Nat /\ Cardinality(N0) \in Nat
    BY <1>3, <1>4, <1>13, <1>14, PublishedFinite
  <1>16. PICK p \in Nat, n \in Nat : p = Cardinality(P0) /\ n = Cardinality(N0)
    BY <1>15
  <1>17. Cardinality(N0 \ {t}) = n - 1
    BY <1>15, <1>16, FS_RemoveElement
  <1>l. PICK l \in Nat : l = A.late
    BY DEF Header
  <1>18. A.number = (p - n) + l
    BY <1>3, <1>4, <1>5, <1>14, <1>16, <1>l DEF CountInv, NumberRight
  <1>19. NumberRight(b)'
    <2>1. (b \in Mapped)'
      BY <1>3, <1>8, <1>9 DEF Mapped
    <2>2. block'[b].number = (p - (n - 1)) + l /\ block'[b].late = l
      BY <1>6, <1>8, <1>9, <1>18, <1>l
    <2> QED
      BY <1>12, <1>13, <1>14, <1>16, <1>17, <2>1, <2>2 DEF NumberRight
  <1>20. FoundFor(t)'
    BY <1>9, NoLocalsTyped DEF FoundFor, NoLocals
  <1>21. \A c \in Blocks \ {b} : t \in At({"tally"}, c)' <=> t \in At({"tally"}, c)
    BY <1>1, <1>2, <1>9 DEF At
  <1>22. block[b].public \subseteq block'[b].public /\ block'[b].late = block[b].late
    BY <1>5, <1>8, <1>9
  <1> QED
    BY <1>3, <1>9, <1>10, <1>19, <1>20, <1>21, <1>22, CountedStep

(* Nothing of a new block is on its way to the public list, and what is    *)
(* still to be counted is of an earlier block.                             *)
LEMMA MapBlockCounts ==
    ASSUME KeepInv, CountInv, NEW t \in Threads, SameThreads(t), MapBlock(t)
    PROVE  CountInv'
  <1>n. PICK n \in Nat, b \in Blocks :
            /\ ~block[b].mapped /\ block' = [block EXCEPT ![b] = NewBlock(n)]
            /\ loc' = [loc EXCEPT ![t].block = b] /\ n = Cardinality(At({"tally"}, b))
    <2>1. PICK b \in Blocks : /\ ~block[b].mapped
                              /\ block' = [block EXCEPT ![b] = NewBlock(Cardinality(At({"tally"}, b)))]
                              /\ loc' = [loc EXCEPT ![t].block = b]
      BY DEF MapBlock
    <2>2. Cardinality(At({"tally"}, b)) \in Nat
      BY TallyFinite
    <2> QED
      BY <2>1, <2>2
  <1>1. /\ ~block[b].mapped /\ block' = [block EXCEPT ![b] = NewBlock(n)]
        /\ loc' = [loc EXCEPT ![t].block = b] /\ n = Cardinality(At({"tally"}, b))
    BY <1>n
  <1>2. TypeOK /\ loc[t] \in Locals /\ ObjectsPlaced /\ pc[t] = "map" /\ BlocksKept
    BY ThreadFacts DEF KeepInv, MapBlock
  <1>3. PICK C : C = NewBlock(n)
    OBVIOUS
  <1>4. C.mapped = TRUE /\ C.public = {} /\ C.number = 0 /\ C.late = n
    BY <1>3 DEF NewBlock
  <1>5. block'[b] = C /\ \A c \in Blocks \ {b} : block'[c] = block[c]
    BY <1>1, <1>2, <1>3 DEF TypeOK
  <1>6. pc'[t] = "own_empty" /\ loc'[t].stage = loc[t].stage
    <2>1. PICK L \in Locals : L = loc[t]
      BY <1>2
    <2>2. loc'[t] = [L EXCEPT !.block = b]
      BY <1>1, <1>2, <2>1 DEF TypeOK
    <2>3. loc'[t].stage = L.stage
      BY <2>2 DEF Locals
    <2> QED
      BY <1>2, <2>1, <2>3 DEF MapBlock, GoTo, TypeOK
  <1>7. b \notin Mapped
    BY <1>1 DEF Mapped
  <1>9. \A c : Taken(t, c) = {} /\ Taken(t, c)' = {}
    BY <1>2, <1>6 DEF Taken
  <1>10. \A u \in Threads : Taken(u, b)' = {}
    <2>1. CarriedAll(b) = {}
      BY <1>2, <1>7 DEF ObjectsPlaced, Placed
    <2>2. \A u \in Threads : Taken(u, b) \subseteq CarriedAll(b)
      BY DEF Taken, Carried, CarriedAll
    <2>3. \A u \in Threads \ {t} : Taken(u, b)' = Taken(u, b)
      BY OthersCounts
    <2> QED
      BY <1>9, <2>1, <2>2, <2>3
  <1>11. Published(b)' = {}
    BY <1>4, <1>5, <1>10 DEF Published
  <1>12. At({"tally"}, b)' = At({"tally"}, b)
    BY <1>2, <1>6 DEF At, SameThreads
  <1>13. NumberRight(b)'
    <2>1. block'[b].number = 0 /\ block'[b].late = n
      BY <1>4, <1>5
    <2>2. Cardinality(Published(b)') = 0
      BY <1>11, FS_EmptySet
    <2>3. 0 = (0 - n) + n
      OBVIOUS
    <2> QED
      BY <1>1, <1>12, <2>1, <2>2, <2>3 DEF NumberRight
  <1>14. FoundFor(t)'
    <2>1. FoundFor(t)
      BY DEF CountInv
    <2> QED
      BY <1>2, <1>6, <2>1 DEF FoundFor
  <1>15. \A c \in Blocks \ {b} : t \in At({"tally"}, c)' <=> t \in At({"tally"}, c)
    BY <1>2, <1>6 DEF At
  <1> QED
    BY <1>1, <1>5, <1>7, <1>9, <1>13, <1>14, <1>15, CountedStep

LEMMA UnmapCounts ==
    ASSUME KeepInv, CountInv, NEW t \in Threads, SameThreads(t), Unmap(t)
    PROVE  CountInv'
  <1>1. PICK b : b = loc[t].block
    OBVIOUS
  <1>2. TypeOK /\ pc[t] = "keep" /\ BlocksKept
    BY ThreadFacts DEF KeepInv, Unmap
  <1>3. b \in Blocks /\ b \in Kept(t)
    BY <1>1, <1>2, HandFacts DEF InHands
  <1>4. PICK C : C = Unmapped
    OBVIOUS
  <1>5. block'[b] = C /\ C.mapped = FALSE /\ \A c \in Blocks \ {b} : block'[c] = block[c]
    BY <1>1, <1>2, <1>3, <1>4 DEF Unmap, Unmapped, TypeOK
  <1>6. pc'[t] \in {"gone", "destruct"} /\ loc'[t] = LocalsFor(loc[t].todo)
    BY <1>2 DEF Unmap, GoTo, PlaceFor, TypeOK
  <1>7. loc'[t].stage = "walk"
    <2>1. CASE loc[t].todo = <<>>
      BY <1>6, <2>1 DEF LocalsFor, NoLocals
    <2>2. CASE loc[t].todo # <<>>
      BY <1>6, <2>2 DEF LocalsFor, NoLocals
    <2> QED
      BY <2>1, <2>2
  <1>8. NumberRight(b)'
    BY <1>5 DEF NumberRight, Mapped
  <1>9. \A c : Taken(t, c) = {} /\ Taken(t, c)' = {} /\ t \notin At({"tally"}, c)' /\ t \notin At({"tally"}, c)
    BY <1>2, <1>6 DEF Taken, At
  <1>10. FoundFor(t)'
    BY <1>6, <1>7 DEF FoundFor
  <1> QED
    BY <1>3, <1>5, <1>8, <1>9, <1>10, CountedStep

-----------------------------------------------------------------------------
\* What the counts say

LEMMA StepCounts ==
    ASSUME KeepInv, CountInv, Next
    PROVE  CountInv'
  <1>1. PICK t \in Threads : Step(t)
    BY DEF Next
  <1>2. SameThreads(t)
    BY <1>1, OthersStand DEF KeepInv
  <1>3. CASE Alloc(t) \/ FreeOwn(t)
    BY <1>2, <1>3, AllocMayCount, FreeOwnCounts
  <1>4. CASE AllocSwaps(t) \/ DestructSwaps(t)
    BY <1>2, <1>4, SwapCounts DEF AllocSwaps, DestructSwaps
  <1>5. CASE AllocCounts(t) \/ Walk(t) \/ ScanFinds(t)
    BY <1>2, <1>5, AllocCountsCounts, WalkCounts, ScanFindsCounts
  <1>f. CASE FoundGivesNothing(t)
    BY <1>2, <1>f, FoundGivesNothingCounts
  <1>6. CASE \/ FreeForeign(t) \/ Exit(t) \/ ScanMisses(t) \/ PopTop(t) \/ PopNext(t) \/ PopFails(t)
             \/ PopCas(t) \/ Uncount(t) \/ MapFails(t) \/ Keep(t) \/ CountEmpty(t)
    BY <1>2, <1>6, CalmCounts
  <1>7. CASE OwnBlock(t) \/ OwnThread(t) \/ OwnEmpty(t)
    BY <1>2, <1>7, OwnBlockCounts, OwnThreadCounts, OwnEmptyCounts
  <1>8. CASE MapBlock(t) \/ Unmap(t)
    BY <1>2, <1>8, MapBlockCounts, UnmapCounts
  <1>9. CASE Publish(t) \/ Tally(t) \/ Lose(t)
    BY <1>2, <1>9, PublishCounts, TallyCounts, LoseCounts
  <1>10. CASE PushNonEmpty(t) \/ PushEmpty(t)
    BY <1>2, <1>10, PushCounts
  <1> QED
    BY <1>1, <1>3, <1>4, <1>5, <1>6, <1>7, <1>8, <1>9, <1>10, <1>f DEF Step, Continue

LEMMA StutterCounts ==
    ASSUME CountInv, UNCHANGED vars
    PROVE  CountInv'
  <1>1. UNCHANGED <<block, pc, loc>>
    BY DEF vars
  <1>2. \A b \in Blocks : NumberRight(b)'
    <2> SUFFICES ASSUME NEW b \in Blocks PROVE NumberRight(b)'
      OBVIOUS
    <2>1. Published(b)' = Published(b)
      BY <1>1 DEF Published, Taken
    <2>2. At({"tally"}, b)' = At({"tally"}, b) /\ ((b \in Mapped)' <=> b \in Mapped)
      BY <1>1 DEF At, Mapped
    <2>3. NumberRight(b)
      BY DEF CountInv
    <2> QED
      BY <1>1, <2>1, <2>2, <2>3 DEF NumberRight
  <1>3. \A t \in Threads : FoundFor(t)'
    BY <1>1 DEF CountInv, FoundFor
  <1> QED
    BY <1>2, <1>3 DEF CountInv

LEMMA InitCounts == ASSUME Init PROVE CountInv
  <1>1. ASSUME NEW t \in Threads PROVE pc[t] = "idle" /\ loc[t].stage = "walk"
    BY DEF Init, NoLocals
  <1>2. ASSUME NEW b \in Blocks PROVE b \notin Mapped /\ At({"tally"}, b) = {}
    BY <1>1 DEF Init, Unmapped, Mapped, At
  <1> QED
    BY <1>1, <1>2 DEF CountInv, NumberRight, FoundFor

(* The count of every public list is behind the list by the threads that   *)
(* have still to add to it, and before it by the foreign frees of earlier  *)
(* blocks at the address; a full block that a scan found has objects on    *)
(* its public list unless there are such frees.                            *)
THEOREM CountsInvariant == Spec => [](KeepInv /\ CountInv)
  <1>1. Init => KeepInv /\ CountInv
    BY InitKeeps, InitCounts
  <1>2. KeepInv /\ CountInv /\ [Next]_vars => (KeepInv /\ CountInv)'
    BY StepKeeps, StutterKeeps, StepCounts, StutterCounts
  <1> QED
    BY <1>1, <1>2, PTL DEF Spec

(* Every object of a block is in one place only, with the program, carried *)
(* by a thread, on the public list, on the private list or above the bump  *)
(* pointer, and both counts of the block are what these places hold        *)
(* (Alloc, Free, Repatriate, _BumpPointerRestore), with what foreign frees *)
(* of an earlier block at the address add to the count: for any threads,   *)
(* blocks and sizes.                                                       *)
THEOREM ObjectsStayAccounted == Spec => []ObjectsAccounted
  <1>1. KeepInv /\ CountInv => ObjectsAccounted
    <2> SUFFICES ASSUME KeepInv, CountInv, NEW b \in Mapped, At({"own_empty"}, b) = {}
                 PROVE  /\ Slots = Away(b) \cup block[b].private \cup (block[b].bump .. PerBlock - 1)
                        /\ Away(b) \cap block[b].private = {}
                        /\ Away(b) \cap (block[b].bump .. PerBlock - 1) = {}
                        /\ block[b].private \cap (block[b].bump .. PerBlock - 1) = {}
                        /\ block[b].public \cap Program(b) = {}
                        /\ \A t \in Threads :
                              /\ Carried(t, b) \cap (Program(b) \cup block[b].public) = {}
                              /\ \A u \in Threads \ {t} : Carried(t, b) \cap Carried(u, b) = {}
                        /\ block[b].allocated = Cardinality(Away(b))
                        /\ block[b].number = Cardinality(block[b].public
                                \cup UNION {Carried(t, b) : t \in At({"count", "lose"}, b)})
                              - Cardinality(At({"tally"}, b)) + block[b].late
      BY Zenon DEF ObjectsAccounted, Away, CarriedAll
    <2>1. b \in Blocks /\ Apart(b) /\ Right(block[b], Away(b))
      BY DEF KeepInv, ObjectsPlaced, Placed, Mapped
    <2>2. UNION {Carried(t, b) : t \in At({"count", "lose"}, b)} = UNION {Taken(t, b) : t \in Threads}
      <3>1. \A t \in At({"count", "lose"}, b) : t \in Threads /\ Carried(t, b) = Taken(t, b)
        BY DEF Carried, Taken, At
      <3>2. \A t \in Threads \ At({"count", "lose"}, b) : Taken(t, b) = {}
        BY DEF Taken, At
      <3> QED
        BY <3>1, <3>2
    <2>3. NumberRight(b)
      BY <2>1 DEF CountInv
    <2> QED
      BY <2>1, <2>2, <2>3 DEF Right, Apart, NumberRight, Published
  <1> QED
    BY <1>1, CountsInvariant, PTL

(* The scan takes a full block for one that is empty enough only when a    *)
(* foreign free of an earlier block at its address is in its count: what   *)
(* assert(pObjectToAlloc != NULL) of Alloc needs, for any threads, blocks  *)
(* and sizes.  The lag of the counts alone never makes it fail.            *)
THEOREM FoundBlocksHaveRoom == Spec => []FoundBlockHasRoom
  <1>1. CountInv => FoundBlockHasRoom
    BY DEF CountInv, FoundFor, FoundBlockHasRoom
  <1> QED
    BY <1>1, CountsInvariant, PTL

-----------------------------------------------------------------------------
\* All requests

\* The powers of two that the sizes are computed with.
Power(k) ==
    IF k = 0 THEN 1 ELSE IF k = 1 THEN 2 ELSE IF k = 2 THEN 4 ELSE IF k = 3 THEN 8
    ELSE IF k = 4 THEN 16 ELSE IF k = 5 THEN 32 ELSE IF k = 6 THEN 64
    ELSE IF k = 7 THEN 128 ELSE IF k = 8 THEN 256 ELSE IF k = 9 THEN 512
    ELSE IF k = 10 THEN 1024 ELSE IF k = 11 THEN 2048
    ELSE IF k = 12 THEN 4096 ELSE 8192

LEMMA Powers ==
    ASSUME NEW k \in 0 .. 13
    PROVE  2 ^ k = Power(k)
  <1>0. CASE k = 0
    BY <1>0, 2 ^ 0 = 1 DEF Power
  <1>1. CASE k = 1
    BY <1>1, 2 ^ 1 = 2 DEF Power
  <1>2. CASE k = 2
    BY <1>2, 2 ^ 2 = 4 DEF Power
  <1>3. CASE k = 3
    BY <1>3, 2 ^ 3 = 8 DEF Power
  <1>4. CASE k = 4
    BY <1>4, 2 ^ 4 = 16 DEF Power
  <1>5. CASE k = 5
    BY <1>5, 2 ^ 5 = 32 DEF Power
  <1>6. CASE k = 6
    BY <1>6, 2 ^ 6 = 64 DEF Power
  <1>7. CASE k = 7
    BY <1>7, 2 ^ 7 = 128 DEF Power
  <1>8. CASE k = 8
    BY <1>8, 2 ^ 8 = 256 DEF Power
  <1>9. CASE k = 9
    BY <1>9, 2 ^ 9 = 512 DEF Power
  <1>10. CASE k = 10
    BY <1>10, 2 ^ 10 = 1024 DEF Power
  <1>11. CASE k = 11
    BY <1>11, 2 ^ 11 = 2048 DEF Power
  <1>12. CASE k = 12
    BY <1>12, 2 ^ 12 = 4096 DEF Power
  <1>13. CASE k = 13
    BY <1>13, 2 ^ 13 = 8192 DEF Power
  <1> QED
    BY <1>0, <1>1, <1>2, <1>3, <1>4, <1>5, <1>6, <1>7, <1>8, <1>9, <1>10, <1>11, <1>12, <1>13

(* PTS_Size_BitScanReverse finds the power of two at or below a number.    *)
LEMMA HighestBitIs ==
    ASSUME NEW k \in 0 .. 12, NEW m \in Power(k) .. Power(k + 1) - 1
    PROVE  HighestBit(m) = k
  <1>1. \A j \in 0 .. 12 : 2 ^ j = Power(j) /\ 2 ^ (j + 1) = Power(j + 1)
    <2> TAKE j \in 0 .. 12
    <2>1. j \in 0 .. 13 /\ j + 1 \in 0 .. 13
      OBVIOUS
    <2> QED
      BY <2>1, Powers
  <1>2. \A j \in 0 .. 12 : m \in Power(j) .. Power(j + 1) - 1 <=> j = k
    BY DEF Power
  <1>3. \A j \in 0 .. 12 : m \in 2 ^ j .. 2 ^ (j + 1) - 1 <=> j = k
    BY <1>1, <1>2, Zenon
  <1>4. (CHOOSE j \in 0 .. 12 : m \in 2 ^ j .. 2 ^ (j + 1) - 1) = k
    BY <1>3
  <1> QED
    BY <1>4 DEF HighestBit

\* The sizes of the buckets, in order.
Table ==
    <<8, 16, 32, 48, 64, 80, 96, 112, 128, 160, 192, 224, 256, 320, 384, 448, 512,
      640, 768, 896, 1024, 1280, 1536, 1792, 2048, 2560, 3072, 3584, 4096, 5120, 6144, 7168>>

LEMMA TableOrdered ==
    ASSUME NEW i \in 1 .. 32, NEW j \in 1 .. 32, i < j
    PROVE  Table[i] < Table[j]
  BY DEF Table

(* Above 64 bytes there are four sizes for each power of two.              *)
LEMMA TableAbove ==
    ASSUME NEW k \in 4 .. 10, NEW m \in 5 .. 8, k = 10 => m # 8
    PROVE  Table[4 * k + m - 15] = m * Power(k)
  <1>4. CASE k = 4
    BY <1>4 DEF Table, Power
  <1>5. CASE k = 5
    BY <1>5 DEF Table, Power
  <1>6. CASE k = 6
    BY <1>6 DEF Table, Power
  <1>7. CASE k = 7
    BY <1>7 DEF Table, Power
  <1>8. CASE k = 8
    BY <1>8 DEF Table, Power
  <1>9. CASE k = 9
    BY <1>9 DEF Table, Power
  <1>10. CASE k = 10
    BY <1>10 DEF Table, Power
  <1> QED
    BY <1>4, <1>5, <1>6, <1>7, <1>8, <1>9, <1>10

LEMMA TableIs == Sizes = {Table[i] : i \in 1 .. 32}
  <1>1. \A k \in 4 .. 10 : 2 ^ k = Power(k)
    <2>1. \A k \in 4 .. 10 : k \in 0 .. 13
      OBVIOUS
    <2> QED
      BY <2>1, Powers
  <1>2. ASSUME NEW s \in Sizes
        PROVE  \E i \in 1 .. 32 : s = Table[i]
    <2>1. CASE s \in {8, 16, 32, 48, 64}
      <3>1. Table[1] = 8 /\ Table[2] = 16 /\ Table[3] = 32 /\ Table[4] = 48 /\ Table[5] = 64
        BY DEF Table
      <3> QED
        BY <2>1, <3>1
    <2>2. CASE \E m \in {5, 6, 7, 8}, k \in 4 .. 9 : s = m * 2 ^ k
      <3>1. PICK m \in {5, 6, 7, 8}, k \in 4 .. 9 : s = m * 2 ^ k
        BY <2>2
      <3>2. s = Table[4 * k + m - 15]
        <4>1. 2 ^ k = Power(k)
          <5>1. k \in 0 .. 13
            OBVIOUS
          <5> QED
            BY <5>1, Powers
        <4>2. Table[4 * k + m - 15] = m * Power(k)
          <5>1. k \in 4 .. 10 /\ m \in 5 .. 8 /\ k # 10
            OBVIOUS
          <5> QED
            BY <5>1, TableAbove
        <4> QED
          BY <3>1, <4>1, <4>2, Zenon
      <3>3. 4 * k + m - 15 \in 1 .. 32
        OBVIOUS
      <3> QED
        BY <3>2, <3>3
    <2>3. CASE \E m \in {5, 6, 7} : s = m * 2 ^ 10
      <3>1. PICK m \in {5, 6, 7} : s = m * 2 ^ 10
        BY <2>3
      <3>2. s = Table[25 + m]
        BY <1>1, <3>1, 4 * 10 + m - 15 = 25 + m, TableAbove
      <3>3. 25 + m \in 1 .. 32
        OBVIOUS
      <3> QED
        BY <3>2, <3>3
    <2> QED
      BY <2>1, <2>2, <2>3 DEF Sizes
  <1>3. ASSUME NEW i \in 1 .. 32
        PROVE  Table[i] \in Sizes
    <2>1. CASE i \in 1 .. 5
      <3>1. Table[i] \in {8, 16, 32, 48, 64}
        BY <2>1 DEF Table
      <3> QED
        BY <3>1 DEF Sizes
    <2>2. CASE i \in 6 .. 29
      <3>1. PICK k \in 4 .. 9, m \in {5, 6, 7, 8} : i = 4 * k + m - 15
        <4>1. PICK k \in 4 .. 9 : 4 * k - 10 <= i /\ i <= 4 * k - 7
          BY <2>2
        <4>2. i - 4 * k + 15 \in {5, 6, 7, 8} /\ i = 4 * k + (i - 4 * k + 15) - 15
          BY <4>1
        <4> QED
          BY <4>2
      <3>2. Table[i] = m * 2 ^ k
        <4>1. 2 ^ k = Power(k)
          <5>1. k \in 0 .. 13
            OBVIOUS
          <5> QED
            BY <5>1, Powers
        <4>2. Table[4 * k + m - 15] = m * Power(k)
          <5>1. k \in 4 .. 10 /\ m \in 5 .. 8 /\ k # 10
            OBVIOUS
          <5> QED
            BY <5>1, TableAbove
        <4> QED
          BY <3>1, <4>1, <4>2, Zenon
      <3>3. PICK M : M = {5, 6, 7, 8}
        OBVIOUS
      <3>4. PICK K : K = 4 .. 9
        OBVIOUS
      <3>5. m * 2 ^ k \in {n * 2 ^ j : n \in M, j \in K}
        <4>1. m \in M /\ k \in K
          BY <3>3, <3>4
        <4> QED
          BY <4>1
      <3>6. {n * 2 ^ j : n \in M, j \in K} \subseteq Sizes
        BY <3>3, <3>4 DEF Sizes
      <3> QED
        BY <3>2, <3>5, <3>6
    <2>3. CASE i \in 30 .. 32
      <3>1. PICK m \in {5, 6, 7} : i = 4 * 10 + m - 15
        <4>1. i - 25 \in {5, 6, 7} /\ i = 4 * 10 + (i - 25) - 15
          BY <2>3
        <4> QED
          BY <4>1
      <3>2. Table[i] = m * 2 ^ 10
        BY <1>1, <3>1, TableAbove
      <3> QED
        BY <3>2 DEF Sizes
    <2> QED
      BY <2>1, <2>2, <2>3
  <1> QED
    BY <1>2, <1>3

(* Multiples and remainders.                                               *)
LEMMA RemainderOfMultiple ==
    ASSUME NEW a \in Nat \ {0}, NEW q \in Int
    PROVE  (a * q) % a = 0
  <1>1. PICK d \in Int, r \in 0 .. a - 1 : a * q = a * d + r /\ r = (a * q) % a
    <2>1. a * q \in Int
      OBVIOUS
    <2> QED
      BY <2>1
  <1>2. PICK e \in Int : e = q - d /\ a * e = r
    <2>1. q - d \in Int /\ a * (q - d) = a * q - a * d
      OBVIOUS
    <2> QED
      BY <2>1, <1>1
  <1>3. CASE e = 0
    BY <1>1, <1>2, <1>3
  <1>4. CASE e >= 1
    <2>1. a * e >= a
      BY <1>4
    <2> QED
      BY <1>1, <1>2, <2>1
  <1>5. CASE e <= -1
    <2>1. a * e <= -a
      BY <1>5
    <2> QED
      BY <1>1, <1>2, <2>1
  <1> QED
    BY <1>2, <1>3, <1>4, <1>5

LEMMA MultipleOfRemainder ==
    ASSUME NEW a \in Nat \ {0}, NEW x \in Int, x % a = 0
    PROVE  \E q \in Int : x = a * q
  <1>1. x \div a \in Int /\ x = a * (x \div a) + (x % a)
    OBVIOUS
  <1>2. PICK q \in Int : x = a * q + (x % a)
    BY ONLY <1>1
  <1>3. a * q \in Int
    OBVIOUS
  <1> QED
    BY <1>2, <1>3

(* A quotient by its bounds.                                               *)
LEMMA QuotientIs ==
    ASSUME NEW a \in Nat \ {0}, NEW x \in Int, NEW q \in Int,
           a * q <= x, x < a * q + a
    PROVE  x \div a = q
  <1>1. PICK d \in Int, r \in 0 .. a - 1 : d = x \div a /\ x = a * d + r
    OBVIOUS
  <1>2. PICK e \in Int : e = q - d /\ a * e = a * q - a * d
    <2>1. q - d \in Int /\ a * (q - d) = a * q - a * d
      OBVIOUS
    <2> QED
      BY <2>1
  <1>3. CASE e = 0
    BY <1>1, <1>2, <1>3
  <1>4. CASE e >= 1
    <2>1. a * e >= a
      BY <1>4
    <2> QED
      BY <1>1, <1>2, <2>1
  <1>5. CASE e <= -1
    <2>1. a * e <= -a
      BY <1>5
    <2> QED
      BY <1>1, <1>2, <2>1
  <1> QED
    BY <1>2, <1>3, <1>4, <1>5

(* The quotient of PTS_Size_ResolveRequestSize above 64 bytes.             *)
LEMMA ClassAbove ==
    ASSUME NEW n \in 65 .. LargestObject
    PROVE  \E k \in 6 .. 12, q \in 4 .. 7 :
              /\ HighestBit(n - 1) = k
              /\ (n - 1) \div Power(k - 2) = q
              /\ q * Power(k - 2) < n /\ n <= (q + 1) * Power(k - 2)
              /\ k = 12 => q # 7
  <1>1. PICK k \in 6 .. 12 : n - 1 \in Power(k) .. Power(k + 1) - 1
    <2>1. n - 1 \in 64 .. 7167
      BY DEF LargestObject
    <2>2. CASE n - 1 \in 64 .. 127
      BY <2>2, Power(6) = 64, Power(6 + 1) = 128 DEF Power
    <2>3. CASE n - 1 \in 128 .. 255
      BY <2>3, Power(7) = 128, Power(7 + 1) = 256 DEF Power
    <2>4. CASE n - 1 \in 256 .. 511
      BY <2>4, Power(8) = 256, Power(8 + 1) = 512 DEF Power
    <2>5. CASE n - 1 \in 512 .. 1023
      BY <2>5, Power(9) = 512, Power(9 + 1) = 1024 DEF Power
    <2>6. CASE n - 1 \in 1024 .. 2047
      BY <2>6, Power(10) = 1024, Power(10 + 1) = 2048 DEF Power
    <2>7. CASE n - 1 \in 2048 .. 4095
      BY <2>7, Power(11) = 2048, Power(11 + 1) = 4096 DEF Power
    <2>8. CASE n - 1 \in 4096 .. 7167
      BY <2>8, Power(12) = 4096, Power(12 + 1) = 8192 DEF Power
    <2> QED
      BY <2>1, <2>2, <2>3, <2>4, <2>5, <2>6, <2>7, <2>8
  <1>2. HighestBit(n - 1) = k
    BY <1>1, HighestBitIs
  <1>3. PICK w \in Nat \ {0} : w = Power(k - 2) /\ Power(k) = 4 * w /\ Power(k + 1) = 8 * w
    <2>1. Power(k - 2) \in Nat \ {0} /\ Power(k) = 4 * Power(k - 2) /\ Power(k + 1) = 8 * Power(k - 2)
      BY DEF Power
    <2> QED
      BY <2>1
  <1>4. n - 1 \in 4 * w .. 8 * w - 1
    BY <1>1, <1>3
  <1>5. PICK q \in 4 .. 7 : q * w <= n - 1 /\ n - 1 < q * w + w
    <2>1. CASE n - 1 < 5 * w
      BY <1>4, <2>1
    <2>2. CASE 5 * w <= n - 1 /\ n - 1 < 6 * w
      BY <1>4, <2>2
    <2>3. CASE 6 * w <= n - 1 /\ n - 1 < 7 * w
      BY <1>4, <2>3
    <2>4. CASE 7 * w <= n - 1
      BY <1>4, <2>4
    <2> QED
      BY <1>4, <2>1, <2>2, <2>3, <2>4
  <1>6. (n - 1) \div w = q
    <2>1. w * q = q * w /\ n - 1 \in Int
      OBVIOUS
    <2> QED
      BY <1>5, <2>1, QuotientIs
  <1>7. q * w < n /\ n <= (q + 1) * w
    <2>1. (q + 1) * w = q * w + w /\ q * w \in Int
      OBVIOUS
    <2> QED
      BY <1>5, <2>1
  <1>8. k = 12 => q # 7
    <2> SUFFICES ASSUME k = 12, q = 7 PROVE FALSE
      OBVIOUS
    <2>1. w = 1024
      BY <1>3 DEF Power
    <2>2. 7 * 1024 <= n - 1
      BY <1>5, <2>1
    <2>3. n <= 7168
      BY DEF LargestObject
    <2> QED
      BY <2>2, <2>3
  <1> QED
    BY <1>2, <1>3, <1>6, <1>7, <1>8

\* Request n is served from bucket i - 1, of the size at i of the table.
ServedAs(n, i) ==
    /\ ObjectSize(n) = Table[i]
    /\ Bucket(n) = i - 1
    /\ n <= Table[i]
    /\ i > 1 => Table[i - 1] < n

LEMMA SmallServed ==
    ASSUME NEW n \in 1 .. 64
    PROVE  \E i \in 1 .. 5 : ServedAs(n, i)
  <1>1. PICK u \in 0 .. 7 : u = (n - 1) \div 8 /\ 8 * u < n /\ n <= 8 * u + 8
    OBVIOUS
  <1>2. Bucket(n) = SmallBuckets[u + 1] /\ ObjectSize(n) = SmallSizes[Bucket(n) + 1]
    BY <1>1 DEF Bucket, ObjectSize, IsSmall
  <1>3. CASE u = 0
    <2>1. Bucket(n) = 0 /\ ObjectSize(n) = 8
      BY <1>2, <1>3 DEF SmallBuckets, SmallSizes
    <2> QED
      BY <1>1, <1>3, <2>1 DEF ServedAs, Table
  <1>4. CASE u = 1
    <2>1. Bucket(n) = 1 /\ ObjectSize(n) = 16
      BY <1>2, <1>4 DEF SmallBuckets, SmallSizes
    <2> QED
      BY <1>1, <1>4, <2>1 DEF ServedAs, Table
  <1>5. CASE u \in {2, 3}
    <2>1. Bucket(n) = 2 /\ ObjectSize(n) = 32
      BY <1>2, <1>5 DEF SmallBuckets, SmallSizes
    <2> QED
      BY <1>1, <1>5, <2>1 DEF ServedAs, Table
  <1>6. CASE u \in {4, 5}
    <2>1. Bucket(n) = 3 /\ ObjectSize(n) = 48
      BY <1>2, <1>6 DEF SmallBuckets, SmallSizes
    <2> QED
      BY <1>1, <1>6, <2>1 DEF ServedAs, Table
  <1>7. CASE u \in {6, 7}
    <2>1. Bucket(n) = 4 /\ ObjectSize(n) = 64
      BY <1>2, <1>7 DEF SmallBuckets, SmallSizes
    <2> QED
      BY <1>1, <1>7, <2>1 DEF ServedAs, Table
  <1> QED
    BY <1>3, <1>4, <1>5, <1>6, <1>7

(* A multiple above is the next one.                                       *)
LEMMA AlignUpIs ==
    ASSUME NEW a \in Nat \ {0}, NEW n \in Nat \ {0}, NEW q \in Nat,
           q * a < n, n <= (q + 1) * a
    PROVE  AlignUp(n, a) = (q + 1) * a
  <1>1. a * (q + 1) <= n + a - 1 /\ n + a - 1 < a * (q + 1) + a
    <2>1. a * (q + 1) = q * a + a /\ (q + 1) * a = q * a + a /\ q * a \in Int
      OBVIOUS
    <2> QED
      BY <2>1
  <1>2. (n + a - 1) \div a = q + 1
    BY <1>1, QuotientIs
  <1> QED
    BY <1>2 DEF AlignUp

LEMMA LargeServed ==
    ASSUME NEW n \in 65 .. LargestObject
    PROVE  \E i \in 6 .. 32 : ServedAs(n, i)
  <1>1. PICK k \in 6 .. 12 : \E q \in 4 .. 7 :
              /\ HighestBit(n - 1) = k
              /\ (n - 1) \div Power(k - 2) = q
              /\ q * Power(k - 2) < n /\ n <= (q + 1) * Power(k - 2)
              /\ k = 12 => q # 7
    BY ClassAbove
  <1>2. PICK q \in 4 .. 7 :
              /\ HighestBit(n - 1) = k
              /\ (n - 1) \div Power(k - 2) = q
              /\ q * Power(k - 2) < n /\ n <= (q + 1) * Power(k - 2)
              /\ k = 12 => q # 7
    BY <1>1
  <1>3. PICK w \in Nat \ {0} : w = Power(k - 2) /\ w = 2 ^ (k - 2)
    <2>1. k - 2 \in 0 .. 13 /\ Power(k - 2) \in Nat \ {0}
      BY DEF Power
    <2> QED
      BY <2>1, Powers
  <1>4. PICK i \in 6 .. 32 : i = 4 * (k - 2) + (q + 1) - 15
    BY <1>2
  <1>5. Table[i] = (q + 1) * w
    <2>1. k - 2 \in 4 .. 10 /\ q + 1 \in 5 .. 8 /\ (k - 2 = 10 => q + 1 # 8)
      BY <1>2
    <2>2. Table[4 * (k - 2) + (q + 1) - 15] = (q + 1) * Power(k - 2)
      BY <2>1, TableAbove
    <2> QED
      BY <1>3, <1>4, <2>2, Zenon
  <1>6. ~IsSmall(n)
    BY DEF IsSmall
  <1>7. ObjectSize(n) = AlignUp(n, w)
    BY <1>2, <1>3, <1>6 DEF ObjectSize
  <1>8. AlignUp(n, w) = (q + 1) * w
    <2>1. n \in Nat \ {0} /\ q \in Nat
      OBVIOUS
    <2> QED
      BY <1>2, <1>3, <2>1, AlignUpIs
  <1>9. Bucket(n) = i - 1
    <2>1. Bucket(n) = 5 + 4 * (k - 6) + q - 4
      BY <1>2, <1>3, <1>6 DEF Bucket
    <2> QED
      BY <1>4, <2>1
  <1>10. Table[i - 1] < n
    <2>1. CASE q = 4 /\ k = 6
      <3>1. i = 6
        BY <1>4, <2>1
      <3> QED
        BY <3>1 DEF Table
    <2>2. CASE q = 4 /\ k # 6
      <3>1. k - 3 \in 4 .. 10 /\ 8 \in 5 .. 8 /\ k - 3 # 10 /\ i - 1 = 4 * (k - 3) + 8 - 15
        BY <1>4, <2>2
      <3>2. Table[i - 1] = 8 * Power(k - 3)
        BY <3>1, TableAbove
      <3>3. 2 * Power(k - 3) = Power(k - 2) /\ Power(k - 3) \in Nat
        BY <3>1 DEF Power
      <3>4. PICK p \in Nat : p = Power(k - 3)
        BY <3>3
      <3>5. Table[i - 1] = 4 * w
        BY <3>2, <3>3, <3>4, <1>3
      <3> QED
        BY <3>5, <2>2, <1>2, <1>3
    <2>3. CASE q # 4
      <3>1. k - 2 \in 4 .. 10 /\ q \in 5 .. 8 /\ q # 8 /\ i - 1 = 4 * (k - 2) + q - 15
        BY <1>4, <2>3
      <3>2. Table[i - 1] = q * Power(k - 2)
        BY <3>1, TableAbove
      <3> QED
        BY <3>2, <1>2
    <2> QED
      BY <2>1, <2>2, <2>3
  <1>11. n <= Table[i]
    BY <1>2, <1>3, <1>5
  <1> QED
    BY <1>5, <1>7, <1>8, <1>9, <1>10, <1>11 DEF ServedAs

LEMMA Served ==
    ASSUME NEW n \in 1 .. LargestObject
    PROVE  \E i \in 1 .. 32 : ServedAs(n, i)
  <1>1. CASE n <= 64
    BY <1>1, SmallServed
  <1>2. CASE n > 64
    BY <1>2, LargeServed
  <1> QED
    BY <1>1, <1>2 DEF LargestObject

(* As many sizes are below the one at i as places are before it.           *)
LEMMA SizesBelow ==
    ASSUME NEW i \in 1 .. 32
    PROVE  Cardinality({s \in Sizes : s < Table[i]}) = i - 1
  <1> DEFINE B == {s \in Sizes : s < Table[i]}
             f == [j \in 1 .. i - 1 |-> Table[j]]
  <1>1. \A j \in 1 .. 32 : Table[j] \in Nat
    BY DEF Table
  <1>2. f \in [1 .. i - 1 -> B]
    <2> SUFFICES ASSUME NEW j \in 1 .. i - 1 PROVE Table[j] \in B
      OBVIOUS
    <2>1. j \in 1 .. 32 /\ j < i
      OBVIOUS
    <2> QED
      BY <2>1, TableOrdered, TableIs
  <1>3. \A j, l \in 1 .. i - 1 : f[j] = f[l] => j = l
    <2> SUFFICES ASSUME NEW j \in 1 .. i - 1, NEW l \in 1 .. i - 1, Table[j] = Table[l]
                 PROVE  j = l
      OBVIOUS
    <2>1. j \in 1 .. 32 /\ l \in 1 .. 32
      OBVIOUS
    <2>2. ~(j < l) /\ ~(l < j)
      BY <1>1, <2>1, TableOrdered
    <2> QED
      BY <2>2
  <1>4. \A s \in B : \E j \in 1 .. i - 1 : f[j] = s
    <2> SUFFICES ASSUME NEW s \in B PROVE \E j \in 1 .. i - 1 : Table[j] = s
      OBVIOUS
    <2>1. PICK j \in 1 .. 32 : s = Table[j]
      BY TableIs
    <2>2. ~(i < j) /\ i # j
      BY <1>1, <2>1, TableOrdered
    <2> QED
      BY <2>1, <2>2
  <1>5. f \in Bijection(1 .. i - 1, B)
    BY <1>2, <1>3, <1>4 DEF Bijection, Injection, Surjection, IsInjective
  <1>6. IsFiniteSet(1 .. i - 1) /\ Cardinality(1 .. i - 1) = i - 1
    BY FS_Interval
  <1>7. ExistsBijection(1 .. i - 1, B)
    BY <1>5 DEF ExistsBijection
  <1> QED
    BY <1>6, <1>7, FS_Bijection

LEMMA AlignmentsAre ==
    ASSUME NEW a \in Alignments
    PROVE  \E j \in 0 .. 12 : a = Power(j)
  <1>1. PICK j \in 0 .. 12 : a = 2 ^ j
    BY DEF Alignments
  <1>2. j \in 0 .. 13
    OBVIOUS
  <1> QED
    BY <1>1, <1>2, Powers

(* The lesser of two powers of two divides the other.                      *)
LEMMA PowersDivide ==
    ASSUME NEW j \in 0 .. 12, NEW k \in 0 .. 12
    PROVE  \E c \in Nat \ {0} : Power(j) = Power(k) * c \/ Power(k) = Power(j) * c
  <1>1. ASSUME NEW l \in 0 .. 12, NEW m \in 0 .. 12, l <= m
        PROVE  \E c \in Nat \ {0} : Power(m) = Power(l) * c
    <2>1. m - l \in 0 .. 12 /\ Power(m - l) \in Nat \ {0}
      BY <1>1 DEF Power
    <2>2. Power(m) = Power(l) * Power(m - l)
      <3>0. CASE l = 0
        BY <3>0, <1>1 DEF Power
      <3>1. CASE l = 1
        BY <3>1, <1>1 DEF Power
      <3>2. CASE l = 2
        BY <3>2, <1>1 DEF Power
      <3>3. CASE l = 3
        BY <3>3, <1>1 DEF Power
      <3>4. CASE l = 4
        BY <3>4, <1>1 DEF Power
      <3>5. CASE l = 5
        BY <3>5, <1>1 DEF Power
      <3>6. CASE l = 6
        BY <3>6, <1>1 DEF Power
      <3>7. CASE l = 7
        BY <3>7, <1>1 DEF Power
      <3>8. CASE l = 8
        BY <3>8, <1>1 DEF Power
      <3>9. CASE l = 9
        BY <3>9, <1>1 DEF Power
      <3>10. CASE l = 10
        BY <3>10, <1>1 DEF Power
      <3>11. CASE l = 11
        BY <3>11, <1>1 DEF Power
      <3>12. CASE l = 12
        BY <3>12, <1>1 DEF Power
      <3> QED
        BY <3>0, <3>1, <3>2, <3>3, <3>4, <3>5, <3>6, <3>7, <3>8, <3>9, <3>10, <3>11, <3>12
    <2> QED
      BY <2>1, <2>2
  <1> QED
    BY <1>1

(* An aligned request gets a size that is as aligned.                      *)
LEMMA ServedAligned ==
    ASSUME NEW a \in Alignments, NEW n \in 1 .. LargestObject, n % a = 0
    PROVE  ObjectSize(n) % a = 0
  <1>1. PICK j \in 0 .. 12 : a = Power(j)
    BY AlignmentsAre
  <1>2. a \in Nat \ {0}
    BY <1>1 DEF Power
  <1>3. PICK m \in Int : n = a * m
    BY <1>2, MultipleOfRemainder
  <1>4. CASE n <= 64
    <2>1. PICK i \in 1 .. 5 : ServedAs(n, i)
      BY <1>4, SmallServed
    <2>2. a \in {1, 2, 4, 8, 16, 32, 64}
      <3>1. a <= n
        <4> SUFFICES ASSUME n < a PROVE FALSE
          BY <1>2
        <4>1. n % a = n
          BY <1>2
        <4> QED
          BY <4>1
      <3> QED
        BY <1>1, <1>4, <3>1 DEF Power
    <2>3. CASE a \in {1, 2, 4, 8}
      <3>1. ObjectSize(n) \in {8, 16, 32, 48, 64}
        BY <2>1 DEF ServedAs, Table
      <3> QED
        BY <2>3, <3>1
    <2>4. CASE a = 16
      <3>1. n \in {16, 32, 48, 64}
        BY <1>4, <2>4
      <3>2. ObjectSize(n) \in {16, 32, 48, 64}
        BY <3>1, <2>1 DEF ServedAs, Table
      <3> QED
        BY <2>4, <3>2
    <2>5. CASE a = 32
      <3>1. n \in {32, 64}
        BY <1>4, <2>5
      <3>2. ObjectSize(n) \in {32, 64}
        BY <3>1, <2>1 DEF ServedAs, Table
      <3> QED
        BY <2>5, <3>2
    <2>6. CASE a = 64
      <3>1. n = 64
        BY <1>4, <2>6
      <3>2. ObjectSize(n) = 64
        BY <3>1, <2>1 DEF ServedAs, Table
      <3> QED
        BY <2>6, <3>2
    <2> QED
      BY <2>2, <2>3, <2>4, <2>5, <2>6
  <1>5. CASE n > 64
    <2>1. PICK k \in 6 .. 12 : \E q \in 4 .. 7 :
              /\ HighestBit(n - 1) = k
              /\ q * Power(k - 2) < n /\ n <= (q + 1) * Power(k - 2)
      BY <1>5, ClassAbove
    <2>2. PICK q \in 4 .. 7 :
              /\ HighestBit(n - 1) = k
              /\ q * Power(k - 2) < n /\ n <= (q + 1) * Power(k - 2)
      BY <2>1
    <2>3. PICK w \in Nat \ {0} : w = Power(k - 2) /\ w = 2 ^ (k - 2)
      <3>1. k - 2 \in 0 .. 13 /\ Power(k - 2) \in Nat \ {0}
        BY DEF Power
      <3> QED
        BY <3>1, Powers
    <2>4. ObjectSize(n) = (q + 1) * w
      <3>1. ObjectSize(n) = AlignUp(n, w)
        BY <1>5, <2>2, <2>3 DEF ObjectSize, IsSmall
      <3>2. n \in Nat \ {0} /\ q \in Nat
        OBVIOUS
      <3> QED
        BY <2>2, <2>3, <3>1, <3>2, AlignUpIs
    <2>5. PICK c \in Nat \ {0} : w = a * c \/ a = w * c
      <3>1. k - 2 \in 0 .. 12
        OBVIOUS
      <3>2. \E c \in Nat \ {0} : Power(k - 2) = Power(j) * c \/ Power(j) = Power(k - 2) * c
        BY <3>1, PowersDivide
      <3> QED
        BY <1>1, <2>3, <3>2, Zenon
    <2>6. CASE w = a * c
      <3>1. (q + 1) * w = a * (c * (q + 1)) /\ c * (q + 1) \in Int
        BY <1>2, <2>6
      <3> QED
        BY <1>2, <2>4, <3>1, RemainderOfMultiple
    <2>7. CASE a = w * c
      <3>1. PICK e \in Int : e = c * m /\ n = w * e
        <4>1. c * m \in Int /\ n = w * (c * m)
          BY <1>3, <2>7
        <4> QED
          BY <4>1
      <3>2. e = q + 1
        <4>1. q * w < w * e /\ w * e <= (q + 1) * w
          BY <2>2, <2>3, <3>1
        <4>2. PICK d \in Int : d = e - q /\ w * e = q * w + w * d
          <5>1. e - q \in Int /\ w * e = q * w + w * (e - q)
            OBVIOUS
          <5> QED
            BY <5>1
        <4>3. 0 < w * d /\ w * d <= w
          <5>1. (q + 1) * w = q * w + w /\ q * w \in Int /\ w * d \in Int
            OBVIOUS
          <5> QED
            BY <4>1, <4>2, <5>1
        <4>4. ~(d <= 0)
          <5> SUFFICES ASSUME d <= 0 PROVE FALSE
            OBVIOUS
          <5>1. w * d <= 0
            OBVIOUS
          <5> QED
            BY <5>1, <4>3
        <4>5. ~(d >= 2)
          <5> SUFFICES ASSUME d >= 2 PROVE FALSE
            OBVIOUS
          <5>1. w * d >= w + w
            OBVIOUS
          <5> QED
            BY <5>1, <4>3
        <4> QED
          BY <4>2, <4>4, <4>5
      <3>3. ObjectSize(n) = n
        BY <2>4, <3>1, <3>2
      <3> QED
        BY <3>3
    <2> QED
      BY <2>5, <2>6, <2>7
  <1> QED
    BY <1>4, <1>5

\* An object of this size at x is where the allocator and its frees want it.
InBlock(x, s) == x >= HeaderSize /\ x + s <= BlockSize /\ IsObject(x)

LEMMA ObjectsInBlock ==
    ASSUME NEW s \in Nat \ {0}, NEW x \in ObjectsAt(s)
    PROVE  InBlock(x, s) /\ x \in Nat
  <1>1. PICK N \in Int : N = ObjectsPerBlock(s) /\ s * N <= BlockSize - HeaderSize
    <2>1. PICK N \in Int, r \in 0 .. s - 1 :
              N = (BlockSize - HeaderSize) \div s /\ BlockSize - HeaderSize = s * N + r
      BY DEF BlockSize, HeaderSize
    <2>2. s * N <= BlockSize - HeaderSize
      <3>1. s * N \in Int
        OBVIOUS
      <3> QED
        BY <2>1, <3>1
    <2> QED
      BY <2>1, <2>2 DEF ObjectsPerBlock
  <1>2. PICK i \in 0 .. N - 1 : x = BlockSize - s * N + i * s
    BY <1>1 DEF ObjectsAt, ObjectAt, FirstObject
  <1>3. i * s >= 0 /\ i * s + s <= s * N /\ i * s \in Int /\ s * N \in Int
    <2>1. PICK d \in Nat : N = i + 1 + d
      <3>1. N - i - 1 \in Nat /\ N = i + 1 + (N - i - 1)
        OBVIOUS
      <3> QED
        BY <3>1
    <2>2. s * N = i * s + s + s * d /\ s * d \in Nat /\ i * s \in Nat
      BY <2>1
    <2> QED
      BY <2>2
  <1>4. x \in Int /\ x >= HeaderSize /\ x + s <= BlockSize
    BY <1>1, <1>2, <1>3 DEF BlockSize, HeaderSize
  <1>5. x > 0 /\ x < BlockSize
    BY <1>4 DEF HeaderSize, BlockSize
  <1>6. x \div BlockSize = 0
    BY <1>4, <1>5 DEF BlockSize
  <1>7. IsObject(x)
    BY <1>5, <1>6 DEF IsObject, AlignDown, BlockSize
  <1> QED
    BY <1>4, <1>5, <1>7 DEF InBlock

(* Objects fill the block from its end, so they are as aligned as their    *)
(* size, as long as the block is.                                          *)
LEMMA ObjectsAligned ==
    ASSUME NEW a \in Alignments, NEW s \in Nat \ {0}, s % a = 0, NEW x \in ObjectsAt(s)
    PROVE  x % a = 0
  <1>1. PICK j \in 0 .. 12 : a = Power(j)
    BY AlignmentsAre
  <1>2. a \in Nat \ {0}
    BY <1>1 DEF Power
  <1>3. PICK m \in Int : s = a * m
    BY <1>2, MultipleOfRemainder
  <1>4. PICK b \in Nat : BlockSize = a * b
    <2>1. Power(12 - j) \in Nat /\ BlockSize = a * (4 * Power(12 - j))
      BY <1>1 DEF Power, BlockSize
    <2> QED
      BY <2>1
  <1>5. PICK N \in Int : N = ObjectsPerBlock(s)
    <2>1. (BlockSize - HeaderSize) \div s \in Int
      BY DEF BlockSize, HeaderSize
    <2> QED
      BY <2>1 DEF ObjectsPerBlock
  <1>6. PICK i \in 0 .. N - 1 : x = BlockSize - s * N + i * s
    BY <1>5 DEF ObjectsAt, ObjectAt, FirstObject
  <1>7. x = a * (b - m * N + i * m) /\ b - m * N + i * m \in Int
    <2>1. x = a * b - (a * m) * N + i * (a * m)
      BY <1>3, <1>4, <1>6
    <2>2. (a * m) * N = a * (m * N) /\ i * (a * m) = a * (i * m)
      BY <1>2
    <2>3. a * (b - m * N + i * m) = a * b - a * (m * N) + a * (i * m)
      BY <1>2
    <2> QED
      BY <2>1, <2>2, <2>3
  <1> QED
    BY <1>2, <1>7, RemainderOfMultiple

(* An alignment up to 1024 divides LargestObject, so what it asks for more *)
(* stays below it; 2048 and 4096 do not, and the last of their multiples   *)
(* below LargestObject are 6144 and 4096.                                  *)
LEMMA ServedUnlessOutgrown ==
    ASSUME NEW n \in 1 .. LargestObject, NEW a \in Alignments
    PROVE  IsServed(n, a) <=> ~Outgrows(n, a)
  <1>1. PICK j \in 0 .. 12 : a = Power(j)
    BY AlignmentsAre
  <1>2. PICK q \in Int, r \in 0 .. a - 1 :
            q = (n + a - 1) \div a /\ n + a - 1 = a * q + r
    BY <1>1 DEF Power, LargestObject
  <1>3. IsServed(n, a) <=> a * q <= LargestObject
    <2>1. q * a = a * q
      BY <1>1, <1>2 DEF Power
    <2> QED
      BY <1>2, <2>1 DEF IsServed, Requested, AlignUp
  <1>4. CASE j <= 10
    <2>1. PICK c \in Nat : LargestObject = a * c /\ a \in 1 .. 1024
      <3>1. Power(10 - j) \in Nat /\ LargestObject = a * (7 * Power(10 - j)) /\ a \in 1 .. 1024
        BY <1>1, <1>4 DEF Power, LargestObject
      <3> QED
        BY <3>1
    <2>2. a * q < a * (c + 1)
      <3>1. a * (c + 1) = a * c + a /\ a * q \in Int
        BY <2>1
      <3> QED
        BY <1>2, <2>1, <3>1 DEF LargestObject
    <2>3. q <= c
      <3> SUFFICES ASSUME q >= c + 1 PROVE FALSE
        BY <2>1
      <3>1. PICK d \in Nat : q = c + 1 + d
        <4>1. q - c - 1 \in Nat /\ q = c + 1 + (q - c - 1)
          BY <2>1
        <4> QED
          BY <4>1
      <3>2. a * (c + 1 + d) = a * (c + 1) + a * d /\ a * (c + 1) \in Int
        BY <2>1
      <3>3. a * d >= 0 /\ a * d \in Int
        BY <2>1
      <3> QED
        BY <2>2, <3>1, <3>2, <3>3
    <2>4. a * q <= a * c
      <3>1. PICK d \in Nat : c = q + d
        <4>1. c - q \in Nat /\ c = q + (c - q)
          BY <2>1, <2>3
        <4> QED
          BY <4>1
      <3>2. a * (q + d) = a * q + a * d /\ a * q \in Int
        BY <2>1
      <3>3. a * d >= 0 /\ a * d \in Int
        BY <2>1
      <3> QED
        BY <3>1, <3>2, <3>3
    <2>5. a # 2048 /\ a # 4096
      BY <2>1
    <2> QED
      BY <1>3, <2>1, <2>4, <2>5 DEF Outgrows
  <1>5. CASE j = 11
    <2>1. a = 2048
      BY <1>1, <1>5 DEF Power
    <2> QED
      BY <1>2, <1>3, <2>1 DEF Outgrows, LargestObject
  <1>6. CASE j = 12
    <2>1. a = 4096
      BY <1>1, <1>6 DEF Power
    <2> QED
      BY <1>2, <1>3, <2>1 DEF Outgrows, LargestObject
  <1> QED
    BY <1>4, <1>5, <1>6

(* PTS_Size_ResolveRequestSize and PTS_Internal_Alloc_Aligned: the buckets *)
(* serve each request but the large ones with the two largest alignments;  *)
(* of those they serve, the size is the least of the table, the bucket its *)
(* place, and objects are aligned and known as objects by their address.   *)
THEOREM RequestsFit == EveryRequestFits
  <1>1. ASSUME NEW n \in 1 .. LargestObject
        PROVE  /\ ObjectSize(n) \in Sizes
               /\ ObjectSize(n) >= n
               /\ \A s \in Sizes : s >= n => s >= ObjectSize(n)
               /\ Bucket(n) = Cardinality({s \in Sizes : s < ObjectSize(n)})
    <2>1. PICK i \in 1 .. 32 : ServedAs(n, i)
      BY Served
    <2>2. \A j \in 1 .. 32 : Table[j] \in Nat
      BY DEF Table
    <2>3. ASSUME NEW s \in Sizes, s >= n
          PROVE  s >= Table[i]
      <3>1. PICK j \in 1 .. 32 : s = Table[j]
        BY TableIs
      <3>2. ~(j < i)
        <4> SUFFICES ASSUME j < i PROVE FALSE
          OBVIOUS
        <4>1. i - 1 \in 1 .. 32 /\ (j = i - 1 \/ j < i - 1)
          OBVIOUS
        <4>2. Table[j] <= Table[i - 1]
          BY <2>2, <4>1, TableOrdered
        <4>3. Table[i - 1] < n /\ Table[i - 1] \in Nat /\ Table[j] \in Nat
          BY <2>1, <2>2, <4>1 DEF ServedAs
        <4> QED
          BY <2>3, <3>1, <4>2, <4>3
      <3>3. CASE j = i
        BY <2>2, <3>1, <3>3
      <3>4. CASE i < j
        BY <2>2, <3>1, <3>4, TableOrdered
      <3> QED
        BY <3>2, <3>3, <3>4
    <2>4. Table[i] \in Sizes
      BY TableIs
    <2> QED
      BY <2>1, <2>3, <2>4, SizesBelow DEF ServedAs
  <1>2. ASSUME NEW a \in Alignments, NEW n \in 1 .. LargestObject, IsServed(n, a),
               NEW x \in ObjectsAt(ObjectSize(Requested(n, a)))
        PROVE  x % a = 0 /\ InBlock(x, ObjectSize(Requested(n, a)))
    <2>1. a \in Nat \ {0}
      <3>1. PICK j \in 0 .. 12 : a = Power(j)
        BY AlignmentsAre
      <3> QED
        BY <3>1 DEF Power
    <2>2. PICK R \in 1 .. LargestObject : R = Requested(n, a) /\ R % a = 0
      <3>1. AlignUp(n, a) \in Nat \ {0}
        <4>1. n \in Nat \ {0}
          OBVIOUS
        <4> QED
          BY <2>1, <4>1, AlignUpBounds
      <3>2. PICK q \in Int : AlignUp(n, a) = a * q
        <4>1. (n + a - 1) \div a \in Int
          BY <2>1
        <4>2. ((n + a - 1) \div a) * a = a * ((n + a - 1) \div a)
          BY <2>1, <4>1
        <4> QED
          BY <4>1, <4>2 DEF AlignUp
      <3>3. AlignUp(n, a) % a = 0
        BY <2>1, <3>2, RemainderOfMultiple
      <3>4. Requested(n, a) = AlignUp(n, a) /\ Requested(n, a) <= LargestObject
        BY <1>2 DEF IsServed, Requested
      <3>5. PICK R \in Nat \ {0} : R = AlignUp(n, a)
        BY <3>1
      <3>6. R \in 1 .. LargestObject
        <4>1. R <= LargestObject
          BY <3>4, <3>5, Zenon
        <4> QED
          BY <4>1 DEF LargestObject
      <3> QED
        BY <3>3, <3>4, <3>5, <3>6
    <2>3. PICK i \in 1 .. 32 : ServedAs(R, i)
      BY Served
    <2>4. PICK s \in Nat \ {0} : s = ObjectSize(R)
      <3>1. Table[i] \in Nat \ {0}
        BY DEF Table
      <3> QED
        BY <2>3, <3>1 DEF ServedAs
    <2>5. s % a = 0
      BY <2>2, <2>4, ServedAligned
    <2> QED
      BY <1>2, <2>2, <2>4, <2>5, ObjectsAligned, ObjectsInBlock
  <1> QED
    BY <1>1, <1>2, ServedUnlessOutgrown DEF EveryRequestFits, InBlock

(* ObjectsFit for any request, threads and blocks: beside EveryRequestFits *)
(* it says that PTS_Internal_Free finds the block of every object in use,  *)
(* since no object lies at a multiple of the block size.                   *)
THEOREM ObjectsAlwaysFit == Spec => []ObjectsFit
  <1>1. ObjectsFit
    <2>1. Size \in Nat \ {0}
      BY SizeBounds DEF BlockSize, HeaderSize
    <2>2. ASSUME NEW x \in InUse
          PROVE  LET address == BlockSize + ObjectAt(Size, x[2])
                 IN  IsObject(address) /\ AlignDown(address, BlockSize) = BlockSize
      <3>1. x[2] \in 0 .. ObjectsPerBlock(Size) - 1
        BY DEF InUse, Objects, Slots, PerBlock
      <3>2. ObjectAt(Size, x[2]) \in ObjectsAt(Size)
        BY <3>1 DEF ObjectsAt
      <3>3. PICK y \in Nat : y = ObjectAt(Size, x[2]) /\ InBlock(y, Size)
        BY <2>1, <3>2, ObjectsInBlock
      <3>4. y > 0 /\ y < BlockSize
        BY <2>1, <3>3 DEF InBlock, HeaderSize, BlockSize
      <3>5. AlignDown(BlockSize + y, BlockSize) = BlockSize
        BY <3>4 DEF AlignDown, BlockSize
      <3>6. IsObject(BlockSize + y)
        <4>1. BlockSize # BlockSize + y
          BY <3>4 DEF BlockSize
        <4> QED
          BY <3>5, <4>1 DEF IsObject
      <3> QED
        BY <3>3, <3>5, <3>6
    <2> QED
      BY <2>2, RequestsFit DEF ObjectsFit
  <1> QED
    BY <1>1, PTL

=============================================================================
