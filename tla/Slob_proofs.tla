---------------------------- MODULE Slob_proofs ----------------------------
(***************************************************************************)
(* For any page size, any requests and alignments and any number of        *)
(* callers and pages: first about the free-block list of one page, the     *)
(* invariants of SlobPage and that it implements PageMemory; then, from    *)
(* the same lemmas, the invariants of Slob and that it implements          *)
(* DeviceHeap.                                                             *)
(***************************************************************************)
EXTENDS Slob, SlobPage, FiniteSetTheorems, WellFoundedInduction, SequenceTheorems, TLAPS

-----------------------------------------------------------------------------
(* Arithmetic of alignments                                                *)

(* Division with remainder, as the SMT backend is given it.                *)
LEMMA DivMod ==
    ASSUME NEW x \in Int, NEW a \in Nat \ {0}
    PROVE  /\ x \div a \in Int
           /\ x % a \in 0 .. a - 1
           /\ x = a * (x \div a) + (x % a)
OBVIOUS

(* A multiple of a leaves no remainder.                                    *)
LEMMA MultipleMod ==
    ASSUME NEW a \in Nat \ {0}, NEW q \in Int
    PROVE  (a * q) % a = 0
OBVIOUS

(* Less than one multiple below a multiple of a there is no other.         *)
LEMMA NoMultipleBetween ==
    ASSUME NEW a \in Nat \ {0}, NEW p \in Int, NEW q \in Int,
           NEW r \in 0 .. a - 1, a * p >= a * q - r
    PROVE  p >= q
<1> SUFFICES ASSUME p <= q - 1
             PROVE  FALSE
  OBVIOUS
<1>1. a * p <= a * (q - 1)
  OBVIOUS
<1>2. a * (q - 1) = a * q - a
  OBVIOUS
<1>3. a * p \in Int /\ a * q \in Int
  OBVIOUS
<1> QED
  BY <1>1, <1>2, <1>3

(* mcrt_intrin_round_up: adding Delta reaches an aligned offset, and it is *)
(* the first one that is not below the block.                              *)
LEMMA DeltaAligns ==
    ASSUME NEW a \in Nat \ {0}, NEW b, b.offset \in Int
    PROVE  /\ Delta(b, a) \in 0 .. a - 1
           /\ (b.offset + Delta(b, a)) % a = 0
           /\ \A o \in Int : o >= b.offset /\ o % a = 0 => o >= b.offset + Delta(b, a)
<1> DEFINE v == b.offset
<1>1. -v \in Int
  OBVIOUS
<1>2. PICK q \in Int : -v = a * q + ((-v) % a) /\ (-v) % a \in 0 .. a - 1
  BY <1>1, DivMod
<1> DEFINE r == (-v) % a
<1> HIDE DEF r
<1>3. -v = a * q + r /\ r \in 0 .. a - 1
  BY <1>2 DEF r
<1> HIDE DEF v
<1>4. v \in Int /\ a * q \in Int /\ -q \in Int /\ a * (-q) = -(a * q)
  BY DEF v
<1>5. v + r = a * (-q)
  BY <1>3, <1>4
<1>6. (v + r) % a = 0
  BY <1>4, <1>5, MultipleMod
<1>7. ASSUME NEW o \in Int, o >= v, o % a = 0
      PROVE  o >= v + r
  <2>1. PICK p \in Int : o = a * p
    <3>1. o \div a \in Int /\ o = a * (o \div a) + (o % a)
      BY DivMod
    <3>2. o = a * (o \div a)
      BY <3>1, <1>7
    <3> QED
      BY <3>1, <3>2
  <2>2. a * p >= a * (-q) - r
    BY <1>3, <1>4, <1>5, <1>7, <2>1
  <2>3. p >= -q
    BY <1>3, <1>4, <2>2, NoMultipleBetween
  <2>4. a * p >= a * (-q)
    BY <1>4, <2>3
  <2> QED
    BY <1>5, <2>1, <2>4
<1> QED
  BY <1>3, <1>6, <1>7 DEF Delta, v, r

-----------------------------------------------------------------------------
(* First fit                                                               *)

(* A nonempty set of naturals has a least element.                         *)
LEMMA LeastNatural ==
    ASSUME NEW T \in SUBSET Nat, T # {}
    PROVE  \E x \in T : \A y \in T : x <= y
<1> DEFINE F == {0 .. x : x \in T}
<1>1. F \subseteq FiniteSubsetsOf(Nat) /\ F # {}
  <2>1. \A x \in T : 0 .. x \in SUBSET Nat /\ IsFiniteSet(0 .. x)
    <3> TAKE x \in T
    <3>1. 0 \in Int /\ x \in Int
      OBVIOUS
    <3>2. IsFiniteSet(0 .. x)
      BY <3>1, FS_Interval
    <3> QED
      BY <3>2
  <2>2. \A x \in T : 0 .. x \in FiniteSubsetsOf(Nat)
    BY <2>1 DEF FiniteSubsetsOf
  <2> QED
    BY <2>2
<1>2. PICK X \in F : \A Y \in F : <<Y, X>> \notin StrictSubsetOrdering(Nat)
  BY <1>1, WFMin, FS_StrictSubsetOrderingWellFounded
<1>3. PICK x \in T : X = 0 .. x
  OBVIOUS
<1>4. ASSUME NEW y \in T, y < x
      PROVE  FALSE
  <2>1. 0 .. y \subseteq X /\ x \notin 0 .. y /\ x \in X
    BY <1>3, <1>4
  <2>2. 0 .. y \in F /\ X \subseteq Nat
    BY <1>3
  <2>3. <<0 .. y, X>> \in StrictSubsetOrdering(Nat)
    BY <2>1, <2>2 DEF StrictSubsetOrdering
  <2> QED
    BY <2>2, <2>3, <1>2
<1> QED
  BY <1>4

(* internal_alloc's loop stops at a block that fits, and no block that     *)
(* fits starts before it.                                                  *)
LEMMA FirstFitExists ==
    ASSUME NEW n \in Nat, NEW B \in SUBSET PageBlocks(n), NEW size, NEW align,
           FitsIn(B, size, align) # {}
    PROVE  /\ FirstFit(B, size, align) \in B
           /\ Fits(FirstFit(B, size, align), size, align)
           /\ \A c \in FitsIn(B, size, align) :
                 FirstFit(B, size, align).offset <= c.offset
<1> DEFINE F == FitsIn(B, size, align)
           T == {b.offset : b \in F}
<1>1. T \in SUBSET Nat /\ T # {}
  BY DEF FitsIn, PageBlocks
<1>2. PICK x \in T : \A y \in T : x <= y
  BY <1>1, LeastNatural
<1>3. \E b \in F : \A c \in F : b.offset <= c.offset
  BY <1>2
<1>4. FirstFit(B, size, align) \in F /\ \A c \in F : FirstFit(B, size, align).offset <= c.offset
  BY <1>3 DEF FirstFit
<1> QED
  BY <1>4 DEF FitsIn

-----------------------------------------------------------------------------
(* Carving an allocation out of the list                                   *)

(* A byte is covered by a list when a block of the list covers it.         *)
LEMMA InBytesOf ==
    ASSUME NEW B, NEW k
    PROVE  k \in BytesOf(B) <=> \E c \in B : k \in c.offset .. End(c) - 1
BY DEF BytesOf, Bytes

(* internal_alloc on a coalesced list: the range it returns was free and   *)
(* is aligned, exactly these bytes leave the list, and it stays coalesced. *)
LEMMA CarveCorrect ==
    ASSUME NEW n \in Nat, NEW B \in SUBSET PageBlocks(n), Coalesced(B),
           NEW size \in Nat \ {0}, NEW align \in Nat \ {0},
           FitsIn(B, size, align) # {}
    PROVE  LET o == AllocOffset(B, size, align)
               r == Block(o, size)
               C == Carve(B, size, align)
           IN  /\ o \in Nat /\ o % align = 0 /\ r \in PageBlocks(n)
               /\ Bytes(r) \subseteq BytesOf(B)
               /\ C \in SUBSET PageBlocks(n) /\ Coalesced(C)
               /\ BytesOf(C) = BytesOf(B) \ Bytes(r)
<1> DEFINE b == FirstFit(B, size, align)
           d == Delta(b, align)
           o == b.offset + d
           r == Block(o, size)
           head == Block(b.offset, o - b.offset)
           rest == Block(o + size, End(b) - o - size)
           C == Carve(B, size, align)
<1>1. b \in B /\ Fits(b, size, align)
  BY FirstFitExists
<1>2. /\ b = [offset |-> b.offset, size |-> b.size]
      /\ b.offset \in 0 .. n /\ b.size \in 0 .. n /\ b.offset + b.size <= n
  BY <1>1 DEF PageBlocks, End
<1>3. d \in Nat /\ o % align = 0
  BY <1>2, DeltaAligns
<1>4. b.size >= size + d
  BY <1>1 DEF Fits
<1>5. AllocOffset(B, size, align) = o
  BY DEF AllocOffset
<1>6. C = (B \ {b}) \cup {x \in {head, rest} : x.size > 0}
  BY DEF Carve
<1> HIDE DEF b, d, C
<1>7. o \in Nat /\ r \in PageBlocks(n) /\ Bytes(r) \subseteq Bytes(b)
  BY <1>2, <1>3, <1>4 DEF PageBlocks, Block, End, Bytes
<1>8. Bytes(r) \subseteq BytesOf(B)
  BY <1>1, <1>7 DEF BytesOf
<1>9. C \in SUBSET PageBlocks(n)
  <2>1. head.size > 0 => head \in PageBlocks(n)
    BY <1>2, <1>3, <1>4 DEF PageBlocks, Block, End
  <2>2. rest.size > 0 => rest \in PageBlocks(n)
    BY <1>2, <1>3, <1>4 DEF PageBlocks, Block, End
  <2> QED
    BY <1>6, <2>1, <2>2
<1>10. \A c \in B : c.offset \in Nat /\ c.size \in Nat /\ End(c) \in Nat
  BY DEF PageBlocks, End
<1>11. \A c \in B \ {b} : End(c) < b.offset \/ b.offset + b.size < c.offset
  BY <1>1 DEF Coalesced, End
<1>12. Coalesced(C)
  <2>1. \A c \in C : c.size > 0
    BY <1>6 DEF Coalesced
  <2>2. ASSUME NEW c \in C, NEW e \in C, c # e
        PROVE  End(c) < e.offset \/ End(e) < c.offset
    <3>1. CASE c \in B \ {b} /\ e \in B \ {b}
      BY <2>2, <3>1 DEF Coalesced
    <3>2. CASE c \in B \ {b} /\ e \in {head, rest} /\ e.size > 0
      BY <1>2, <1>3, <1>4, <1>10, <1>11, <3>2 DEF Block, End
    <3>3. CASE e \in B \ {b} /\ c \in {head, rest} /\ c.size > 0
      BY <1>2, <1>3, <1>4, <1>10, <1>11, <3>3 DEF Block, End
    <3>4. CASE c \in {head, rest} /\ e \in {head, rest}
      BY <1>2, <1>3, <1>4, <2>2, <3>4 DEF Block, End
    <3> QED
      BY <1>6, <2>2, <3>1, <3>2, <3>3, <3>4
  <2> QED
    BY <2>1, <2>2 DEF Coalesced
<1>13. \A k : k \in BytesOf(C) <=> k \in BytesOf(B) /\ k \notin Bytes(r)
  <2> TAKE k
  <2>1. k \in Bytes(r) <=> k \in o .. o + size - 1
    BY <1>2, <1>3, <1>7 DEF Bytes, Block, End
  <2>2. ASSUME k \in BytesOf(C)
        PROVE  k \in BytesOf(B) /\ k \notin Bytes(r)
    <3>1. PICK c \in C : k \in c.offset .. End(c) - 1
      BY <2>2, InBytesOf
    <3>2. CASE c \in B \ {b}
      <4>1. k \in BytesOf(B)
        BY <3>1, <3>2, InBytesOf
      <4>2. k \notin o .. o + size - 1
        BY <1>2, <1>3, <1>4, <1>10, <1>11, <3>1, <3>2
      <4> QED
        BY <2>1, <4>1, <4>2
    <3>3. CASE c \in {head, rest} /\ c.size > 0
      <4>1. k \in b.offset .. End(b) - 1 /\ k \notin o .. o + size - 1
        BY <1>2, <1>3, <1>4, <3>1, <3>3 DEF Block, End
      <4> QED
        BY <1>1, <2>1, <4>1, InBytesOf
    <3> QED
      BY <1>6, <3>1, <3>2, <3>3
  <2>3. ASSUME k \in BytesOf(B), k \notin Bytes(r)
        PROVE  k \in BytesOf(C)
    <3>1. PICK c \in B : k \in c.offset .. End(c) - 1
      BY <2>3, InBytesOf
    <3>2. CASE c # b
      BY <1>6, <3>1, <3>2, InBytesOf
    <3>3. CASE c = b /\ k < o
      <4>1. head.size > 0 /\ k \in head.offset .. End(head) - 1
        BY <1>2, <1>3, <3>1, <3>3 DEF Block, End
      <4>2. head \in C
        BY <1>6, <4>1
      <4> QED
        BY <4>1, <4>2, InBytesOf
    <3>4. CASE c = b /\ k >= o + size
      <4>1. rest.size > 0 /\ k \in rest.offset .. End(rest) - 1
        BY <1>2, <1>3, <3>1, <3>4 DEF Block, End
      <4>2. rest \in C
        BY <1>6, <4>1
      <4> QED
        BY <4>1, <4>2, InBytesOf
    <3> QED
      BY <1>2, <1>3, <2>1, <2>3, <3>1, <3>2, <3>3, <3>4 DEF End
  <2> QED
    BY <2>2, <2>3
<1> QED
  BY <1>3, <1>5, <1>7, <1>8, <1>9, <1>12, <1>13 DEF C

-----------------------------------------------------------------------------
(* Returning an allocation to the list                                     *)

(* internal_free on a coalesced list, for a block none of whose bytes is   *)
(* free: exactly its bytes join the list, and it stays coalesced.          *)
LEMMA ReleaseCorrect ==
    ASSUME NEW n \in Nat, NEW B \in SUBSET PageBlocks(n), Coalesced(B),
           NEW r \in PageBlocks(n), r.size > 0,
           Bytes(r) \cap BytesOf(B) = {}
    PROVE  LET C == Release(B, r)
           IN  /\ C \in SUBSET PageBlocks(n) /\ Coalesced(C)
               /\ BytesOf(C) = BytesOf(B) \cup Bytes(r)
<1> DEFINE P == Pred(B, r)
           N == Succ(B, r)
           lo == IF P = {} THEN r.offset ELSE (CHOOSE b \in P : TRUE).offset
           hi == IF N = {} THEN End(r) ELSE End(CHOOSE b \in N : TRUE)
           m == Block(lo, hi - lo)
           C == Release(B, r)
<1>1. C = (B \ (P \cup N)) \cup {m}
  BY DEF Release
<1>2. /\ r = [offset |-> r.offset, size |-> r.size]
      /\ r.offset \in Nat /\ r.size \in Nat /\ End(r) \in Nat /\ End(r) <= n
      /\ End(r) = r.offset + r.size
  BY DEF PageBlocks, End
<1>3. \A c \in B : /\ c.offset \in Nat /\ c.size \in Nat /\ End(c) \in Nat
                   /\ End(c) = c.offset + c.size /\ End(c) <= n /\ c.size > 0
  BY DEF PageBlocks, End, Coalesced
<1>4. \A c \in B : End(c) <= r.offset \/ End(r) <= c.offset
  <2> TAKE c \in B
  <2> SUFFICES ASSUME End(c) > r.offset, End(r) > c.offset
               PROVE  FALSE
    BY <1>2, <1>3
  <2>1. PICK k \in {r.offset, c.offset} : k >= r.offset /\ k >= c.offset
    BY <1>2, <1>3
  <2>2. k \in c.offset .. End(c) - 1 /\ k \in r.offset .. End(r) - 1
    BY <1>2, <1>3, <2>1
  <2> QED
    BY <2>2, InBytesOf DEF Bytes
<1>5. \/ P = {} /\ lo = r.offset
      \/ \E p \in B : P = {p} /\ End(p) = r.offset /\ lo = p.offset
  <2>1. CASE P # {}
    <3> DEFINE p == CHOOSE b \in P : TRUE
    <3>1. p \in P /\ lo = p.offset
      BY <2>1
    <3>2. p \in B /\ End(p) = r.offset
      BY <3>1 DEF Pred
    <3>3. \A c \in P : c = p
      BY <1>3, <3>2 DEF Pred, Coalesced
    <3> QED
      BY <3>1, <3>2, <3>3
  <2> QED
    BY <2>1
<1>6. \/ N = {} /\ hi = End(r)
      \/ \E s \in B : N = {s} /\ s.offset = End(r) /\ hi = End(s)
  <2>1. CASE N # {}
    <3> DEFINE s == CHOOSE b \in N : TRUE
    <3>1. s \in N /\ hi = End(s)
      BY <2>1
    <3>2. s \in B /\ s.offset = End(r)
      BY <3>1 DEF Succ
    <3>3. \A c \in N : c = s
      BY <1>3, <3>2 DEF Succ, Coalesced
    <3> QED
      BY <3>1, <3>2, <3>3
  <2> QED
    BY <2>1
<1>7. /\ lo \in Nat /\ hi \in Nat /\ hi <= n
      /\ lo <= r.offset /\ End(r) <= hi
  BY <1>2, <1>3, <1>5, <1>6
<1>8. /\ m.offset = lo /\ End(m) = hi /\ m.size > 0
      /\ m \in PageBlocks(n)
  BY <1>2, <1>7 DEF Block, End, PageBlocks
<1>9. \A c \in B \ (P \cup N) : End(c) < lo \/ hi < c.offset
  <2> TAKE c \in B \ (P \cup N)
  <2>1. End(c) # r.offset /\ c.offset # End(r)
    BY DEF Pred, Succ
  <2>2. End(c) < r.offset \/ End(r) < c.offset
    BY <1>2, <1>3, <1>4, <2>1
  <2>3. \A e \in P \cup N : End(c) < e.offset \/ End(e) < c.offset
    <3>1. \A e \in P \cup N : e \in B /\ e # c
      BY DEF Pred, Succ
    <3> QED
      BY <3>1 DEF Coalesced
  <2> QED
    BY <1>2, <1>3, <1>5, <1>6, <2>2, <2>3
<1>10. C \in SUBSET PageBlocks(n)
  BY <1>1, <1>8
<1> HIDE DEF lo, hi, m, C, P, N
<1>11. Coalesced(C)
  <2>1. \A c \in C : c.size > 0
    BY <1>1, <1>3, <1>8
  <2>2. ASSUME NEW c \in C, NEW e \in C, c # e
        PROVE  End(c) < e.offset \/ End(e) < c.offset
    <3>1. CASE c \in B /\ e \in B
      BY <2>2, <3>1 DEF Coalesced
    <3>2. CASE c = m \/ e = m
      BY <1>1, <1>8, <1>9, <2>2, <3>2
    <3> QED
      BY <1>1, <2>2, <3>1, <3>2
  <2> QED
    BY <2>1, <2>2 DEF Coalesced
<1>12. \A k : k \in BytesOf(C) <=> k \in BytesOf(B) \/ k \in Bytes(r)
  <2> TAKE k
  <2>1. k \in Bytes(r) <=> k \in r.offset .. End(r) - 1
    BY DEF Bytes
  <2>2. k \in lo .. hi - 1 <=>
           k \in Bytes(r) \/ \E c \in P \cup N : k \in c.offset .. End(c) - 1
    <3>1. \A c \in P \cup N : c \in B
      BY DEF P, N, Pred, Succ
    <3> QED
      BY <1>2, <1>3, <1>5, <1>6, <1>7, <2>1, <3>1
  <2>3. k \in BytesOf(C) <=>
           \/ \E c \in B \ (P \cup N) : k \in c.offset .. End(c) - 1
           \/ k \in lo .. hi - 1
    BY <1>1, <1>8, InBytesOf
  <2>4. k \in BytesOf(B) <=>
           \/ \E c \in B \ (P \cup N) : k \in c.offset .. End(c) - 1
           \/ \E c \in P \cup N : k \in c.offset .. End(c) - 1
    <3>1. \A c \in P \cup N : c \in B
      BY DEF P, N, Pred, Succ
    <3> QED
      BY <3>1, InBytesOf
  <2> QED
    BY <2>2, <2>3, <2>4
<1> QED
  BY <1>10, <1>11, <1>12 DEF C

-----------------------------------------------------------------------------
(* Bytes and runs of bytes                                                 *)

(* A block of a page covers as many bytes as its size says, all in it.     *)
LEMMA BytesCount ==
    ASSUME NEW n \in Nat, NEW r \in PageBlocks(n)
    PROVE  /\ IsFiniteSet(Bytes(r)) /\ Cardinality(Bytes(r)) = r.size
           /\ Bytes(r) \subseteq 0 .. n - 1
<1>1. /\ r.offset \in Int /\ End(r) - 1 \in Int /\ r.size >= 0 /\ r.offset >= 0
      /\ End(r) = r.offset + r.size /\ End(r) <= n /\ r.size \in Nat
  BY DEF PageBlocks, End
<1>2. IsFiniteSet(Bytes(r)) /\ Cardinality(Bytes(r)) =
         IF r.offset > End(r) - 1 THEN 0 ELSE (End(r) - 1) - r.offset + 1
  BY <1>1, FS_Interval DEF Bytes
<1> QED
  BY <1>1, <1>2 DEF Bytes

(* The bytes of a list of blocks of a page are finitely many bytes of it.  *)
LEMMA BytesOfFinite ==
    ASSUME NEW n \in Nat, NEW B \in SUBSET PageBlocks(n)
    PROVE  /\ BytesOf(B) \subseteq 0 .. n - 1
           /\ IsFiniteSet(BytesOf(B)) /\ Cardinality(BytesOf(B)) \in Nat
           /\ IsFiniteSet(0 .. n - 1) /\ Cardinality(0 .. n - 1) = n
<1>1. BytesOf(B) \subseteq 0 .. n - 1
  BY BytesCount DEF BytesOf
<1>2. IsFiniteSet(0 .. n - 1) /\ Cardinality(0 .. n - 1) = n
  <2>1. 0 \in Int /\ n - 1 \in Int
    OBVIOUS
  <2>2. /\ IsFiniteSet(0 .. n - 1)
        /\ Cardinality(0 .. n - 1) = IF 0 > n - 1 THEN 0 ELSE (n - 1) - 0 + 1
    BY <2>1, FS_Interval
  <2> QED
    BY <2>2
<1> QED
  BY <1>1, <1>2, FS_Subset, FS_CardinalityType

(* A run of free bytes lies within one block of a coalesced list.          *)
LEMMA RunInBlock ==
    ASSUME NEW n \in Nat, NEW B \in SUBSET PageBlocks(n), Coalesced(B),
           NEW p \in Nat, NEW size \in Nat \ {0},
           Bytes(Block(p, size)) \subseteq BytesOf(B)
    PROVE  \E c \in B : c.offset <= p /\ p + size <= End(c)
<1>1. \A k \in Int : p <= k /\ k < p + size => \E c \in B : k \in c.offset .. End(c) - 1
  BY InBytesOf DEF Bytes, Block, End
<1>2. PICK c \in B : p \in c.offset .. End(c) - 1
  BY <1>1
<1>3. \A e \in B : e.offset \in Nat /\ End(e) \in Nat
  BY DEF PageBlocks, End
<1>4. ASSUME End(c) < p + size
      PROVE  FALSE
  <2>1. PICK e \in B : End(c) \in e.offset .. End(e) - 1
    BY <1>1, <1>2, <1>3, <1>4
  <2>2. e # c /\ ~(End(c) < e.offset) /\ ~(End(e) < c.offset)
    BY <1>2, <1>3, <2>1
  <2> QED
    BY <2>2 DEF Coalesced
<1> QED
  BY <1>2, <1>3, <1>4

(* The aligned run starts no earlier than the block's first aligned        *)
(* offset, so the block fits the request.                                  *)
LEMMA HoleFits ==
    ASSUME NEW n \in Nat, NEW B \in SUBSET PageBlocks(n), Coalesced(B),
           NEW p \in Nat, NEW size \in Nat \ {0}, NEW align \in Nat \ {0},
           p % align = 0, Bytes(Block(p, size)) \subseteq BytesOf(B)
    PROVE  /\ FitsIn(B, size, align) # {}
           /\ AllocOffset(B, size, align) <= p
<1>1. PICK c \in B : c.offset <= p /\ p + size <= End(c)
  BY RunInBlock
<1>2. /\ c.offset \in Nat /\ c.size \in Nat /\ End(c) = c.offset + c.size
      /\ Delta(c, align) \in Nat /\ p >= c.offset + Delta(c, align)
  <2>1. c.offset \in Nat /\ c.size \in Nat /\ End(c) = c.offset + c.size
    BY DEF PageBlocks, End
  <2> QED
    BY <1>1, <2>1, DeltaAligns
<1>3. Fits(c, size, align)
  BY <1>1, <1>2 DEF Fits
<1>4. c \in FitsIn(B, size, align)
  BY <1>3 DEF FitsIn
<1> DEFINE b == FirstFit(B, size, align)
<1>5. b \in B /\ Fits(b, size, align) /\ b.offset <= c.offset
  BY <1>4, FirstFitExists
<1>6. AllocOffset(B, size, align) = b.offset + Delta(b, align)
  BY <1>4 DEF AllocOffset
<1> HIDE DEF b
<1>7. CASE b = c
  BY <1>2, <1>4, <1>6, <1>7
<1>8. CASE b # c
  <2>1. /\ b.offset \in Nat /\ b.size \in Nat /\ End(b) = b.offset + b.size
        /\ Delta(b, align) \in Nat
    <3>1. b.offset \in Nat /\ b.size \in Nat /\ End(b) = b.offset + b.size
      BY <1>5 DEF PageBlocks, End
    <3> QED
      BY <3>1, DeltaAligns
  <2>2. b.size >= size + Delta(b, align)
    BY <1>5 DEF Fits
  <2>3. End(b) < c.offset
    BY <1>1, <1>2, <1>5, <1>8, <2>1 DEF Coalesced
  <2> QED
    BY <1>1, <1>2, <1>4, <1>6, <2>1, <2>2, <2>3
<1> QED
  BY <1>7, <1>8

(* When only r is not free, a coalesced list has one of the three shapes   *)
(* of validate_is_last_free.                                               *)
LEMMA LastFreeShape ==
    ASSUME NEW n \in Nat, NEW B \in SUBSET PageBlocks(n), Coalesced(B),
           NEW r \in PageBlocks(n), r.size \in 1 .. n - 1,
           BytesOf(B) = (0 .. n - 1) \ Bytes(r)
    PROVE  IsLastFree(B, r, n)
<1>1. /\ r.offset \in Nat /\ End(r) \in Nat /\ End(r) <= n
      /\ r.size \in Nat /\ End(r) = r.offset + r.size /\ r.offset < End(r)
  BY DEF PageBlocks, End
<1>2. \A c \in B : /\ c = Block(c.offset, End(c) - c.offset)
                   /\ c.offset \in Nat /\ End(c) \in Nat /\ End(c) <= n
                   /\ c.offset < End(c)
  BY DEF PageBlocks, End, Block, Coalesced
<1>3. \A k \in 0 .. n - 1 : (k < r.offset \/ End(r) <= k)
          <=> \E c \in B : c.offset <= k /\ k < End(c)
  <2> TAKE k \in 0 .. n - 1
  <2>1. k \in BytesOf(B) <=> k < r.offset \/ End(r) <= k
    BY <1>1 DEF Bytes
  <2>2. k \in BytesOf(B) <=> \E c \in B : k \in c.offset .. End(c) - 1
    BY InBytesOf
  <2> QED
    BY <1>2, <2>1, <2>2
<1>4. \A c, e \in B : c # e => End(c) < e.offset \/ End(e) < c.offset
  BY DEF Coalesced
<1>5. \A c \in B : End(c) <= r.offset \/ End(r) <= c.offset
  <2> SUFFICES ASSUME NEW c \in B, r.offset < End(c), c.offset < End(r)
               PROVE  FALSE
    BY <1>1, <1>2
  <2>1. PICK k \in {c.offset, r.offset} : k >= c.offset /\ k >= r.offset
    BY <1>1, <1>2
  <2>2. k \in 0 .. n - 1 /\ k < End(c) /\ k < End(r)
    BY <1>1, <1>2, <2>1
  <2> QED
    BY <1>1, <1>3, <2>1, <2>2
<1>6. \A c \in B : c.offset = 0 \/ c.offset = End(r)
  <2> SUFFICES ASSUME NEW c \in B, c.offset # 0, c.offset # End(r)
               PROVE  FALSE
    OBVIOUS
  <2> DEFINE k == c.offset - 1
  <2>1. k \in 0 .. n - 1 /\ (k < r.offset \/ End(r) <= k)
    BY <1>1, <1>2, <1>5
  <2>2. PICK e \in B : e.offset <= k /\ k < End(e)
    BY <1>3, <2>1
  <2> QED
    BY <1>2, <1>4, <2>2
<1>7. \A c \in B : End(c) = r.offset \/ End(c) = n
  <2> SUFFICES ASSUME NEW c \in B, End(c) # r.offset, End(c) # n
               PROVE  FALSE
    OBVIOUS
  <2>1. End(c) \in 0 .. n - 1 /\ (End(c) < r.offset \/ End(r) <= End(c))
    BY <1>1, <1>2, <1>5
  <2>2. PICK e \in B : e.offset <= End(c) /\ End(c) < End(e)
    BY <1>3, <2>1
  <2> QED
    BY <1>2, <1>4, <2>2
<1> DEFINE front == Block(0, r.offset)
           back == Block(End(r), n - End(r))
<1>8. \A c \in B : \/ c = front /\ r.offset > 0
                   \/ c = back /\ End(r) < n
  BY <1>1, <1>2, <1>5, <1>6, <1>7
<1>9. r.offset > 0 => front \in B
  <2> HAVE r.offset > 0
  <2>1. PICK c \in B : c.offset <= 0 /\ 0 < End(c)
    BY <1>1, <1>3
  <2> QED
    BY <1>1, <1>2, <1>5, <1>8, <2>1 DEF Block, End
<1>10. End(r) < n => back \in B
  <2> HAVE End(r) < n
  <2>1. PICK c \in B : c.offset <= End(r) /\ End(r) < End(c)
    BY <1>1, <1>3
  <2> QED
    BY <1>1, <1>2, <1>5, <1>8, <2>1 DEF Block, End
<1>11. r.offset > 0 \/ End(r) < n
  BY <1>1
<1> QED
  <2>1. CASE r.offset > 0 /\ End(r) < n
    <3>1. B = {front, back}
      BY <1>8, <1>9, <1>10, <2>1
    <3> QED
      BY <3>1 DEF IsLastFree
  <2>2. CASE r.offset > 0 /\ End(r) = n
    <3>1. B = {front}
      BY <1>8, <1>9, <2>2
    <3> QED
      BY <3>1, <2>2 DEF IsLastFree
  <2>3. CASE r.offset = 0 /\ End(r) < n
    <3>1. B = {back}
      BY <1>8, <1>10, <2>3
    <3> QED
      BY <3>1, <2>3 DEF IsLastFree
  <2> QED
    BY <1>1, <1>11, <2>1, <2>2, <2>3

-----------------------------------------------------------------------------
(* A whole page: its free list, its live blocks and m_sum_free_size        *)

\* What holds of a page of n bytes between two calls.
GoodPage(n, F, L, s) ==
    /\ F \in SUBSET PageBlocks(n) /\ L \in SUBSET PageBlocks(n) /\ s \in 0 .. n
    /\ \A b \in L : b.size \in 1 .. n - 1
    /\ \A b, c \in L : b # c => Bytes(b) \cap Bytes(c) = {}
    /\ BytesOf(F) \cap BytesOf(L) = {}
    /\ BytesOf(F) \cup BytesOf(L) = 0 .. n - 1
    /\ Coalesced(F)
    /\ Cardinality(BytesOf(F)) = s

(* init_on_free_page_list makes one free block of the page.                *)
LEMMA FreshPage ==
    ASSUME NEW n \in Nat \ {0}
    PROVE  GoodPage(n, {Block(0, n)}, {}, n)
<1>1. {Block(0, n)} \in SUBSET PageBlocks(n) /\ Coalesced({Block(0, n)})
  BY DEF Block, PageBlocks, End, Coalesced
<1>2. BytesOf({Block(0, n)}) = 0 .. n - 1 /\ BytesOf({}) = {}
  BY DEF BytesOf, Bytes, Block, End
<1>3. Cardinality(0 .. n - 1) = n
  BY <1>1, BytesOfFinite
<1>4. {} \in SUBSET PageBlocks(n) /\ n \in 0 .. n
  OBVIOUS
<1> DEFINE F == {Block(0, n)}
           W == 0 .. n - 1
<1> HIDE DEF F, W
<1>5. /\ F \in SUBSET PageBlocks(n) /\ Coalesced(F) /\ BytesOf(F) = W
      /\ BytesOf({}) = {} /\ Cardinality(W) = n
  BY <1>1, <1>2, <1>3 DEF F, W
<1>6. GoodPage(n, F, {}, n)
  BY <1>4, <1>5 DEF GoodPage, W
<1> QED
  BY <1>6 DEF F

(* slob_page::alloc moves the bytes of an aligned block from the free list *)
(* to the live blocks.                                                     *)
LEMMA AllocKeepsGood ==
    ASSUME NEW n \in Nat \ {0}, NEW F, NEW L, NEW s, GoodPage(n, F, L, s),
           NEW size \in 1 .. n - 1, NEW align \in Nat \ {0}, FitsIn(F, size, align) # {}
    PROVE  LET o == AllocOffset(F, size, align)
               r == Block(o, size)
           IN  /\ GoodPage(n, Carve(F, size, align), L \cup {r}, s - size)
               /\ o \in 0 .. n /\ o % align = 0 /\ End(r) <= n
               /\ Bytes(r) \cap BytesOf(L) = {}
               /\ r \notin L
<1> DEFINE o == AllocOffset(F, size, align)
           r == Block(o, size)
           C == Carve(F, size, align)
<1>1. /\ size \in Nat \ {0} /\ n \in Nat /\ s \in 0 .. n
      /\ F \in SUBSET PageBlocks(n) /\ Coalesced(F) /\ L \in SUBSET PageBlocks(n)
  BY DEF GoodPage
<1>2. /\ o \in Nat /\ o % align = 0 /\ r \in PageBlocks(n)
      /\ Bytes(r) \subseteq BytesOf(F)
      /\ C \in SUBSET PageBlocks(n) /\ Coalesced(C)
      /\ BytesOf(C) = BytesOf(F) \ Bytes(r)
  BY <1>1, CarveCorrect
<1> HIDE DEF o, C
<1>3. r.size = size /\ r.offset = o /\ End(r) = o + size /\ End(r) <= n /\ o <= n
  BY <1>1, <1>2 DEF Block, PageBlocks, End
<1> HIDE DEF r
<1>4. Bytes(r) \cap BytesOf(L) = {}
  BY <1>2 DEF GoodPage
<1>5. BytesOf(L \cup {r}) = BytesOf(L) \cup Bytes(r)
  BY DEF BytesOf
<1>6. s - size \in 0 .. n /\ Cardinality(BytesOf(C)) = s - size
  <2>1. /\ IsFiniteSet(BytesOf(F)) /\ Cardinality(BytesOf(F)) = s
        /\ IsFiniteSet(BytesOf(C)) /\ Cardinality(BytesOf(C)) \in Nat
    BY <1>1, <1>2, BytesOfFinite DEF GoodPage
  <2>2. Cardinality(Bytes(r)) = size
    BY <1>1, <1>2, <1>3, BytesCount
  <2>3. BytesOf(F) \cap Bytes(r) = Bytes(r)
    BY <1>2
  <2>4. Cardinality(BytesOf(C)) = Cardinality(BytesOf(F)) - Cardinality(Bytes(r))
    BY <1>2, <2>1, <2>3, FS_Difference
  <2> QED
    BY <1>1, <2>1, <2>2, <2>4
<1>7. \A b \in L : Bytes(b) \cap Bytes(r) = {}
  BY <1>4 DEF BytesOf
<1>8. r \notin L
  <2>1. o \in Bytes(r)
    BY <1>1, <1>2, <1>3 DEF Bytes
  <2> QED
    BY <1>7, <2>1
<1>9. GoodPage(n, C, L \cup {r}, s - size)
  <2>1. \A b, c \in L \cup {r} : b # c => Bytes(b) \cap Bytes(c) = {}
    BY <1>7 DEF GoodPage
  <2>2. BytesOf(C) \cap BytesOf(L \cup {r}) = {}
    BY <1>2, <1>4, <1>5 DEF GoodPage
  <2>3. BytesOf(C) \cup BytesOf(L \cup {r}) = 0 .. n - 1
    BY <1>2, <1>5 DEF GoodPage
  <2>4. \A b \in L \cup {r} : b \in PageBlocks(n) /\ b.size \in 1 .. n - 1
    BY <1>2, <1>3 DEF GoodPage
  <2> QED
    BY <1>2, <1>6, <2>1, <2>2, <2>3, <2>4 DEF GoodPage
<1> QED
  BY <1>2, <1>3, <1>4, <1>8, <1>9 DEF o, r, C

(* The bytes of the other live blocks when one of them goes.               *)
LEMMA BytesWithout ==
    ASSUME NEW n \in Nat \ {0}, NEW F, NEW L, NEW s, GoodPage(n, F, L, s), NEW b \in L
    PROVE  /\ BytesOf(L \ {b}) = BytesOf(L) \ Bytes(b)
           /\ Bytes(b) \subseteq BytesOf(L)
           /\ Bytes(b) \cap BytesOf(F) = {}
<1>1. \A c \in L : c # b => Bytes(c) \cap Bytes(b) = {}
  BY DEF GoodPage
<1> QED
  BY <1>1 DEF BytesOf, GoodPage

(* slob_page::free gives the bytes back to the free list.                  *)
LEMMA FreeKeepsGood ==
    ASSUME NEW n \in Nat \ {0}, NEW F, NEW L, NEW s, GoodPage(n, F, L, s),
           NEW b \in L, s + b.size < n
    PROVE  GoodPage(n, Release(F, b), L \ {b}, s + b.size)
<1> DEFINE C == Release(F, b)
<1>1. /\ n \in Nat /\ F \in SUBSET PageBlocks(n) /\ Coalesced(F) /\ L \in SUBSET PageBlocks(n)
      /\ b \in PageBlocks(n) /\ b.size \in Nat /\ b.size > 0
      /\ s \in 0 .. n /\ Cardinality(BytesOf(F)) = s
  BY DEF GoodPage
<1>2. /\ BytesOf(L \ {b}) = BytesOf(L) \ Bytes(b) /\ Bytes(b) \subseteq BytesOf(L)
      /\ Bytes(b) \cap BytesOf(F) = {}
  BY BytesWithout
<1>3. /\ C \in SUBSET PageBlocks(n) /\ Coalesced(C)
      /\ BytesOf(C) = BytesOf(F) \cup Bytes(b)
  BY <1>1, <1>2, ReleaseCorrect
<1> HIDE DEF C
<1>4. Cardinality(BytesOf(C)) = s + b.size
  <2>1. IsFiniteSet(BytesOf(F)) /\ IsFiniteSet(Bytes(b)) /\ Cardinality(Bytes(b)) = b.size
    BY <1>1, BytesOfFinite, BytesCount
  <2>2. BytesOf(F) \cap Bytes(b) = {} /\ Cardinality({}) = 0
    BY <1>2, FS_EmptySet
  <2>3. Cardinality(BytesOf(C)) =
           Cardinality(BytesOf(F)) + Cardinality(Bytes(b)) - Cardinality({})
    BY <1>3, <2>1, <2>2, FS_Union
  <2> QED
    BY <1>1, <2>1, <2>2, <2>3
<1>5. BytesOf(C) \cap BytesOf(L \ {b}) = {} /\ BytesOf(C) \cup BytesOf(L \ {b}) = 0 .. n - 1
  BY <1>2, <1>3 DEF GoodPage
<1>6. /\ L \ {b} \in SUBSET PageBlocks(n) /\ \A c \in L \ {b} : c.size \in 1 .. n - 1
      /\ \A c, d \in L \ {b} : c # d => Bytes(c) \cap Bytes(d) = {}
  BY DEF GoodPage
<1>7. s + b.size \in 0 .. n
  BY <1>1
<1>8. GoodPage(n, C, L \ {b}, s + b.size)
  BY <1>3, <1>4, <1>5, <1>6, <1>7 DEF GoodPage
<1> QED
  BY <1>8 DEF C

(* The free bytes and a live block make up the page exactly when the block *)
(* is the only live one; the list then has the shape that                  *)
(* validate_is_last_free asserts.                                          *)
LEMMA LastIsAlone ==
    ASSUME NEW n \in Nat \ {0}, NEW F, NEW L, NEW s, GoodPage(n, F, L, s), NEW b \in L
    PROVE  /\ s + b.size >= n <=> L = {b}
           /\ L = {b} => IsLastFree(F, b, n)
<1> DEFINE A == BytesOf(F)
           W == 0 .. n - 1
<1>1. /\ n \in Nat /\ F \in SUBSET PageBlocks(n) /\ Coalesced(F) /\ b \in PageBlocks(n)
      /\ b.size \in 1 .. n - 1 /\ s \in 0 .. n /\ Cardinality(A) = s
  BY DEF GoodPage
<1>2. A \cap Bytes(b) = {}
  BY BytesWithout
<1>3. /\ IsFiniteSet(A) /\ A \subseteq W /\ IsFiniteSet(W) /\ Cardinality(W) = n
      /\ IsFiniteSet(Bytes(b)) /\ Cardinality(Bytes(b)) = b.size /\ Bytes(b) \subseteq W
  BY <1>1, BytesOfFinite, BytesCount
<1>4. Cardinality(A \cup Bytes(b)) = s + b.size
  <2>1. Cardinality(A \cup Bytes(b)) = Cardinality(A) + Cardinality(Bytes(b)) - Cardinality({})
    BY <1>2, <1>3, FS_Union
  <2> QED
    BY <1>1, <1>3, <2>1, FS_EmptySet
<1>5. ASSUME s + b.size >= n
      PROVE  L = {b}
  <2>1. A \cup Bytes(b) = W
    <3>1. A \cup Bytes(b) \in SUBSET W
      BY <1>3
    <3>2. /\ Cardinality(A \cup Bytes(b)) <= Cardinality(W)
          /\ Cardinality(W) = Cardinality(A \cup Bytes(b)) => W = A \cup Bytes(b)
      BY <1>3, <3>1, FS_Subset
    <3> QED
      BY <1>1, <1>3, <1>4, <1>5, <3>2
  <2>2. ASSUME NEW c \in L, c # b
        PROVE  FALSE
    <3>1. c.offset \in Bytes(c)
      BY <2>2 DEF GoodPage, PageBlocks, Bytes, End
    <3>2. c.offset \in BytesOf(L)
      BY <2>2, <3>1 DEF BytesOf
    <3>3. c.offset \in A \cup Bytes(b) /\ c.offset \notin A
      BY <2>1, <3>2 DEF GoodPage
    <3> QED
      BY <2>2, <3>1, <3>3 DEF GoodPage
  <2> QED
    BY <2>2
<1>6. ASSUME L = {b}
      PROVE  s + b.size >= n /\ IsLastFree(F, b, n)
  <2>1. BytesOf(L) = Bytes(b)
    BY <1>6 DEF BytesOf
  <2>2. A = W \ Bytes(b) /\ A \cup Bytes(b) = W
    BY <1>2, <2>1 DEF GoodPage
  <2>3. s + b.size = n
    BY <1>3, <1>4, <2>2
  <2> QED
    BY <1>1, <2>2, <2>3, LastFreeShape
<1> QED
  BY <1>5, <1>6

(* m_sum_free_size is 0 exactly when the free list is empty.               *)
LEMMA FullPage ==
    ASSUME NEW n \in Nat \ {0}, NEW F, NEW L, NEW s, GoodPage(n, F, L, s)
    PROVE  s = 0 <=> F = {}
<1>1. F \in SUBSET PageBlocks(n) /\ Coalesced(F) /\ Cardinality(BytesOf(F)) = s
  BY DEF GoodPage
<1>2. IsFiniteSet(BytesOf(F))
  BY <1>1, BytesOfFinite
<1>3. s = 0 <=> BytesOf(F) = {}
  BY <1>1, <1>2, FS_EmptySet
<1>4. \A b \in F : b.offset \in Bytes(b)
  BY <1>1 DEF Coalesced, PageBlocks, Bytes, End
<1> QED
  BY <1>3, <1>4 DEF BytesOf

-----------------------------------------------------------------------------
\* The page

(* The inductive invariant: the page is good, its list coalesced and       *)
(* counted.  Partition alone is not inductive: a free coalesces blocks     *)
(* rightly only on a list that is already coalesced.                       *)
PageInv ==
    /\ GoodPage(PageSize, pageFree, pageLive, pageSum)
    /\ last \in [size : Nat, align : Nat, offset : {Poison} \cup 0 .. PageSize]

-----------------------------------------------------------------------------

(* What the assumptions say of the constants.                              *)
LEMMA PageConstants ==
    /\ PageSize \in Nat \ {0}
    /\ \A size \in Sizes : size \in Nat \ {0} /\ size \in 1 .. PageSize - 1
    /\ \A align \in Aligns : align \in Nat \ {0}
BY SlobBlocksAssumption

(* A fresh page is one free block.                                         *)
LEMMA PageInitInv == PageInit => PageInv
<1> SUFFICES ASSUME PageInit
             PROVE  PageInv
  OBVIOUS
<1>1. GoodPage(PageSize, pageFree, pageLive, pageSum)
  BY PageConstants, FreshPage DEF PageInit
<1>2. last \in [size : Nat, align : Nat, offset : {Poison} \cup 0 .. PageSize]
  BY DEF PageInit, NoCall
<1> QED
  BY <1>1, <1>2 DEF PageInv

(* Every operation of slob_page keeps the invariant.                       *)
LEMMA PageNextInv == PageInv /\ [PageNext]_pageVars => PageInv'
<1> SUFFICES ASSUME PageInv, [PageNext]_pageVars
             PROVE  PageInv'
  OBVIOUS
<1> USE PageConstants
<1>1. ASSUME NEW size \in Sizes, NEW align \in Aligns, Alloc(size, align)
      PROVE  PageInv'
  <2> DEFINE o == AllocOffset(pageFree, size, align)
  <2>1. /\ GoodPage(PageSize, Carve(pageFree, size, align), pageLive \cup {Block(o, size)}, pageSum - size)
        /\ o \in 0 .. PageSize
    BY <1>1, AllocKeepsGood DEF PageInv, Alloc
  <2>2. last' = [size |-> size, align |-> align, offset |-> o]
    BY <1>1 DEF Alloc
  <2>3. GoodPage(PageSize, pageFree, pageLive, pageSum)'
    BY <1>1, <2>1 DEF Alloc
  <2> QED
    BY <2>1, <2>2, <2>3 DEF PageInv
<1>2. ASSUME NEW size \in Sizes, NEW align \in Aligns, AllocFails(size, align)
      PROVE  PageInv'
  BY <1>2 DEF AllocFails, PageInv
<1>3. ASSUME NEW b \in pageLive, FreeBlock(b)
      PROVE  PageInv'
  <2>1. GoodPage(PageSize, Release(pageFree, b), pageLive \ {b}, pageSum + b.size)
    BY <1>3, FreeKeepsGood DEF PageInv, FreeBlock
  <2> QED
    BY <1>3, <2>1 DEF PageInv, FreeBlock
<1>4. ASSUME NEW b \in pageLive, DestroyPage(b)
      PROVE  PageInv'
  <2>1. pageLive = {b}
    BY <1>4, LastIsAlone DEF PageInv, DestroyPage
  <2>2. pageLive' = {} /\ pageFree' = {Block(0, PageSize)} /\ pageSum' = PageSize /\ last' = last
    BY <1>4, <2>1 DEF DestroyPage
  <2> QED
    BY <2>2, FreshPage DEF PageInv
<1>5. CASE UNCHANGED pageVars
  BY <1>5 DEF pageVars, PageInv
<1> QED
  BY <1>1, <1>2, <1>3, <1>4, <1>5 DEF PageNext

(* The inductive invariant holds in every reachable state.                 *)
THEOREM PageInductive == PageSpec => []PageInv
<1> QED
  BY PageInitInv, PageNextInv, PTL DEF PageSpec

(* The fields of slob_page always hold values of their types.              *)
THEOREM TypeCorrect == PageSpec => []PageTypeOK
<1>1. PageInv => PageTypeOK
  BY DEF PageInv, GoodPage, PageTypeOK
<1> QED
  BY <1>1, PageInductive, PTL

(* internal_alloc never hands out a byte a client holds, and no byte of a  *)
(* page is ever lost: each is free or live, not both.                      *)
THEOREM PagePartitioned == PageSpec => [](NoOverlap /\ Partition)
<1>1. PageInv => NoOverlap /\ Partition
  BY DEF PageInv, GoodPage, NoOverlap, Partition
<1> QED
  BY <1>1, PageInductive, PTL

(* validate_free_block_list never fails.                                   *)
THEOREM FreeListValid == PageSpec => []ValidFreeBlockList
<1>1. PageInv => ValidFreeBlockList
  BY DEF PageInv, GoodPage, ValidFreeBlockList
<1> QED
  BY <1>1, PageInductive, PTL

(* validate_is_last_free never fails: a page is destroyed only for the     *)
(* last allocation that lives in it.                                       *)
THEOREM DestroyedWhenLast == PageSpec => []DestroyOnlyLast
<1>1. PageInv => DestroyOnlyLast
  BY PageConstants, LastIsAlone DEF PageInv, DestroyOnlyLast
<1> QED
  BY <1>1, PageInductive, PTL

-----------------------------------------------------------------------------
(* The free list implements the page without one                           *)

(* The instance of PageMemory speaks of the same blocks as SlobPage.       *)
LEMMA SamePageBlocks ==
    /\ Memory!Poison = Poison
    /\ \A o, size : Memory!Block(o, size) = Block(o, size)
    /\ \A b : Memory!Bytes(b) = Bytes(b)
    /\ \A B : Memory!BytesOf(B) = BytesOf(B)
BY DEF Memory!Poison, Memory!Block, Memory!Bytes, Memory!BytesOf, Memory!End,
       Poison, Block, Bytes, BytesOf, End

(* A hole of the page is a run of free bytes, aligned.                     *)
LEMMA HolesAreFree ==
    ASSUME PageInv, NEW size \in Sizes, NEW align \in Aligns,
           NEW p \in Memory!Holes(size, align)
    PROVE  /\ p \in Nat /\ p % align = 0
           /\ Bytes(Block(p, size)) \subseteq BytesOf(pageFree)
<1>1. PageSize \in Nat /\ size \in Nat \ {0}
  BY PageConstants
<1>2. /\ p \in 0 .. PageSize - size /\ p % align = 0
      /\ Bytes(Block(p, size)) \cap BytesOf(pageLive) = {}
  BY SamePageBlocks DEF Memory!Holes
<1>3. Bytes(Block(p, size)) \subseteq 0 .. PageSize - 1
  BY <1>1, <1>2 DEF Bytes, Block, End
<1> QED
  BY <1>1, <1>2, <1>3 DEF PageInv, GoodPage

(* First fit is the lowest aligned hole.                                   *)
LEMMA AllocRefines ==
    ASSUME PageInv, NEW size \in Sizes, NEW align \in Aligns, Alloc(size, align)
    PROVE  \E o \in Memory!Holes(size, align) : Memory!AllocAt(size, align, o)
<1> DEFINE o == AllocOffset(pageFree, size, align)
<1>1. /\ PageSize \in Nat \ {0} /\ size \in Nat \ {0} /\ align \in Nat \ {0}
      /\ pageFree \in SUBSET PageBlocks(PageSize) /\ Coalesced(pageFree)
  BY PageConstants DEF PageInv, GoodPage
<1>2. /\ o \in Nat /\ o % align = 0 /\ Block(o, size) \in PageBlocks(PageSize)
      /\ Bytes(Block(o, size)) \subseteq BytesOf(pageFree)
  BY <1>1, CarveCorrect DEF Alloc
<1>3. pageLive' = pageLive \cup {Block(o, size)} /\ last' = [size |-> size, align |-> align, offset |-> o]
  BY DEF Alloc
<1> HIDE DEF o
<1>4. o \in 0 .. PageSize - size
  BY <1>1, <1>2 DEF PageBlocks, Block, End
<1>5. o \in Memory!Holes(size, align)
  BY <1>2, <1>4, SamePageBlocks DEF Memory!Holes, PageInv, GoodPage
<1>6. \A p \in Memory!Holes(size, align) : o <= p
  BY <1>1, HolesAreFree, HoleFits DEF o
<1> QED
  BY <1>3, <1>5, <1>6, SamePageBlocks DEF Memory!AllocAt

(* alloc fails only when no aligned hole is left.                          *)
LEMMA AllocFailsRefines ==
    ASSUME PageInv, NEW size \in Sizes, NEW align \in Aligns, AllocFails(size, align)
    PROVE  Memory!AllocFails(size, align)
<1>1. /\ PageSize \in Nat \ {0} /\ size \in Nat \ {0} /\ align \in Nat \ {0}
      /\ pageFree \in SUBSET PageBlocks(PageSize) /\ Coalesced(pageFree)
  BY PageConstants DEF PageInv, GoodPage
<1>2. Memory!Holes(size, align) = {}
  BY <1>1, HolesAreFree, HoleFits DEF AllocFails
<1> QED
  BY <1>2, SamePageBlocks DEF AllocFails, Memory!AllocFails

(* The free-block list of slob_page implements the page of PageMemory:     *)
(* alloc returns the lowest aligned hole, and POISON only when there is    *)
(* none.                                                                   *)
THEOREM PageRefines == PageSpec => ImplementsPageMemory
<1>1. PageInit => Memory!Init
  BY SamePageBlocks DEF PageInit, Memory!Init, NoCall, Memory!NoCall
<1>2. PageInv /\ [PageNext]_pageVars => [Memory!Next]_(Memory!vars)
  <2> SUFFICES ASSUME PageInv, [PageNext]_pageVars
               PROVE  Memory!Next \/ UNCHANGED Memory!vars
    OBVIOUS
  <2>1. ASSUME NEW size \in Sizes, NEW align \in Aligns, Alloc(size, align)
        PROVE  Memory!Next
    BY <2>1, AllocRefines DEF Memory!Next
  <2>2. ASSUME NEW size \in Sizes, NEW align \in Aligns, AllocFails(size, align)
        PROVE  Memory!Next
    BY <2>2, AllocFailsRefines DEF Memory!Next
  <2>3. ASSUME NEW b \in pageLive, FreeBlock(b) \/ DestroyPage(b)
        PROVE  Memory!Next
    BY <2>3 DEF FreeBlock, DestroyPage, Memory!Free, Memory!Next
  <2>4. CASE UNCHANGED pageVars
    BY <2>4 DEF pageVars, Memory!vars
  <2> QED
    BY <2>1, <2>2, <2>3, <2>4 DEF PageNext
<1> QED
  BY <1>1, <1>2, PageInductive, PTL DEF PageSpec, ImplementsPageMemory, Memory!Spec


-----------------------------------------------------------------------------
(* Erasing from a list                                                     *)

(* std::list::erase of an element that is at k, and nowhere else.          *)
LEMMA RemoveFirstAt ==
    ASSUME NEW S, NEW s \in Seq(S), NEW k \in 1 .. Len(s),
           \A i \in 1 .. Len(s) : s[i] = s[k] => i = k
    PROVE  LET r == RemoveFirst(s, s[k])
           IN  /\ r \in Seq(S) /\ Len(r) = Len(s) - 1
               /\ \A i \in 1 .. Len(r) : r[i] = IF i < k THEN s[i] ELSE s[i + 1]
<1> DEFINE I == {i \in 1 .. Len(s) : s[i] = s[k]}
           a == SubSeq(s, 1, k - 1)
           z == SubSeq(s, k + 1, Len(s))
<1>1. Len(s) \in Nat /\ k \in Int /\ \A i \in 1 .. Len(s) : s[i] \in S
  BY LenProperties
<1>2. I = {k}
  OBVIOUS
<1>3. SelectInSeq(s, LAMBDA v : v = s[k]) = k
  <2>1. SelectInSeq(s, LAMBDA v : v = s[k]) = IF I # {} THEN Min(I) ELSE 0
    BY DEF SelectInSeq
  <2>2. Min({k}) = k
    BY <1>1 DEF Min
  <2> QED
    BY <1>2, <2>1, <2>2
<1>4. RemoveFirst(s, s[k]) = a \o z
  BY <1>3 DEF RemoveFirst, RemoveAt
<1>5. /\ a \in Seq(S) /\ Len(a) = k - 1
      /\ \A i \in 1 .. k - 1 : a[i] = s[i]
  BY <1>1, SubSeqProperties
<1>6. /\ z \in Seq(S) /\ Len(z) = Len(s) - k
      /\ \A i \in 1 .. Len(s) - k : z[i] = s[k + i]
  BY <1>1, SubSeqProperties
<1> HIDE DEF a, z
<1>7. /\ a \o z \in Seq(S) /\ Len(a \o z) = Len(s) - 1
      /\ \A i \in 1 .. Len(s) - 1 : (a \o z)[i] = IF i <= k - 1 THEN a[i] ELSE z[i - (k - 1)]
  <2>1. Len(a) + Len(z) = Len(s) - 1
    BY <1>1, <1>5, <1>6
  <2>2. /\ a \o z \in Seq(S) /\ Len(a \o z) = Len(a) + Len(z)
        /\ \A i \in 1 .. Len(a) + Len(z) : (a \o z)[i] = IF i <= Len(a) THEN a[i] ELSE z[i - Len(a)]
    BY <1>5, <1>6, ConcatProperties
  <2> QED
    BY <1>5, <2>1, <2>2
<1>8. \A i \in 1 .. Len(s) - 1 : (a \o z)[i] = IF i < k THEN s[i] ELSE s[i + 1]
  <2> TAKE i \in 1 .. Len(s) - 1
  <2>1. CASE i < k
    BY <1>1, <1>5, <1>7, <2>1
  <2>2. CASE i >= k
    <3>1. i - (k - 1) \in 1 .. Len(s) - k /\ k + (i - (k - 1)) = i + 1
      BY <1>1, <2>2
    <3> QED
      BY <1>1, <1>6, <1>7, <2>2, <3>1
  <2>3. i < k \/ i >= k
    BY <1>1
  <2> QED
    BY <2>1, <2>2, <2>3
<1> QED
  BY <1>4, <1>7, <1>8

(* Whether the element is on the list or not, erasing it leaves the other  *)
(* nodes: f says where each was.                                           *)
LEMMA RemoveFirstLeaves ==
    ASSUME NEW S, NEW s \in Seq(S), NEW e,
           \A i, j \in 1 .. Len(s) : s[i] = e /\ s[j] = e => i = j
    PROVE  LET r == RemoveFirst(s, e)
           IN  /\ r \in Seq(S)
               /\ \E f \in [1 .. Len(r) -> 1 .. Len(s)] :
                     /\ \A i, j \in 1 .. Len(r) : f[i] = f[j] => i = j
                     /\ \A i \in 1 .. Len(r) : r[i] = s[f[i]] /\ s[f[i]] # e
                     /\ \A j \in 1 .. Len(s) : s[j] # e => \E i \in 1 .. Len(r) : f[i] = j
<1> DEFINE r == RemoveFirst(s, e)
<1>1. Len(s) \in Nat
  BY LenProperties
<1>2. CASE \E k \in 1 .. Len(s) : s[k] = e
  <2>1. PICK k \in 1 .. Len(s) : s[k] = e
    BY <1>2
  <2>2. /\ r \in Seq(S) /\ Len(r) = Len(s) - 1
        /\ \A i \in 1 .. Len(r) : r[i] = IF i < k THEN s[i] ELSE s[i + 1]
    BY <2>1, RemoveFirstAt
  <2> HIDE DEF r
  <2> DEFINE f == [i \in 1 .. Len(r) |-> IF i < k THEN i ELSE i + 1]
  <2>3. f \in [1 .. Len(r) -> 1 .. Len(s)]
    BY <1>1, <2>2
  <2>4. \A i, j \in 1 .. Len(r) : f[i] = f[j] => i = j
    BY <1>1, <2>2
  <2>5. \A i \in 1 .. Len(r) : r[i] = s[f[i]] /\ f[i] # k
    BY <1>1, <2>2
  <2>6. \A i \in 1 .. Len(r) : s[f[i]] # e
    BY <2>1, <2>3, <2>5
  <2>7. \A j \in 1 .. Len(s) : j # k => \E i \in 1 .. Len(r) : f[i] = j
    <3> SUFFICES ASSUME NEW j \in 1 .. Len(s), j # k
                 PROVE  \E i \in 1 .. Len(r) : f[i] = j
      OBVIOUS
    <3> DEFINE i == IF j < k THEN j ELSE j - 1
    <3>1. i \in 1 .. Len(r) /\ f[i] = j
      BY <1>1, <2>2
    <3> QED
      BY <3>1
  <2> HIDE DEF f
  <2>8. \A j \in 1 .. Len(s) : s[j] # e => \E i \in 1 .. Len(r) : f[i] = j
    BY <2>1, <2>7
  <2> QED
    BY <2>2, <2>3, <2>4, <2>5, <2>6, <2>8 DEF r
<1>3. CASE \A k \in 1 .. Len(s) : s[k] # e
  <2>1. r = s
    BY <1>3 DEF RemoveFirst
  <2> DEFINE f == [i \in 1 .. Len(s) |-> i]
  <2>2. /\ f \in [1 .. Len(s) -> 1 .. Len(s)]
        /\ \A i, j \in 1 .. Len(s) : f[i] = f[j] => i = j
        /\ \A i \in 1 .. Len(s) : s[i] = s[f[i]] /\ s[f[i]] # e
        /\ \A j \in 1 .. Len(s) : s[j] # e => \E i \in 1 .. Len(s) : f[i] = j
    BY <1>3
  <2> QED
    BY <2>1, <2>2
<1> QED
  BY <1>2, <1>3

-----------------------------------------------------------------------------
(* The four page lists                                                     *)

\* No page is linked twice.
Tidy(ls) ==
    /\ ls \in [ListNames -> Seq(Handles)]
    /\ \A l, m \in ListNames : \A i \in 1 .. Len(ls[l]), j \in 1 .. Len(ls[m]) :
          ls[l][i] = ls[m][j] => l = m /\ i = j

\* The pages that are linked.
Linked(ls) == {h \in Handles : \E l \in ListNames : \E i \in 1 .. Len(ls[l]) : ls[l][i] = h}

(* Unlinking a page from wherever it is leaves all others linked.          *)
LEMMA UnlinkTidy ==
    ASSUME NEW ls, Tidy(ls), NEW h \in Handles
    PROVE  Tidy(Unlink(ls, h)) /\ Linked(Unlink(ls, h)) = Linked(ls) \ {h}
<1> DEFINE rs == Unlink(ls, h)
<1>1. \A l \in ListNames : ls[l] \in Seq(Handles) /\ rs[l] = RemoveFirst(ls[l], h)
  BY DEF Tidy, Unlink
<1>2. rs = [l \in ListNames |-> rs[l]]
  BY DEF Unlink
<1> HIDE DEF rs
<1>3. ASSUME NEW l \in ListNames
      PROVE  /\ rs[l] \in Seq(Handles)
             /\ \E f \in [1 .. Len(rs[l]) -> 1 .. Len(ls[l])] :
                   /\ \A i, j \in 1 .. Len(rs[l]) : f[i] = f[j] => i = j
                   /\ \A i \in 1 .. Len(rs[l]) : rs[l][i] = ls[l][f[i]] /\ ls[l][f[i]] # h
                   /\ \A j \in 1 .. Len(ls[l]) : ls[l][j] # h => \E i \in 1 .. Len(rs[l]) : f[i] = j
  <2>1. \A i, j \in 1 .. Len(ls[l]) : ls[l][i] = h /\ ls[l][j] = h => i = j
    BY DEF Tidy
  <2>2. ls[l] \in Seq(Handles) /\ rs[l] = RemoveFirst(ls[l], h)
    BY <1>1
  <2> QED
    BY ONLY <2>1, <2>2, RemoveFirstLeaves
<1>4. \A l \in ListNames : \A i \in 1 .. Len(rs[l]) :
          rs[l][i] # h /\ \E p \in 1 .. Len(ls[l]) : rs[l][i] = ls[l][p]
  BY <1>3
<1>5. \A l \in ListNames : \A j \in 1 .. Len(ls[l]) :
          ls[l][j] # h => \E i \in 1 .. Len(rs[l]) : rs[l][i] = ls[l][j]
  BY <1>3
<1>6. \A l \in ListNames : \A i, j \in 1 .. Len(rs[l]) : rs[l][i] = rs[l][j] => i = j
  <2> SUFFICES ASSUME NEW l \in ListNames, NEW i \in 1 .. Len(rs[l]), NEW j \in 1 .. Len(rs[l]),
                      rs[l][i] = rs[l][j]
               PROVE  i = j
    OBVIOUS
  <2>1. PICK f \in [1 .. Len(rs[l]) -> 1 .. Len(ls[l])] :
            /\ \A p, q \in 1 .. Len(rs[l]) : f[p] = f[q] => p = q
            /\ \A p \in 1 .. Len(rs[l]) : rs[l][p] = ls[l][f[p]] /\ ls[l][f[p]] # h
    BY <1>3
  <2>2. f[i] \in 1 .. Len(ls[l]) /\ f[j] \in 1 .. Len(ls[l]) /\ ls[l][f[i]] = ls[l][f[j]]
    BY <2>1
  <2>3. f[i] = f[j]
    BY <2>2 DEF Tidy
  <2> QED
    BY <2>1, <2>3
<1>7. \A l, m \in ListNames : \A i \in 1 .. Len(rs[l]), j \in 1 .. Len(rs[m]) :
          rs[l][i] = rs[m][j] => l = m
  BY <1>4 DEF Tidy
<1>8. Tidy(rs)
  <2>1. rs \in [ListNames -> Seq(Handles)]
    BY <1>2, <1>3
  <2>2. \A l, m \in ListNames : \A i \in 1 .. Len(rs[l]), j \in 1 .. Len(rs[m]) :
            rs[l][i] = rs[m][j] => l = m /\ i = j
    BY <1>6, <1>7
  <2> QED
    BY ONLY <2>1, <2>2 DEF Tidy
<1>9. Linked(rs) = Linked(ls) \ {h}
  BY <1>4, <1>5 DEF Linked
<1> QED
  BY <1>8, <1>9 DEF rs

\* std::list::insert of a node at the front of a list.
LinkFront(ls, to, h) == [ls EXCEPT ![to] = Cons(h, @)]

(* Linking a page that is not linked, at the front of a list.              *)
LEMMA LinkTidy ==
    ASSUME NEW ls, Tidy(ls), NEW h \in Handles, h \notin Linked(ls), NEW to \in ListNames
    PROVE  /\ Tidy(LinkFront(ls, to, h))
           /\ Linked(LinkFront(ls, to, h)) = Linked(ls) \cup {h}
<1> DEFINE rs == LinkFront(ls, to, h)
           s == ls[to]
           r == <<h>> \o s
<1>1. s \in Seq(Handles) /\ Len(s) \in Nat
  BY LenProperties DEF Tidy
<1>2. rs \in [ListNames -> Seq(Handles)] /\ rs[to] = r
  <2>1. r \in Seq(Handles)
    BY <1>1
  <2> QED
    BY <2>1 DEF LinkFront, Tidy, Cons
<1>3. /\ Len(r) = Len(s) + 1
      /\ \A i \in 1 .. Len(r) : r[i] = IF i = 1 THEN h ELSE s[i - 1]
  BY <1>1
<1>4. \A l \in ListNames : l # to => rs[l] = ls[l]
  BY DEF LinkFront, Tidy
<1> HIDE DEF rs, r
<1>5. \A l \in ListNames : \A i \in 1 .. Len(ls[l]) : ls[l][i] # h
  BY DEF Linked
<1>6. ASSUME NEW l \in ListNames, NEW i \in 1 .. Len(rs[l])
      PROVE  \/ l = to /\ i = 1 /\ rs[l][i] = h
             \/ \E p \in 1 .. Len(ls[l]) : i = (IF l = to THEN p + 1 ELSE p) /\ rs[l][i] = ls[l][p]
  <2>1. CASE l # to
    BY <1>4, <2>1
  <2>2. CASE l = to /\ i = 1
    BY <1>2, <1>3, <2>2
  <2>3. CASE l = to /\ i # 1
    <3>1. i - 1 \in 1 .. Len(ls[l]) /\ i = (i - 1) + 1 /\ rs[l][i] = ls[l][i - 1]
      BY <1>1, <1>2, <1>3, <2>3
    <3> QED
      BY <2>3, <3>1
  <2> QED
    BY <2>1, <2>2, <2>3
<1>7. Tidy(rs)
  <2> SUFFICES ASSUME NEW l \in ListNames, NEW m \in ListNames,
                      NEW i \in 1 .. Len(rs[l]), NEW j \in 1 .. Len(rs[m]),
                      rs[l][i] = rs[m][j]
               PROVE  l = m /\ i = j
    BY <1>2 DEF Tidy
  <2>1. CASE rs[l][i] = h
    <3>1. \A p \in 1 .. Len(ls[l]) : ls[l][p] # rs[l][i]
      BY <1>5, <2>1
    <3>2. \A p \in 1 .. Len(ls[m]) : ls[m][p] # rs[m][j]
      BY <1>5, <2>1
    <3>3. l = to /\ i = 1
      BY <1>6, <3>1
    <3>4. m = to /\ j = 1
      BY <1>6, <3>2
    <3> QED
      BY <3>3, <3>4
  <2>2. CASE rs[l][i] # h
    <3>1. PICK p \in 1 .. Len(ls[l]) : i = (IF l = to THEN p + 1 ELSE p) /\ rs[l][i] = ls[l][p]
      BY <1>6, <2>2
    <3>2. PICK q \in 1 .. Len(ls[m]) : j = (IF m = to THEN q + 1 ELSE q) /\ rs[m][j] = ls[m][q]
      BY <1>6, <2>2
    <3>3. l = m /\ p = q
      BY <3>1, <3>2 DEF Tidy
    <3> QED
      BY <3>1, <3>2, <3>3
  <2> QED
    BY <2>1, <2>2
<1>8. \A l \in ListNames : \A p \in 1 .. Len(ls[l]) : \E i \in 1 .. Len(rs[l]) : rs[l][i] = ls[l][p]
  <2> TAKE l \in ListNames
  <2> TAKE p \in 1 .. Len(ls[l])
  <2>1. CASE l # to
    BY <1>4, <2>1
  <2>2. CASE l = to
    <3>1. p + 1 \in 1 .. Len(rs[l]) /\ rs[l][p + 1] = ls[l][p]
      BY <1>1, <1>2, <1>3, <2>2
    <3> QED
      BY <3>1
  <2> QED
    BY <2>1, <2>2
<1>9. Linked(rs) = Linked(ls) \cup {h}
  <2>1. 1 \in 1 .. Len(rs[to]) /\ rs[to][1] = h
    BY <1>1, <1>2, <1>3
  <2>2. h \in Linked(rs)
    BY <2>1 DEF Linked
  <2>3. Linked(ls) \subseteq Linked(rs)
    BY <1>8 DEF Linked
  <2>4. \A g \in Linked(rs) : g = h \/ g \in Linked(ls)
    BY <1>6 DEF Linked
  <2> QED
    BY <2>2, <2>3, <2>4
<1> QED
  BY <1>7, <1>9 DEF rs

(* std::list::splice to the front of a list: the page is linked there and  *)
(* nowhere else.                                                           *)
LEMMA SpliceTidy ==
    ASSUME NEW ls, Tidy(ls), NEW h \in Handles, NEW to \in ListNames
    PROVE  Tidy(Splice(ls, to, h)) /\ Linked(Splice(ls, to, h)) = Linked(ls) \cup {h}
<1> DEFINE u == Unlink(ls, h)
<1>1. Tidy(u) /\ Linked(u) = Linked(ls) \ {h}
  BY UnlinkTidy
<1>2. Splice(ls, to, h) = LinkFront(u, to, h)
  BY DEF Splice, LinkFront
<1> HIDE DEF u
<1>3. h \notin Linked(u) /\ Linked(u) \cup {h} = Linked(ls) \cup {h}
  BY <1>1
<1> QED
  BY <1>1, <1>2, <1>3, LinkTidy

(* The two moves after an allocation keep the lists tidy, although the     *)
(* second one may undo the first.                                          *)
LEMMA ServeTidy ==
    ASSUME NEW ls, Tidy(ls), NEW h \in Linked(ls), NEW c \in FreeLists, NEW isFull \in BOOLEAN
    PROVE  /\ Tidy(ListsAfterServe(ls, c, h, isFull))
           /\ Linked(ListsAfterServe(ls, c, h, isFull)) = Linked(ls)
<1>1. /\ h \in Handles /\ c \in ListNames /\ "full" \in ListNames
      /\ Linked(ls) \cup {h} = Linked(ls)
  BY DEF Linked, ListNames
<1> DEFINE cleared == IF isFull THEN Splice(ls, "full", h) ELSE ls
<1>2. Tidy(cleared) /\ Linked(cleared) = Linked(ls)
  <2>1. Tidy(Splice(ls, "full", h)) /\ Linked(Splice(ls, "full", h)) = Linked(ls)
    BY <1>1, SpliceTidy
  <2> QED
    BY <2>1
<1> HIDE DEF cleared
<1>3. Tidy(Splice(cleared, c, h)) /\ Linked(Splice(cleared, c, h)) = Linked(ls)
  <2>1. Tidy(Splice(cleared, c, h)) /\ Linked(Splice(cleared, c, h)) = Linked(cleared) \cup {h}
    BY <1>1, <1>2, SpliceTidy
  <2> QED
    BY <1>1, <1>2, <2>1
<1>4. ListsAfterServe(ls, c, h, isFull) \in {cleared, Splice(cleared, c, h)}
  BY DEF ListsAfterServe, cleared
<1> QED
  BY <1>2, <1>3, <1>4

(* Each linked page is at one place of the four lists, any other at none.  *)
LEMMA LinksCount ==
    ASSUME Tidy(lists), NEW h \in Handles
    PROVE  Cardinality(Links(h)) = IF h \in Linked(lists) THEN 1 ELSE 0
<1>1. \A l \in ListNames : DOMAIN lists[l] = 1 .. Len(lists[l])
  BY LenProperties DEF Tidy
<1>2. CASE h \in Linked(lists)
  <2>1. PICK l \in ListNames : \E i \in 1 .. Len(lists[l]) : lists[l][i] = h
    BY <1>2 DEF Linked
  <2>2. PICK i \in 1 .. Len(lists[l]) : lists[l][i] = h
    BY <2>1
  <2>3. Links(h) = {<<l, i>>}
    BY <1>1, <2>2 DEF Links, Tidy
  <2> QED
    BY <1>2, <2>3, FS_Singleton
<1>3. CASE h \notin Linked(lists)
  <2>1. Links(h) = {}
    BY <1>1, <1>3 DEF Links, Linked
  <2> QED
    BY <1>3, <2>1, FS_EmptySet
<1> QED
  BY <1>2, <1>3

-----------------------------------------------------------------------------
(* The inductive invariant                                                 *)

\* The lists link the pages, each once.
ListsGood == Tidy(lists) /\ Linked(lists) = Pages

\* A page is good, has something alive in it, and its flag says whether it has
\* a free block; what is not a page has no blocks.
PagesGood ==
    /\ \A h \in Pages :
          /\ GoodPage(PageSize, freeBlocks[h], live[h], sumFree[h])
          /\ live[h] # {}
          /\ IsOnFreePageList(h) <=> freeBlocks[h] # {}
    /\ \A h \in Handles \ Pages : live[h] = {}

IInv == TypeOK /\ ListsGood /\ PagesGood /\ DeviceMemoryAccounted

-----------------------------------------------------------------------------

(* What the assumptions say of the constants.                              *)
LEMMA ConstantTypes ==
    /\ PageSize \in Nat \ {0}
    /\ \A size \in Sizes : size \in 1 .. PageSize - 1 /\ size \in Nat \ {0} /\ ClassOf(size) \in FreeLists
    /\ \A align \in Aligns : align \in Nat \ {0}
    /\ FreeLists \subseteq ListNames /\ "full" \in ListNames \ FreeLists /\ None \notin ListNames
BY SlobBlocksAssumption, SlobAssumption DEF ClassOf, FreeLists, ListNames, None

(* The heap begins without pages.                                          *)
LEMMA InitIInv == Init => IInv
<1> SUFFICES ASSUME Init
             PROVE  IInv
  OBVIOUS
<1>1. Pages = {} /\ \A t \in Callers : HeldBy(t) = {}
  BY DEF Init, Pages, HeldBy, Idle
<1>2. TypeOK
  BY ConstantTypes DEF Init, TypeOK, EmptyLists, Calls, Idle
<1>3. ListsGood
  <2>1. \A l \in ListNames : lists[l] = <<>>
    BY DEF Init, EmptyLists
  <2>2. Tidy(lists) /\ Linked(lists) = {}
    BY <1>2, <2>1 DEF Tidy, Linked, TypeOK
  <2> QED
    BY <1>1, <2>2 DEF ListsGood
<1>4. PagesGood
  BY <1>1 DEF Init, PagesGood
<1>5. DeviceMemoryAccounted
  BY <1>1 DEF Init, DeviceMemoryAccounted
<1> QED
  BY <1>2, <1>3, <1>4, <1>5 DEF IInv

\* Page h gains a block of that size, aligned, inside the page and clear of the
\* blocks that live there.
Gains(h, size, align) ==
    \E o \in 0 .. PageSize :
        /\ o % align = 0 /\ End(Block(o, size)) <= PageSize
        /\ Bytes(Block(o, size)) \cap BytesOf(live[h]) = {}
        /\ live' = [live EXCEPT ![h] = @ \cup {Block(o, size)}]

(* slob_page::alloc: the page stays good, and no other page is touched.    *)
LEMMA PageAllocGood ==
    ASSUME TypeOK, NEW h \in Handles, NEW B, NEW sum, NEW size \in Sizes, NEW align \in Aligns,
           GoodPage(PageSize, B, live[h], sum), FitsIn(B, size, align) # {},
           PageAlloc(h, B, sum, size, align)
    PROVE  /\ freeBlocks' \in [Handles -> SUBSET PageBlocks(PageSize)]
           /\ live' \in [Handles -> SUBSET PageBlocks(PageSize)]
           /\ sumFree' \in [Handles -> 0 .. PageSize]
           /\ GoodPage(PageSize, freeBlocks'[h], live'[h], sumFree'[h])
           /\ live'[h] # {}
           /\ sumFree'[h] = sum - size
           /\ \A g \in Handles : g # h =>
                 freeBlocks'[g] = freeBlocks[g] /\ live'[g] = live[g] /\ sumFree'[g] = sumFree[g]
           /\ Gains(h, size, align)
<1> DEFINE o == AllocOffset(B, size, align)
           r == Block(o, size)
           C == Carve(B, size, align)
<1>1. /\ GoodPage(PageSize, C, live[h] \cup {r}, sum - size)
      /\ o \in 0 .. PageSize /\ o % align = 0 /\ End(r) <= PageSize
      /\ Bytes(r) \cap BytesOf(live[h]) = {}
  <2>1. PageSize \in Nat \ {0} /\ size \in 1 .. PageSize - 1 /\ align \in Nat \ {0}
    BY ConstantTypes
  <2>2. GoodPage(PageSize, C, live[h] \cup {r}, sum - size)
    BY <2>1, AllocKeepsGood
  <2>3. o \in 0 .. PageSize
    BY <2>1, AllocKeepsGood
  <2>4. o % align = 0
    BY <2>1, CarveCorrect DEF GoodPage
  <2>5. End(r) <= PageSize
    BY <2>1, AllocKeepsGood
  <2>6. Bytes(r) \cap BytesOf(live[h]) = {}
    BY <2>1, AllocKeepsGood
  <2> QED
    BY <2>2, <2>3, <2>4, <2>5, <2>6
<1>2. /\ freeBlocks' = [freeBlocks EXCEPT ![h] = C]
      /\ sumFree' = [sumFree EXCEPT ![h] = sum - size]
      /\ live' = [live EXCEPT ![h] = @ \cup {r}]
  BY DEF PageAlloc
<1> HIDE DEF C
<1>3. Gains(h, size, align)
  BY <1>1, <1>2 DEF Gains
<1> HIDE DEF r, o
<1>4. /\ C \in SUBSET PageBlocks(PageSize) /\ live[h] \cup {r} \in SUBSET PageBlocks(PageSize)
      /\ sum - size \in 0 .. PageSize
  BY <1>1 DEF GoodPage
<1>5. /\ freeBlocks' \in [Handles -> SUBSET PageBlocks(PageSize)] /\ freeBlocks'[h] = C
      /\ live' \in [Handles -> SUBSET PageBlocks(PageSize)] /\ live'[h] = live[h] \cup {r}
      /\ sumFree' \in [Handles -> 0 .. PageSize] /\ sumFree'[h] = sum - size
  BY <1>2, <1>4 DEF TypeOK
<1>6. \A g \in Handles : g # h =>
          freeBlocks'[g] = freeBlocks[g] /\ live'[g] = live[g] /\ sumFree'[g] = sumFree[g]
  BY <1>2 DEF TypeOK
<1> QED
  BY <1>1, <1>3, <1>5, <1>6

(* alloc from a page of the class, which may then be full and yet back at  *)
(* the front of its class list.                                            *)
LEMMA ServeIInv ==
    ASSUME IInv, NEW t \in Callers, NEW size \in Sizes, NEW align \in Aligns,
           Serve(t, size, align)
    PROVE  IInv' /\ \E h \in device : Gains(h, size, align)
<1> DEFINE c == ClassOf(size)
<1>1. PICK i \in DOMAIN lists[c] :
          /\ Serves(lists[c][i], size, align)
          /\ LET h == lists[c][i]
                 isFull == sumFree[h] = size
             IN  /\ PageAlloc(h, freeBlocks[h], sumFree[h], size, align)
                 /\ home' = IF isFull THEN [home EXCEPT ![h] = "full"] ELSE home
                 /\ lists' = ListsAfterServe(lists, c, h, isFull)
  BY DEF Serve, CanServe
<1>2. c \in FreeLists /\ c \in ListNames /\ "full" \in ListNames
  BY ConstantTypes
<1>3. lists[c][i] \in Handles /\ lists[c][i] \in Linked(lists)
  <2>1. lists[c] \in Seq(Handles)
    BY <1>2 DEF IInv, TypeOK
  <2>2. i \in 1 .. Len(lists[c]) /\ lists[c][i] \in Handles
    BY <2>1, LenProperties
  <2> QED
    BY <1>2, <2>2 DEF Linked
<1>4. PICK h \in Handles : h = lists[c][i]
  BY <1>3
<1>5. PICK isFull \in BOOLEAN : isFull <=> sumFree[h] = size
  OBVIOUS
<1>6. h \in Linked(lists) /\ h \in Pages
  BY <1>3, <1>4 DEF IInv, ListsGood
<1>7. /\ FitsIn(freeBlocks[h], size, align) # {}
      /\ PageAlloc(h, freeBlocks[h], sumFree[h], size, align)
      /\ home' = IF isFull THEN [home EXCEPT ![h] = "full"] ELSE home
      /\ lists' = ListsAfterServe(lists, c, h, isFull)
      /\ device' = device /\ call' = call
  BY <1>1, <1>4, <1>5 DEF Serves, Serve
<1> HIDE DEF c
<1>8. /\ freeBlocks' \in [Handles -> SUBSET PageBlocks(PageSize)]
      /\ live' \in [Handles -> SUBSET PageBlocks(PageSize)]
      /\ sumFree' \in [Handles -> 0 .. PageSize]
      /\ GoodPage(PageSize, freeBlocks'[h], live'[h], sumFree'[h])
      /\ live'[h] # {}
      /\ sumFree'[h] = sumFree[h] - size
      /\ \A g \in Handles : g # h =>
            freeBlocks'[g] = freeBlocks[g] /\ live'[g] = live[g] /\ sumFree'[g] = sumFree[g]
      /\ Gains(h, size, align)
  BY <1>6, <1>7, PageAllocGood DEF IInv, PagesGood
<1>9. /\ home' \in [Handles -> ListNames \cup {None}]
      /\ home'[h] = IF isFull THEN "full" ELSE home[h]
      /\ \A g \in Handles : g # h => home'[g] = home[g]
  BY <1>2, <1>6, <1>7 DEF IInv, TypeOK
<1>10. Pages' = Pages
  BY <1>2, <1>6, <1>9, ConstantTypes DEF Pages
<1>11. ListsGood'
  BY <1>2, <1>5, <1>6, <1>7, <1>10, ServeTidy DEF IInv, ListsGood
<1>12. TypeOK'
  BY <1>7, <1>8, <1>9, <1>11 DEF IInv, TypeOK, ListsGood, Tidy
<1>13. PagesGood'
  <2>1. IsOnFreePageList(h)' <=> freeBlocks'[h] # {}
    <3>1. sumFree[h] \in Nat /\ size \in Nat /\ (sumFree'[h] = 0 <=> isFull)
      BY <1>5, <1>6, <1>8, ConstantTypes DEF IInv, TypeOK
    <3>2. sumFree'[h] = 0 <=> freeBlocks'[h] = {}
      BY <1>8, FullPage, ConstantTypes
    <3>3. home[h] \in FreeLists
      <4>1. freeBlocks[h] # {}
        BY <1>7 DEF FitsIn
      <4> QED
        BY <1>6, <4>1 DEF IInv, PagesGood, IsOnFreePageList
    <3> QED
      BY <1>9, <3>1, <3>2, <3>3, ConstantTypes DEF IsOnFreePageList
  <2>2. \A g \in Handles : g # h => (IsOnFreePageList(g)' <=> IsOnFreePageList(g))
    BY <1>9 DEF IsOnFreePageList
  <2>3. \A g \in Pages : g # h =>
            /\ GoodPage(PageSize, freeBlocks'[g], live'[g], sumFree'[g])
            /\ live'[g] # {}
            /\ IsOnFreePageList(g)' <=> freeBlocks'[g] # {}
    BY <1>8, <2>2 DEF IInv, PagesGood, Pages
  <2>4. \A g \in Handles \ Pages : live'[g] = {}
    BY <1>6, <1>8 DEF IInv, PagesGood
  <2> QED
    BY <1>8, <1>10, <2>1, <2>3, <2>4 DEF PagesGood
<1>14. DeviceMemoryAccounted'
  <2>1. \A u \in Callers : HeldBy(u)' = HeldBy(u)
    BY <1>7 DEF HeldBy
  <2>2. \A g \in Handles : live'[g] # {} <=> g \in Pages
    BY <1>10, <1>13 DEF PagesGood
  <2> QED
    BY <1>7, <1>10, <2>1, <2>2 DEF IInv, DeviceMemoryAccounted
<1>15. h \in device
  BY <1>6 DEF IInv, DeviceMemoryAccounted
<1> QED
  BY <1>8, <1>11, <1>12, <1>13, <1>14, <1>15 DEF IInv

(* What a call carries from one locked section to the next.                *)
LEMMA CallFields ==
    ASSUME TypeOK, NEW t \in Callers
    PROVE  /\ call[t].at = "new_pages" => call[t].size \in Sizes /\ call[t].align \in Aligns
           /\ call[t].at = "link" =>
                 call[t].size \in Sizes /\ call[t].align \in Aligns /\ call[t].page \in Handles
           /\ call[t].at = "free_pages" => call[t].page \in Handles
<1>1. call[t] \in Calls
  BY DEF TypeOK
<1> QED
  BY <1>1 DEF Calls, Idle

(* A step that leaves the pages and lists alone.                           *)
LEMMA SamePages ==
    ASSUME IInv, UNCHANGED <<lists, home, freeBlocks, sumFree, live>>
    PROVE  ListsGood' /\ PagesGood' /\ Pages' = Pages
<1>1. Pages' = Pages
  BY DEF Pages
<1>2. \A h \in Handles : IsOnFreePageList(h)' <=> IsOnFreePageList(h)
  BY DEF IsOnFreePageList
<1>3. ListsGood'
  BY <1>1 DEF IInv, ListsGood
<1>4. PagesGood'
  BY <1>1, <1>2 DEF IInv, PagesGood, Pages
<1> QED
  BY <1>1, <1>3, <1>4

(* alloc that goes for a new page.                                         *)
LEMMA MissIInv ==
    ASSUME IInv, NEW t \in Callers, NEW size \in Sizes, NEW align \in Aligns,
           Miss(t, size, align)
    PROVE  IInv'
<1> DEFINE c == [at |-> "new_pages", size |-> size, align |-> align]
<1>1. ListsGood' /\ PagesGood' /\ Pages' = Pages
  BY SamePages DEF Miss
<1>2. call[t] = Idle /\ call' = [call EXCEPT ![t] = c] /\ c \in Calls /\ c.at = "new_pages"
  BY DEF Miss, Calls
<1> HIDE DEF c
<1>3. TypeOK'
  BY <1>2 DEF Miss, IInv, TypeOK
<1>4. \A u \in Callers : HeldBy(u)' = HeldBy(u)
  <2>1. call'[t].at = "new_pages" /\ \A u \in Callers : u # t => call'[u] = call[u]
    BY <1>2 DEF IInv, TypeOK
  <2>2. HeldBy(t) = {} /\ HeldBy(t)' = {}
    BY <1>2, <2>1 DEF HeldBy, Idle
  <2>3. \A u \in Callers : u # t => HeldBy(u)' = HeldBy(u)
    BY <2>1 DEF HeldBy
  <2> QED
    BY <2>2, <2>3
<1>5. DeviceMemoryAccounted'
  BY <1>1, <1>4 DEF Miss, IInv, DeviceMemoryAccounted
<1> QED
  BY <1>1, <1>3, <1>5 DEF IInv

(* The device gives a page that it did not have out, to one caller.        *)
LEMMA NewPagesIInv ==
    ASSUME IInv, NEW t \in Callers, NewPages(t)
    PROVE  /\ IInv' /\ live' = live
           /\ device' = device \/ \E h \in Handles \ device : device' = device \cup {h}
<1>1. ListsGood' /\ PagesGood' /\ Pages' = Pages
  BY SamePages DEF NewPages
<1>2. call[t].size \in Sizes /\ call[t].align \in Aligns /\ HeldBy(t) = {}
  BY CallFields DEF NewPages, IInv, HeldBy
<1>3. CASE call' = [call EXCEPT ![t] = Idle] /\ device' = device
  <2>1. TypeOK'
    BY <1>3 DEF NewPages, IInv, TypeOK, Calls
  <2>2. \A u \in Callers : HeldBy(u)' = HeldBy(u)
    BY <1>2, <1>3 DEF HeldBy, Idle, IInv, TypeOK
  <2>3. DeviceMemoryAccounted'
    BY <1>1, <1>3, <2>2 DEF NewPages, IInv, DeviceMemoryAccounted
  <2> QED
    BY <1>1, <1>3, <2>1, <2>3 DEF NewPages, IInv
<1>4. ASSUME NEW h \in Handles \ device, device' = device \cup {h},
             call' = [call EXCEPT ![t] =
                [at |-> "link", size |-> call[t].size, align |-> call[t].align, page |-> h]]
      PROVE  IInv'
  <2> DEFINE c == [at |-> "link", size |-> call[t].size, align |-> call[t].align, page |-> h]
  <2>1. c \in Calls /\ call' = [call EXCEPT ![t] = c]
    BY <1>2, <1>4 DEF Calls
  <2>2. TypeOK'
    BY <1>4, <2>1 DEF NewPages, IInv, TypeOK
  <2>3. HeldBy(t)' = {h} /\ \A u \in Callers : u # t => HeldBy(u)' = HeldBy(u)
    BY <1>4 DEF HeldBy, IInv, TypeOK
  <2>4. UNION {HeldBy(u)' : u \in Callers} = (UNION {HeldBy(u) : u \in Callers}) \cup {h}
    BY <1>2, <2>3
  <2>5. h \notin Pages /\ \A u \in Callers : h \notin HeldBy(u)
    BY <1>4 DEF IInv, DeviceMemoryAccounted
  <2>6. device' = Pages' \cup UNION {HeldBy(u)' : u \in Callers}
    BY <1>1, <1>4, <2>4 DEF IInv, DeviceMemoryAccounted
  <2>7. DeviceMemoryAccounted'
    BY <1>1, <2>3, <2>5, <2>6 DEF NewPages, IInv, DeviceMemoryAccounted
  <2> QED
    BY <1>1, <2>2, <2>7 DEF IInv
<1> QED
  BY <1>3, <1>4 DEF NewPages

(* The page that a call got joins the lists, with an allocation in it.     *)
LEMMA LinkPageIInv ==
    ASSUME IInv, NEW t \in Callers, LinkPage(t)
    PROVE  IInv' /\ \E h \in device, size \in Sizes, align \in Aligns : Gains(h, size, align)
<1>1. PICK h \in Handles : h = call[t].page
  BY CallFields DEF LinkPage, IInv
<1>2. PICK size \in Sizes : size = call[t].size
  BY CallFields DEF LinkPage, IInv
<1>3. PICK align \in Aligns : align = call[t].align
  BY CallFields DEF LinkPage, IInv
<1>4. PICK c \in FreeLists : c = ClassOf(size)
  BY ConstantTypes
<1> DEFINE B == {Block(0, PageSize)}
<1>5. /\ PageAlloc(h, B, PageSize, size, align)
      /\ home' = [home EXCEPT ![h] = c]
      /\ lists' = LinkFront(lists, c, h)
      /\ call' = [call EXCEPT ![t] = Idle]
      /\ device' = device
  BY <1>1, <1>2, <1>3, <1>4 DEF LinkPage, LinkFront
<1>6. HeldBy(t) = {h} /\ h \notin Pages /\ h \in device /\ live[h] = {}
  BY <1>1 DEF LinkPage, HeldBy, IInv, DeviceMemoryAccounted
<1>7. GoodPage(PageSize, B, live[h], PageSize)
  BY <1>6, FreshPage, ConstantTypes
<1>8. FitsIn(B, size, align) # {}
  <2>1. /\ Block(0, PageSize).offset = 0 /\ Block(0, PageSize).size = PageSize
        /\ size \in 1 .. PageSize - 1 /\ align \in Nat \ {0} /\ PageSize \in Nat \ {0}
    BY ConstantTypes DEF Block
  <2>2. Delta(Block(0, PageSize), align) = 0
    BY <2>1 DEF Delta
  <2> QED
    BY <2>1, <2>2 DEF FitsIn, Fits
<1> HIDE DEF B
<1>9. /\ freeBlocks' \in [Handles -> SUBSET PageBlocks(PageSize)]
      /\ live' \in [Handles -> SUBSET PageBlocks(PageSize)]
      /\ sumFree' \in [Handles -> 0 .. PageSize]
      /\ GoodPage(PageSize, freeBlocks'[h], live'[h], sumFree'[h])
      /\ live'[h] # {}
      /\ sumFree'[h] = PageSize - size
      /\ \A g \in Handles : g # h =>
            freeBlocks'[g] = freeBlocks[g] /\ live'[g] = live[g] /\ sumFree'[g] = sumFree[g]
      /\ Gains(h, size, align)
  BY <1>5, <1>7, <1>8, PageAllocGood DEF IInv
<1>10. /\ home' \in [Handles -> ListNames \cup {None}] /\ home'[h] = c
       /\ \A g \in Handles : g # h => home'[g] = home[g]
  BY <1>4, <1>5, ConstantTypes DEF IInv, TypeOK
<1>11. Pages' = Pages \cup {h}
  BY <1>10, ConstantTypes DEF Pages
<1>12. ListsGood'
  <2>1. Tidy(lists) /\ h \notin Linked(lists) /\ c \in ListNames
    BY <1>6, ConstantTypes DEF IInv, ListsGood
  <2>2. Tidy(LinkFront(lists, c, h)) /\ Linked(LinkFront(lists, c, h)) = Linked(lists) \cup {h}
    BY <2>1, LinkTidy
  <2> QED
    BY <1>5, <1>11, <2>2 DEF IInv, ListsGood
<1>13. TypeOK'
  BY <1>5, <1>9, <1>10, <1>12 DEF IInv, TypeOK, ListsGood, Tidy, Calls
<1>14. PagesGood'
  <2>1. IsOnFreePageList(h)' /\ freeBlocks'[h] # {}
    <3>1. sumFree'[h] # 0
      BY <1>9, ConstantTypes
    <3>2. freeBlocks'[h] # {}
      BY <1>9, <3>1, FullPage, ConstantTypes
    <3> QED
      BY <1>10, <3>2 DEF IsOnFreePageList
  <2>2. \A g \in Handles : g # h => (IsOnFreePageList(g)' <=> IsOnFreePageList(g))
    BY <1>10 DEF IsOnFreePageList
  <2>3. \A g \in Pages : g # h =>
            /\ GoodPage(PageSize, freeBlocks'[g], live'[g], sumFree'[g])
            /\ live'[g] # {}
            /\ IsOnFreePageList(g)' <=> freeBlocks'[g] # {}
    BY <1>9, <2>2 DEF IInv, PagesGood, Pages
  <2>4. \A g \in Handles \ Pages' : live'[g] = {}
    BY <1>9, <1>11 DEF IInv, PagesGood
  <2> QED
    BY <1>9, <1>11, <2>1, <2>3, <2>4 DEF PagesGood
<1>15. DeviceMemoryAccounted'
  <2>1. HeldBy(t)' = {} /\ \A u \in Callers : u # t => HeldBy(u)' = HeldBy(u)
    BY <1>5 DEF HeldBy, IInv, TypeOK, Idle
  <2>2. \A u \in Callers : u # t => h \notin HeldBy(u)
    BY <1>6 DEF IInv, DeviceMemoryAccounted
  <2>3. device' = Pages' \cup UNION {HeldBy(u)' : u \in Callers}
    <3>1. UNION {HeldBy(u) : u \in Callers} = (UNION {HeldBy(u)' : u \in Callers}) \cup {h}
      BY <1>6, <2>1
    <3> QED
      BY <1>5, <1>11, <3>1 DEF IInv, DeviceMemoryAccounted
  <2>4. \A u \in Callers : HeldBy(u)' \cap Pages' = {}
    BY <1>11, <2>1, <2>2 DEF IInv, DeviceMemoryAccounted
  <2>5. \A u, v \in Callers : u # v => HeldBy(u)' \cap HeldBy(v)' = {}
    BY <2>1 DEF IInv, DeviceMemoryAccounted
  <2>6. \A g \in Handles : live'[g] # {} <=> g \in Pages'
    BY <1>14 DEF PagesGood
  <2> QED
    BY <2>3, <2>4, <2>5, <2>6 DEF DeviceMemoryAccounted
<1> QED
  BY <1>6, <1>9, <1>12, <1>13, <1>14, <1>15 DEF IInv

(* free of a block that is not the last one of its page.                   *)
LEMMA FreeIInv ==
    ASSUME IInv, NEW t \in Callers, NEW h \in Handles, NEW b \in live[h], Free(t, h, b)
    PROVE  IInv'
<1> DEFINE C == Release(freeBlocks[h], b)
<1>1. h \in Pages /\ GoodPage(PageSize, freeBlocks[h], live[h], sumFree[h])
  BY DEF IInv, PagesGood
<1>2. b.size \in 1 .. PageSize - 1 /\ sumFree[h] \in Nat /\ sumFree[h] + b.size < PageSize
  BY <1>1, ConstantTypes DEF Free, IsLastIn, GoodPage
<1>3. GoodPage(PageSize, C, live[h] \ {b}, sumFree[h] + b.size)
  BY <1>1, <1>2, FreeKeepsGood, ConstantTypes
<1>4. PICK c \in FreeLists : c = ClassOf(b.size)
  BY <1>2 DEF ClassOf, FreeLists
<1> HIDE DEF C
<1>5. /\ freeBlocks' = [freeBlocks EXCEPT ![h] = C]
      /\ live' = [live EXCEPT ![h] = live[h] \ {b}]
      /\ sumFree' = [sumFree EXCEPT ![h] = sumFree[h] + b.size]
      /\ device' = device /\ call' = call
  BY DEF Free, C
<1>6. /\ freeBlocks' \in [Handles -> SUBSET PageBlocks(PageSize)] /\ freeBlocks'[h] = C
      /\ live' \in [Handles -> SUBSET PageBlocks(PageSize)] /\ live'[h] = live[h] \ {b}
      /\ sumFree' \in [Handles -> 0 .. PageSize] /\ sumFree'[h] = sumFree[h] + b.size
      /\ \A g \in Handles : g # h =>
            freeBlocks'[g] = freeBlocks[g] /\ live'[g] = live[g] /\ sumFree'[g] = sumFree[g]
  BY <1>3, <1>5 DEF GoodPage, IInv, TypeOK
<1>7. /\ home' \in [Handles -> ListNames \cup {None}] /\ home'[h] \in FreeLists
      /\ \A g \in Handles : g # h => home'[g] = home[g]
  <2>1. CASE IsOnFreePageList(h)
    BY <2>1 DEF Free, IsOnFreePageList, IInv, TypeOK
  <2>2. CASE ~IsOnFreePageList(h)
    BY <1>4, <2>2, ConstantTypes DEF Free, IInv, TypeOK
  <2> QED
    BY <2>1, <2>2
<1>8. Pages' = Pages
  BY <1>1, <1>7, ConstantTypes DEF Pages
<1>9. ListsGood'
  <2>1. CASE lists' = lists
    BY <1>8, <2>1 DEF IInv, ListsGood
  <2>2. CASE lists' = Splice(lists, c, h)
    <3>1. /\ Tidy(Splice(lists, c, h))
          /\ Linked(Splice(lists, c, h)) = Linked(lists) \cup {h}
      BY <1>4, SpliceTidy, ConstantTypes DEF IInv, ListsGood
    <3> QED
      BY <1>1, <1>8, <2>2, <3>1 DEF IInv, ListsGood
  <2> QED
    BY <1>4, <2>1, <2>2 DEF Free
<1>10. TypeOK'
  BY <1>5, <1>6, <1>7, <1>9 DEF IInv, TypeOK, ListsGood, Tidy
<1>11. live'[h] # {}
  BY <1>1, <1>2, <1>6, LastIsAlone, ConstantTypes
<1>12. PagesGood'
  <2>1. IsOnFreePageList(h)' /\ freeBlocks'[h] # {}
    <3>1. sumFree'[h] # 0
      BY <1>2, <1>6
    <3>2. freeBlocks'[h] # {}
      BY <1>3, <1>6, <3>1, FullPage, ConstantTypes
    <3> QED
      BY <1>7, <3>2 DEF IsOnFreePageList
  <2>2. \A g \in Handles : g # h => (IsOnFreePageList(g)' <=> IsOnFreePageList(g))
    BY <1>7 DEF IsOnFreePageList
  <2>3. \A g \in Pages : g # h =>
            /\ GoodPage(PageSize, freeBlocks'[g], live'[g], sumFree'[g])
            /\ live'[g] # {}
            /\ IsOnFreePageList(g)' <=> freeBlocks'[g] # {}
    BY <1>6, <2>2 DEF IInv, PagesGood, Pages
  <2>4. \A g \in Handles \ Pages : live'[g] = {}
    BY <1>1, <1>6 DEF IInv, PagesGood
  <2> QED
    BY <1>3, <1>6, <1>8, <1>11, <2>1, <2>3, <2>4 DEF PagesGood
<1>13. DeviceMemoryAccounted'
  <2>1. \A u \in Callers : HeldBy(u)' = HeldBy(u)
    BY <1>5 DEF HeldBy
  <2>2. \A g \in Handles : live'[g] # {} <=> g \in Pages
    BY <1>8, <1>12 DEF PagesGood
  <2> QED
    BY <1>5, <1>8, <2>1, <2>2 DEF IInv, DeviceMemoryAccounted
<1> QED
  BY <1>9, <1>10, <1>12, <1>13 DEF IInv

(* free of the last block of a page: the page leaves the lists, and the    *)
(* caller carries it to the device.                                        *)
LEMMA DestroyIInv ==
    ASSUME IInv, NEW t \in Callers, NEW h \in Handles, NEW b \in live[h], Destroy(t, h, b)
    PROVE  IInv'
<1>1. h \in Pages /\ live[h] = {b} /\ h \in device
  BY LastIsAlone, ConstantTypes DEF IInv, PagesGood, Destroy, IsLastIn, DeviceMemoryAccounted
<1> DEFINE c == [at |-> "free_pages", page |-> h]
<1>2. c \in Calls /\ c.at = "free_pages" /\ c.page = h
  BY DEF Calls
<1>3. /\ freeBlocks' = [freeBlocks EXCEPT ![h] = {}]
      /\ live' = [live EXCEPT ![h] = {}]
      /\ sumFree' = [sumFree EXCEPT ![h] = 0]
      /\ home' = [home EXCEPT ![h] = None]
      /\ lists' = Unlink(lists, h)
      /\ call' = [call EXCEPT ![t] = c] /\ call[t] = Idle
      /\ device' = device
  BY <1>1 DEF Destroy
<1> HIDE DEF c
<1>4. Pages' = Pages \ {h}
  BY <1>3 DEF Pages, IInv, TypeOK
<1>5. ListsGood'
  BY <1>3, <1>4, UnlinkTidy DEF IInv, ListsGood
<1>6. TypeOK'
  BY <1>2, <1>3, <1>5, ConstantTypes DEF IInv, TypeOK, ListsGood, Tidy
<1>7. PagesGood'
  <2>1. \A g \in Handles : g # h => (IsOnFreePageList(g)' <=> IsOnFreePageList(g))
    BY <1>3 DEF IsOnFreePageList, IInv, TypeOK
  <2>2. \A g \in Handles : g # h =>
            freeBlocks'[g] = freeBlocks[g] /\ live'[g] = live[g] /\ sumFree'[g] = sumFree[g]
    BY <1>3 DEF IInv, TypeOK
  <2>3. live'[h] = {}
    BY <1>3 DEF IInv, TypeOK
  <2> QED
    BY <1>4, <2>1, <2>2, <2>3 DEF IInv, PagesGood, Pages
<1>8. DeviceMemoryAccounted'
  <2>1. call'[t] = c /\ \A u \in Callers : u # t => call'[u] = call[u]
    BY <1>3 DEF IInv, TypeOK
  <2>2. HeldBy(t) = {} /\ HeldBy(t)' = {h} /\ \A u \in Callers : u # t => HeldBy(u)' = HeldBy(u)
    BY <1>2, <1>3, <2>1 DEF HeldBy, Idle
  <2>3. UNION {HeldBy(u)' : u \in Callers} = (UNION {HeldBy(u) : u \in Callers}) \cup {h}
    BY <2>2
  <2>4. \A u \in Callers : h \notin HeldBy(u)
    BY <1>1 DEF IInv, DeviceMemoryAccounted
  <2>5. \A u \in Callers : HeldBy(u)' \cap Pages' = {}
    BY <1>4, <2>2 DEF IInv, DeviceMemoryAccounted
  <2>6. \A u, v \in Callers : u # v => HeldBy(u)' \cap HeldBy(v)' = {}
    BY <2>2, <2>4 DEF IInv, DeviceMemoryAccounted
  <2>7. device' = Pages' \cup UNION {HeldBy(u)' : u \in Callers}
    BY <1>1, <1>3, <1>4, <2>3 DEF IInv, DeviceMemoryAccounted
  <2>8. \A g \in Handles : live'[g] # {} <=> g \in Pages'
    BY <1>7 DEF PagesGood
  <2> QED
    BY <2>5, <2>6, <2>7, <2>8 DEF DeviceMemoryAccounted
<1> QED
  BY <1>5, <1>6, <1>7, <1>8 DEF IInv

(* The device takes back a page that nothing lives in.                     *)
LEMMA FreePagesIInv ==
    ASSUME IInv, NEW t \in Callers, FreePages(t)
    PROVE  /\ IInv' /\ live' = live
           /\ \E h \in device : live[h] = {} /\ device' = device \ {h}
<1>1. ListsGood' /\ PagesGood' /\ Pages' = Pages
  BY SamePages DEF FreePages
<1>2. PICK h \in Handles : h = call[t].page
  BY CallFields DEF FreePages, IInv
<1>3. /\ device' = device \ {h} /\ call' = [call EXCEPT ![t] = Idle]
      /\ HeldBy(t) = {h} /\ h \notin Pages /\ h \in device /\ live[h] = {}
  BY <1>2 DEF FreePages, HeldBy, IInv, DeviceMemoryAccounted
<1>4. TypeOK'
  BY <1>3 DEF FreePages, IInv, TypeOK, Calls
<1>5. HeldBy(t)' = {} /\ \A u \in Callers : u # t => HeldBy(u)' = HeldBy(u)
  BY <1>3 DEF HeldBy, IInv, TypeOK, Idle
<1>6. UNION {HeldBy(u) : u \in Callers} = (UNION {HeldBy(u)' : u \in Callers}) \cup {h}
  BY <1>3, <1>5
<1>7. h \notin UNION {HeldBy(u)' : u \in Callers}
  BY <1>3, <1>5 DEF IInv, DeviceMemoryAccounted
<1>8. device' = Pages' \cup UNION {HeldBy(u)' : u \in Callers}
  BY <1>1, <1>3, <1>6, <1>7 DEF IInv, DeviceMemoryAccounted
<1>9. /\ \A u \in Callers : HeldBy(u)' \cap Pages' = {}
      /\ \A u, v \in Callers : u # v => HeldBy(u)' \cap HeldBy(v)' = {}
  BY <1>1, <1>5 DEF IInv, DeviceMemoryAccounted
<1>10. live' = live
  BY DEF FreePages
<1>11. DeviceMemoryAccounted'
  BY <1>1, <1>8, <1>9, <1>10 DEF IInv, DeviceMemoryAccounted
<1> QED
  BY <1>1, <1>3, <1>4, <1>10, <1>11 DEF IInv

(* Every locked section and every callback keeps lists and pages good.     *)
LEMMA NextIInv == IInv /\ [Next]_vars => IInv'
<1> SUFFICES ASSUME IInv, [Next]_vars
             PROVE  IInv'
  OBVIOUS
<1>1. ASSUME NEW t \in Callers, NEW size \in Sizes, NEW align \in Aligns,
             Serve(t, size, align) \/ Miss(t, size, align)
      PROVE  IInv'
  BY <1>1, ServeIInv, MissIInv
<1>2. ASSUME NEW t \in Callers, NewPages(t) \/ LinkPage(t) \/ FreePages(t)
      PROVE  IInv'
  BY <1>2, NewPagesIInv, LinkPageIInv, FreePagesIInv
<1>3. ASSUME NEW t \in Callers, NEW h \in Handles, NEW b \in live[h],
             Free(t, h, b) \/ Destroy(t, h, b)
      PROVE  IInv'
  BY <1>3, FreeIInv, DestroyIInv
<1>4. CASE UNCHANGED vars
  <2>1. UNCHANGED <<lists, home, freeBlocks, sumFree, live>> /\ device' = device /\ call' = call
    BY <1>4 DEF vars
  <2>2. ListsGood' /\ PagesGood' /\ Pages' = Pages
    BY <2>1, SamePages
  <2>3. TypeOK'
    BY <2>1 DEF IInv, TypeOK
  <2>4. \A u \in Callers : HeldBy(u)' = HeldBy(u)
    BY <2>1 DEF HeldBy
  <2>5. DeviceMemoryAccounted'
    BY <2>1, <2>2, <2>4 DEF IInv, DeviceMemoryAccounted
  <2> QED
    BY <2>2, <2>3, <2>5 DEF IInv
<1> QED
  BY <1>1, <1>2, <1>3, <1>4 DEF Next

(* The inductive invariant holds in every reachable state.                 *)
THEOREM Inductive == Spec => []IInv
<1> QED
  BY InitIInv, NextIInv, PTL DEF Spec

(* Whatever the moves between the lists, in which a page that fills up may *)
(* end on the free list of its class, each page is linked once and nothing *)
(* else is linked.                                                         *)
THEOREM PagesLinkedOnce == Spec => []EachPageLinkedOnce
<1>1. IInv => EachPageLinkedOnce
  BY LinksCount DEF IInv, ListsGood, Pages, EachPageLinkedOnce
<1> QED
  BY <1>1, Inductive, PTL

(* No byte of any page is lost or handed out twice, and m_sum_free_size is *)
(* right.                                                                  *)
THEOREM BytesPartitioned == Spec => []PagesPartitioned
<1>1. IInv => PagesPartitioned
  BY DEF IInv, PagesGood, GoodPage, PagesPartitioned
<1> QED
  BY <1>1, Inductive, PTL

(* is_on_free_page_list's asserts never fail.                              *)
THEOREM FlagRight == Spec => []FlagMatchesBlocks
<1>1. IInv => FlagMatchesBlocks
  BY DEF IInv, PagesGood, FlagMatchesBlocks
<1> QED
  BY <1>1, Inductive, PTL

(* No device memory leaks or is given back while something lives in it,    *)
(* although the callbacks run outside the lock.                            *)
THEOREM MemoryAccounted == Spec => []DeviceMemoryAccounted
<1>1. IInv => DeviceMemoryAccounted
  BY DEF IInv
<1> QED
  BY <1>1, Inductive, PTL

-----------------------------------------------------------------------------
(* The heap without lists                                                  *)

\* The device memory of the mapping.
HeapDevice == Pages \cup UNION {HeldBy(t) : t \in Callers}

(* The instance of DeviceHeap speaks of the same blocks as Slob.           *)
LEMMA SameBlocks ==
    /\ \A o, size : Heap!Block(o, size) = Block(o, size)
    /\ \A b : Heap!End(b) = End(b) /\ Heap!Bytes(b) = Bytes(b)
    /\ \A B : Heap!BytesOf(B) = BytesOf(B)
BY DEF Heap!Block, Heap!Bytes, Heap!BytesOf, Heap!End, Block, Bytes, BytesOf, End

(* A page that gains a block does so as the heap allows.                   *)
LEMMA GainsRefines ==
    ASSUME NEW h \in Handles, h \in HeapDevice, HeapDevice' = HeapDevice,
           NEW size \in Sizes, NEW align \in Aligns, Gains(h, size, align)
    PROVE  Heap!Next
<1>1. PICK o \in 0 .. PageSize :
          /\ o % align = 0 /\ End(Block(o, size)) <= PageSize
          /\ Bytes(Block(o, size)) \cap BytesOf(live[h]) = {}
          /\ live' = [live EXCEPT ![h] = @ \cup {Block(o, size)}]
  BY DEF Gains
<1>2. Block(o, size).offset = o /\ o >= 0
  BY DEF Block
<1>3. Heap!Alloc(h, Heap!Block(o, size), align)
  BY <1>1, <1>2, SameBlocks DEF Heap!Alloc, HeapDevice
<1> QED
  BY <1>3 DEF Heap!Next

(* slob implements the heap of DeviceHeap: whatever the interleaving of    *)
(* the callers, its allocations are aligned, disjoint and in device memory *)
(* that stays until they die.                                              *)
THEOREM Refinement == Spec => ImplementsDeviceHeap
<1>1. Init => Heap!Init
  <2> SUFFICES ASSUME Init
               PROVE  Heap!Init
    OBVIOUS
  <2>1. Pages = {} /\ \A t \in Callers : HeldBy(t) = {}
    BY DEF Init, Pages, HeldBy, Idle
  <2> QED
    BY <2>1 DEF Init, Heap!Init
<1>2. IInv /\ IInv' /\ [Next]_vars => [Heap!Next]_(Heap!vars)
  <2> SUFFICES ASSUME IInv, IInv', [Next]_vars
               PROVE  Heap!Next \/ UNCHANGED Heap!vars
    OBVIOUS
  <2>1. HeapDevice = device /\ HeapDevice' = device' /\ device \subseteq Handles
    BY DEF IInv, TypeOK, DeviceMemoryAccounted, HeapDevice
  <2>2. ASSUME NEW t \in Callers, NEW size \in Sizes, NEW align \in Aligns, Serve(t, size, align)
        PROVE  Heap!Next
    <3>1. \E h \in device : Gains(h, size, align)
      BY <2>2, ServeIInv
    <3> QED
      BY <2>1, <2>2, <3>1, GainsRefines DEF Serve
  <2>3. ASSUME NEW t \in Callers, LinkPage(t)
        PROVE  Heap!Next
    <3>1. \E h \in device, size \in Sizes, align \in Aligns : Gains(h, size, align)
      BY <2>3, LinkPageIInv
    <3> QED
      BY <2>1, <2>3, <3>1, GainsRefines DEF LinkPage
  <2>4. ASSUME live' = live, device' = device
        PROVE  UNCHANGED Heap!vars
    BY <2>1, <2>4 DEF Heap!vars, HeapDevice
  <2>5. ASSUME NEW t \in Callers, NewPages(t)
        PROVE  Heap!Next \/ UNCHANGED Heap!vars
    <3>1. live' = live /\ (device' = device \/ \E h \in Handles \ device : device' = device \cup {h})
      BY <2>5, NewPagesIInv
    <3>2. ASSUME NEW h \in Handles \ device, device' = device \cup {h}
          PROVE  Heap!Grow(h)
      BY <2>1, <3>1, <3>2 DEF Heap!Grow, HeapDevice
    <3> QED
      BY <2>4, <3>1, <3>2 DEF Heap!Next
  <2>6. ASSUME NEW t \in Callers, FreePages(t)
        PROVE  Heap!Next
    <3>1. PICK h \in device : live[h] = {} /\ device' = device \ {h} /\ live' = live
      BY <2>6, FreePagesIInv
    <3>2. Heap!Shrink(h)
      BY <2>1, <3>1 DEF Heap!Shrink, HeapDevice
    <3> QED
      BY <2>1, <3>2 DEF Heap!Next
  <2>7. ASSUME NEW t \in Callers, NEW h \in Handles, NEW b \in live[h],
               Free(t, h, b) \/ Destroy(t, h, b)
        PROVE  Heap!Next
    <3>1. Heap!Free(h, b)
      BY <2>1, <2>7 DEF Free, Destroy, Heap!Free, HeapDevice
    <3> QED
      BY <3>1 DEF Heap!Next
  <2>8. ASSUME NEW t \in Callers, NEW size \in Sizes, NEW align \in Aligns, Miss(t, size, align)
        PROVE  UNCHANGED Heap!vars
    BY <2>4, <2>8 DEF Miss
  <2>9. CASE UNCHANGED vars
    BY <2>4, <2>9 DEF vars
  <2> QED
    BY <2>2, <2>3, <2>5, <2>6, <2>7, <2>8, <2>9 DEF Next
<1> QED
  BY <1>1, <1>2, Inductive, PTL DEF Spec, ImplementsDeviceHeap, Heap!Spec
=============================================================================
