--------------------------- MODULE RingBuffer_proofs ---------------------------
(***************************************************************************)
(* ring_buffer, for a buffer of any size and a client that asks for ranges *)
(* of any sizes.  Up to the first request that overtakes, ranges in flight *)
(* are disjoint, free never reaches its assert(0), and the ring implements *)
(* a queue of ranges; such a request does harm at once; and a client that  *)
(* asks for one size never gets it granted.                                *)
(*                                                                         *)
(* The invariant (IInv) lays the ranges in flight end to end, in one piece *)
(* or, wrapped, in two.  For clients of one size a second one (SlotInv)    *)
(* numbers the whole chunks of the buffer.                                 *)
(***************************************************************************)
EXTENDS RingBuffer, TLAPS

\* The ranges i to j of s fill the bytes from a up to b, one after the other.
Row(s, i, j, a, b) ==
    /\ i > j => a = b
    /\ i <= j => s[i].offset = a /\ s[j].offset + s[j].size = b
    /\ \A k \in i .. j : a <= s[k].offset /\ s[k].offset + s[k].size <= b
    /\ \A k, l \in i .. j : k < l => s[k].offset + s[k].size <= s[l].offset
    /\ \A k \in i .. j : k + 1 <= j => s[k].offset + s[k].size = s[k + 1].offset

Ranges == [offset : Nat, size : Nat \ {0}]

\* The free bytes end a lap ahead of the oldest range.
Ahead ==
    /\ ring.end >= ring.size /\ ring.rem = 0 /\ ring.begin <= ring.size
    /\ Row(taken, 1, Len(taken), ring.end - ring.size, ring.begin)

\* The first m ranges are before the wrap, the others after it.
Wrapped(m) ==
    /\ ring.end < ring.size /\ ring.begin <= ring.end
    /\ m < Len(taken)
    /\ Row(taken, 1, m, ring.end, ring.size - ring.rem)
    /\ Row(taken, m + 1, Len(taken), 0, ring.begin)

Shape ==
    /\ ring \in [size : Nat, begin : Nat, end : Nat, rem : Nat]
    /\ ring.size = use.size
    /\ Ahead \/ \E m \in Nat \ {0} : Wrapped(m)

IInv ==
    /\ use \in Uses
    /\ overtaken \in BOOLEAN
    /\ granted \in BOOLEAN
    /\ ~overtaken => taken \in Seq(Ranges) /\ Shape

-----------------------------------------------------------------------------

(* One more range at the end of a row.                                     *)
LEMMA RowGrows ==
  ASSUME NEW s \in Seq(Ranges), NEW r \in Ranges, NEW i \in Nat \ {0}, NEW a \in Nat, NEW b \in Nat,
         i <= Len(s) + 1, Row(s, i, Len(s), a, b), r.offset = b, a <= b
  PROVE  Row(Append(s, r), i, Len(s) + 1, a, b + r.size)
  <1>0. Len(s) \in Nat
    OBVIOUS
  <1>1. PICK n \in Nat, t \in {Append(s, r)} : n = Len(s) /\ t = Append(s, r)
    BY <1>0
  <1>2. /\ \A k \in 1 .. n : t[k] = s[k] /\ s[k] \in Ranges
        /\ t[n + 1] = r
    BY <1>1
  <1>3. /\ i > n => a = b
        /\ i <= n => s[i].offset = a /\ s[n].offset + s[n].size = b
        /\ \A k \in i .. n : a <= s[k].offset /\ s[k].offset + s[k].size <= b
        /\ \A k, l \in i .. n : k < l => s[k].offset + s[k].size <= s[l].offset
        /\ \A k \in i .. n : k + 1 <= n => s[k].offset + s[k].size = s[k + 1].offset
    BY <1>1 DEF Row
  <1>4. r.offset \in Nat /\ r.size \in Nat \ {0} /\ r.offset = b
    BY DEF Ranges
  <1>5. \A k \in 1 .. n : s[k].offset \in Nat /\ s[k].size \in Nat \ {0}
    BY <1>2 DEF Ranges
  <1>6. t[i].offset = a /\ t[n + 1].offset + t[n + 1].size = b + r.size
    BY <1>1, <1>2, <1>3, <1>4
  <1>7. ASSUME NEW k \in i .. n + 1
        PROVE  a <= t[k].offset /\ t[k].offset + t[k].size <= b + r.size
    <2>1. CASE k = n + 1
      BY <1>2, <1>4, <2>1
    <2>2. CASE k \in i .. n
      <3>1. a <= s[k].offset /\ s[k].offset + s[k].size <= b /\ t[k] = s[k] /\ k \in 1 .. n
        BY <1>2, <1>3, <2>2
      <3> QED
        BY <1>4, <1>5, <3>1
    <2> QED
      BY <1>1, <2>1, <2>2
  <1>8. ASSUME NEW k \in i .. n + 1, NEW l \in i .. n + 1, k < l
        PROVE  t[k].offset + t[k].size <= t[l].offset
    <2>1. k \in i .. n /\ k \in 1 .. n /\ t[k] = s[k]
      BY <1>1, <1>2, <1>8
    <2>2. CASE l = n + 1
      BY <1>2, <1>3, <1>4, <2>1, <2>2
    <2>3. CASE l \in i .. n
      <3>1. s[k].offset + s[k].size <= s[l].offset /\ t[l] = s[l]
        BY <1>2, <1>3, <1>8, <2>1, <2>3
      <3> QED
        BY <2>1, <3>1
    <2> QED
      BY <1>1, <2>2, <2>3
  <1>9. ASSUME NEW k \in i .. n + 1, k + 1 <= n + 1
        PROVE  t[k].offset + t[k].size = t[k + 1].offset
    <2>1. k \in i .. n /\ k \in 1 .. n /\ t[k] = s[k]
      BY <1>1, <1>2, <1>9
    <2>2. CASE k = n
      BY <1>2, <1>3, <1>4, <2>1, <2>2
    <2>3. CASE k + 1 <= n
      <3>1. k + 1 \in 1 .. n
        BY <1>1, <2>1, <2>3
      <3>2. s[k].offset + s[k].size = s[k + 1].offset /\ t[k + 1] = s[k + 1]
        BY <1>2, <1>3, <2>1, <2>3, <3>1
      <3> QED
        BY <2>1, <3>2
    <2> QED
      BY <1>1, <2>1, <2>2, <2>3
  <1>10. Row(t, i, n + 1, a, b + r.size)
    BY <1>1, <1>6, <1>7, <1>8, <1>9 DEF Row
  <1> QED
    BY <1>1, <1>10

(* A row depends on the ranges it is made of.                              *)
LEMMA RowKept ==
  ASSUME NEW s, NEW t, NEW i \in Nat, NEW j \in Nat, NEW a, NEW b,
         Row(s, i, j, a, b), \A k \in i .. j : t[k] = s[k]
  PROVE  Row(t, i, j, a, b)
  <1>1. \A k \in i .. j : k + 1 <= j => k + 1 \in i .. j
    OBVIOUS
  <1>2. i <= j => i \in i .. j /\ j \in i .. j
    OBVIOUS
  <1>3. i <= j => t[i].offset = a /\ t[j].offset + t[j].size = b
    BY <1>2 DEF Row
  <1>4. \A k \in i .. j : a <= t[k].offset /\ t[k].offset + t[k].size <= b
    BY DEF Row
  <1>5. \A k, l \in i .. j : k < l => t[k].offset + t[k].size <= t[l].offset
    BY DEF Row
  <1>6. \A k \in i .. j : k + 1 <= j => t[k].offset + t[k].size = t[k + 1].offset
    BY <1>1 DEF Row
  <1>7. i > j => a = b
    BY DEF Row
  <1> QED
    BY <1>3, <1>4, <1>5, <1>6, <1>7 DEF Row

(* Without the head of the sequence a row is one place further to the      *)
(* front.                                                                  *)
LEMMA RowShifts ==
  ASSUME NEW s, NEW t, NEW i \in Nat, NEW j \in Nat, NEW a, NEW b,
         Row(s, i + 1, j + 1, a, b), \A k \in i .. j : t[k] = s[k + 1]
  PROVE  Row(t, i, j, a, b)
  <1>1. \A k \in i .. j : k + 1 \in i + 1 .. j + 1
    OBVIOUS
  <1>2. \A k \in i .. j : k + 1 <= j => k + 1 \in i .. j /\ (k + 1) + 1 <= j + 1
    OBVIOUS
  <1>3. i <= j => i \in i .. j /\ j \in i .. j /\ i + 1 <= j + 1
    OBVIOUS
  <1>4. i <= j => t[i].offset = a /\ t[j].offset + t[j].size = b
    BY <1>3 DEF Row
  <1>5. \A k \in i .. j : a <= t[k].offset /\ t[k].offset + t[k].size <= b
    BY <1>1 DEF Row
  <1>6. ASSUME NEW k \in i .. j, NEW l \in i .. j, k < l
        PROVE  t[k].offset + t[k].size <= t[l].offset
    BY <1>1, <1>6 DEF Row
  <1>7. ASSUME NEW k \in i .. j, k + 1 <= j
        PROVE  t[k].offset + t[k].size = t[k + 1].offset
    <2>1. k + 1 \in i + 1 .. j + 1 /\ (k + 1) + 1 <= j + 1
      BY <1>7
    <2>2. s[k + 1].offset + s[k + 1].size = s[(k + 1) + 1].offset
      BY <2>1 DEF Row
    <2>3. t[k] = s[k + 1] /\ t[k + 1] = s[(k + 1) + 1]
      BY <1>2, <1>7
    <2> QED
      BY <2>2, <2>3
  <1>8. i > j => a = b
    BY DEF Row
  <1> QED
    BY <1>4, <1>5, <1>6, <1>7, <1>8 DEF Row

(* Without its first range a row begins where that one ended.              *)
LEMMA RowLosesFirst ==
  ASSUME NEW s \in Seq(Ranges), NEW j \in Nat, 1 <= j, j <= Len(s), NEW a, NEW b,
         Row(s, 1, j, a, b)
  PROVE  /\ s[1].offset = a
         /\ Row(s, 2, j, a + s[1].size, b)
  <1>1. s[1].offset = a
    BY DEF Row
  <1>2. \A k \in 1 .. j : s[k].offset \in Nat /\ s[k].size \in Nat \ {0}
    <2>1. \A k \in 1 .. j : s[k] \in Ranges
      OBVIOUS
    <2> QED
      BY <2>1 DEF Ranges
  <1>3. 1 \in 1 .. j
    OBVIOUS
  <1>4. 2 > j => a + s[1].size = b
    BY <1>1 DEF Row
  <1>5. 2 <= j => s[2].offset = a + s[1].size /\ s[j].offset + s[j].size = b
    <2> SUFFICES ASSUME 2 <= j PROVE s[2].offset = a + s[1].size /\ s[j].offset + s[j].size = b
      OBVIOUS
    <2>1. 1 + 1 <= j => s[1].offset + s[1].size = s[1 + 1].offset
      BY <1>3 DEF Row
    <2> QED
      BY <1>1, <2>1 DEF Row
  <1>6. \A k \in 2 .. j : k \in 1 .. j /\ 1 < k
    OBVIOUS
  <1>7. \A k \in 2 .. j : a + s[1].size <= s[k].offset /\ s[k].offset + s[k].size <= b
    BY <1>1, <1>3, <1>6 DEF Row
  <1>8. /\ \A k, l \in 2 .. j : k < l => s[k].offset + s[k].size <= s[l].offset
        /\ \A k \in 2 .. j : k + 1 <= j => s[k].offset + s[k].size = s[k + 1].offset
    BY <1>6 DEF Row
  <1> QED
    BY <1>1, <1>4, <1>5, <1>7, <1>8 DEF Row

-----------------------------------------------------------------------------
\* The invariant

(* A fresh ring is one lap ahead, with nothing in flight.                  *)
LEMMA InitIInv == Init => IInv
  <1> SUFFICES ASSUME Init PROVE IInv
    OBVIOUS
  <1>1. use \in Uses /\ use.size \in Nat \ {0}
    BY RingBufferAssumption DEF Init
  <1>2. /\ ring = [size |-> use.size, begin |-> 0, end |-> use.size, rem |-> 0]
        /\ taken = <<>> /\ granted = TRUE /\ overtaken = FALSE
    BY DEF Init, NewRing
  <1>3. Row(taken, 1, 0, 0, 0)
    BY DEF Row
  <1>4. Len(taken) = 0 /\ taken \in Seq(Ranges)
    BY <1>2
  <1>5. Ahead
    <2>1. ring.end - ring.size = 0 /\ ring.begin = 0
      BY <1>1, <1>2
    <2>2. ring.end >= ring.size /\ ring.rem = 0 /\ ring.begin <= ring.size
      BY <1>1, <1>2
    <2> QED
      BY <1>3, <1>4, <2>1, <2>2 DEF Ahead
  <1> QED
    BY <1>1, <1>2, <1>4, <1>5 DEF IInv, Shape

(* What a request is.                                                      *)
LEMMA Requests ==
  ASSUME use \in Uses, NEW n \in use.chunks
  PROVE  n \in Nat \ {0} /\ n <= use.size /\ use.size \in Nat \ {0}
  <1>1. use.size \in Nat \ {0} /\ n \in 1 .. use.size
    BY RingBufferAssumption
  <1> QED
    BY <1>1

(* The range that alloc hands out joins those in flight.                   *)
LEMMA TakenGrows ==
  ASSUME taken \in Seq(Ranges), NEW n \in Nat \ {0}, NEW at \in Nat, OutOffset(ring, n) = at,
         Alloc(n)
  PROVE  /\ taken' = Append(taken, [offset |-> at, size |-> n])
         /\ [offset |-> at, size |-> n] \in Ranges
         /\ taken' \in Seq(Ranges)
         /\ Len(taken) \in Nat /\ Len(taken') = Len(taken) + 1
         /\ \A k \in 1 .. Len(taken) : taken'[k] = taken[k]
         /\ taken'[Len(taken) + 1] = [offset |-> at, size |-> n]
  <1>1. taken' = Append(taken, [offset |-> at, size |-> n])
    BY DEF Alloc
  <1>2. [offset |-> at, size |-> n] \in Ranges
    BY DEF Ranges
  <1> QED
    BY <1>1, <1>2

(* A request that fits at m_buffer_begin makes the last row longer.        *)
LEMMA AllocAtBegin ==
  ASSUME IInv, ~overtaken, NEW n \in use.chunks, Alloc(n), ~Wraps(ring, n)
  PROVE  IInv'
  <1>1. n \in Nat \ {0} /\ n <= use.size /\ use' = use
    BY Requests DEF IInv, Alloc
  <1>2. Shape /\ taken \in Seq(Ranges)
    BY DEF IInv
  <1>3. ring \in [size : Nat, begin : Nat, end : Nat, rem : Nat] /\ ring.size = use.size
    BY <1>2 DEF Shape
  <1>4. PICK b \in Nat, e \in Nat, z \in Nat, r \in Nat :
            /\ ring = [size |-> z, begin |-> b, end |-> e, rem |-> r]
            /\ ring.size = z /\ ring.begin = b /\ ring.end = e /\ ring.rem = r
    BY <1>3
  <1>5. OutOffset(ring, n) = b /\ CanAlloc(ring, n) /\ AllocatesAtBegin(ring, n)
    BY <1>4 DEF OutOffset, Alloc, CanAlloc
  <1>6. ring' = [size |-> z, begin |-> b + n, end |-> e, rem |-> r]
    BY <1>4 DEF Alloc, AfterAlloc
  <1>7. /\ taken' = Append(taken, [offset |-> b, size |-> n])
        /\ [offset |-> b, size |-> n] \in Ranges
        /\ taken' \in Seq(Ranges)
        /\ Len(taken) \in Nat /\ Len(taken') = Len(taken) + 1
        /\ \A k \in 1 .. Len(taken) : taken'[k] = taken[k]
    BY <1>1, <1>2, <1>5, TakenGrows
  <1>8. ASSUME NEW i \in Nat \ {0}, NEW a \in Nat, i <= Len(taken) + 1, a <= b,
               Row(taken, i, Len(taken), a, b)
        PROVE  Row(taken', i, Len(taken'), a, b + n)
    <2>1. Row(Append(taken, [offset |-> b, size |-> n]), i, Len(taken) + 1, a, b + n)
      BY <1>1, <1>2, <1>7, <1>8, RowGrows
    <2> QED
      BY <1>7, <2>1
  <1>9. CASE Ahead
    <2>4. e >= z /\ r = 0 /\ b <= z /\ Row(taken, 1, Len(taken), e - z, b)
      BY ONLY <1>4, <1>9 DEF Ahead
    <2>5. n + b <= z
      BY ONLY <1>4, <1>5, <2>4 DEF AllocatesAtBegin
    <2>1. e >= z /\ r = 0 /\ b <= z /\ Row(taken, 1, Len(taken), e - z, b) /\ b + n <= z
      BY <1>1, <2>4, <2>5
    <2>2. e - z <= b
      <3>1. CASE Len(taken) = 0
        BY <2>1, <3>1 DEF Row
      <3>2. CASE Len(taken) > 0
        <4>1. 1 \in 1 .. Len(taken) /\ taken[1] \in Ranges
          BY <1>2, <1>7, <3>2
        <4>2. e - z <= taken[1].offset /\ taken[1].offset + taken[1].size <= b
          BY <2>1, <4>1 DEF Row
        <4> QED
          BY <4>1, <4>2 DEF Ranges
      <3> QED
        BY <1>7, <3>1, <3>2
    <2>3. Row(taken', 1, Len(taken'), e - z, b + n)
      BY <1>7, <1>8, <2>1, <2>2, e - z \in Nat
    <2>6. Ahead'
      BY <1>6, <2>1, <2>3 DEF Ahead
    <2> QED
      BY <1>1, <1>3, <1>4, <1>6, <1>7, <2>6 DEF IInv, Shape, Alloc
  <1>10. ASSUME NEW m \in Nat \ {0}, Wrapped(m) PROVE IInv'
    <2>5. /\ e < z /\ b <= e /\ m < Len(taken)
          /\ Row(taken, 1, m, e, z - r)
          /\ Row(taken, m + 1, Len(taken), 0, b)
      BY ONLY <1>4, <1>10 DEF Wrapped
    <2>6. n + b <= e
      BY ONLY <1>4, <1>5, <2>5 DEF AllocatesAtBegin
    <2>1. /\ e < z /\ b <= e /\ m < Len(taken) /\ b + n <= e
          /\ Row(taken, 1, m, e, z - r)
          /\ Row(taken, m + 1, Len(taken), 0, b)
      BY <1>1, <2>5, <2>6
    <2>2. Row(taken', m + 1, Len(taken'), 0, b + n)
      BY <1>7, <1>8, <2>1, m + 1 \in Nat \ {0}
    <2>3. Row(taken', 1, m, e, z - r)
      <3>1. \A k \in 1 .. m : taken'[k] = taken[k]
        BY <1>7, <2>1
      <3> QED
        BY <2>1, <3>1, RowKept
    <2>4. Wrapped(m)'
      BY <1>6, <1>7, <2>1, <2>2, <2>3 DEF Wrapped
    <2> QED
      BY <1>1, <1>3, <1>4, <1>6, <1>7, <2>4 DEF IInv, Shape, Alloc
  <1> QED
    BY <1>2, <1>9, <1>10 DEF Shape

(* A request that wraps begins a second row, or, with nothing in flight    *)
(* and nothing skipped, the first one again.                               *)
LEMMA AllocAtZero ==
  ASSUME IInv, ~overtaken, NEW n \in use.chunks, Alloc(n), Wraps(ring, n), ~Overtakes(n)
  PROVE  IInv'
  <1>1. n \in Nat \ {0} /\ n <= use.size /\ use' = use
    BY Requests DEF IInv, Alloc
  <1>2. Shape /\ taken \in Seq(Ranges)
    BY DEF IInv
  <1>3. ring \in [size : Nat, begin : Nat, end : Nat, rem : Nat] /\ ring.size = use.size
    BY <1>2 DEF Shape
  <1>4. PICK b \in Nat, e \in Nat, z \in Nat, r \in Nat :
            /\ ring = [size |-> z, begin |-> b, end |-> e, rem |-> r]
            /\ ring.size = z /\ ring.begin = b /\ ring.end = e /\ ring.rem = r
    BY <1>3
  <1>5. OutOffset(ring, n) = 0 /\ e >= z /\ n + b > z /\ n + b <= e
    BY <1>4 DEF OutOffset, Wraps
  <1>6. /\ ~(\E m \in Nat \ {0} : Wrapped(m))
        /\ r = 0 /\ b <= z /\ Row(taken, 1, Len(taken), e - z, b)
    BY <1>2, <1>4, <1>5 DEF Shape, Wrapped, Ahead
  <1>7. ring' = [size |-> z, begin |-> n, end |-> e - z, rem |-> z - b]
    BY <1>4 DEF Alloc, AfterAlloc
  <1>8. /\ taken' = Append(taken, [offset |-> 0, size |-> n])
        /\ [offset |-> 0, size |-> n] \in Ranges
        /\ taken' \in Seq(Ranges)
        /\ Len(taken) \in Nat /\ Len(taken') = Len(taken) + 1
        /\ \A k \in 1 .. Len(taken) : taken'[k] = taken[k]
        /\ taken'[Len(taken) + 1] = [offset |-> 0, size |-> n]
    BY <1>1, <1>2, <1>5, TakenGrows
  <1>9. Row(taken', Len(taken) + 1, Len(taken'), 0, n)
    <2>0. PICK p \in Nat : p = Len(taken) + 1 /\ Len(taken') = p
      BY <1>8
    <2>1. PICK t : t = taken' /\ p = Len(taken) + 1 /\ Len(taken') = p
      BY <2>0
    <2>5. t[p] = [offset |-> 0, size |-> n]
      BY ONLY <1>8, <2>1
    <2>2. t[p].offset = 0 /\ t[p].size = n
      BY <2>5
    <2>3. \A k \in p .. p : k = p
      BY <2>1
    <2>4. Row(t, p, p, 0, n)
      BY <1>1, <2>2, <2>3 DEF Row
    <2> QED
      BY <2>1, <2>4
  <1>10. CASE taken # <<>>
    <2>1. Len(taken) > 0 /\ taken[1] \in Ranges /\ Head(taken) = taken[1] /\ 1 \in 1 .. Len(taken)
      BY <1>2, <1>8, <1>10
    <2>2. taken[1].offset = e - z /\ taken[1].offset + taken[1].size <= b
      BY <1>6, <2>1 DEF Row
    <2>7. PICK o \in Nat, w \in Nat \ {0} : taken[1].offset = o /\ taken[1].size = w
      BY <2>1 DEF Ranges
    <2>3. e - z < z /\ n <= e - z
      <3>1. CASE b < z
        <4>1. ~(o < n)
          BY <1>4, <1>10, <2>1, <2>7, <3>1 DEF Overtakes
        <4> QED
          BY <1>1, <1>6, <2>2, <2>7, <4>1
      <3>2. CASE b = z
        BY <1>1, <1>5, <2>2, <2>7, <3>2
      <3> QED
        BY <1>6, <3>1, <3>2
    <2>4. Row(taken', 1, Len(taken), e - z, z - (z - b))
      <3>1. Row(taken', 1, Len(taken), e - z, b)
        BY <1>6, <1>8, RowKept
      <3>2. z - (z - b) = b
        OBVIOUS
      <3> QED
        BY <3>1, <3>2
    <2>5. PICK m \in Nat \ {0} : m = Len(taken)
      BY <1>8, <2>1
    <2>6. Wrapped(m)'
      BY <1>1, <1>7, <1>8, <1>9, <2>3, <2>4, <2>5 DEF Wrapped
    <2>8. ring' \in [size : Nat, begin : Nat, end : Nat, rem : Nat] /\ ring'.size = use'.size
      BY <1>1, <1>3, <1>4, <1>5, <1>6, <1>7
    <2> QED
      BY <1>1, <1>8, <2>6, <2>8 DEF IInv, Shape, Alloc
  <1>11. CASE taken = <<>>
    <2>1. b = z
      BY <1>4, <1>6, <1>11 DEF Overtakes
    <2>2. Len(taken) = 0
      BY <1>11
    <2>3. e - z = z
      BY <1>6, <2>1, <2>2 DEF Row
    <2>4. Row(taken', 1, Len(taken'), z - z, n)
      BY <1>9, <2>2
    <2>5. Ahead'
      BY <1>1, <1>3, <1>4, <1>7, <2>1, <2>3, <2>4 DEF Ahead
    <2>6. ring' \in [size : Nat, begin : Nat, end : Nat, rem : Nat] /\ ring'.size = use'.size
      BY <1>1, <1>3, <1>4, <1>5, <1>6, <1>7
    <2> QED
      BY <1>1, <1>8, <2>5, <2>6 DEF IInv, Shape, Alloc
  <1> QED
    BY <1>10, <1>11

(* A request that overtakes ends the promise.                              *)
LEMMA AllocIInv == ASSUME IInv, NEW n \in use.chunks, Alloc(n) PROVE IInv'
  <1>1. n \in Nat \ {0}
    BY Requests DEF IInv
  <1>2. CASE ~overtaken /\ ~Overtakes(n)
    BY <1>2, AllocAtBegin, AllocAtZero
  <1>3. CASE overtaken \/ Overtakes(n)
    <2>1. overtaken' = TRUE
      BY <1>3 DEF Alloc, IInv
    <2> QED
      BY <2>1 DEF IInv, Alloc
  <1> QED
    BY <1>2, <1>3

(* free returns the first range of the first row.                          *)
LEMMA FreeIInv == ASSUME IInv, Free PROVE IInv'
  <1>1. use' = use /\ overtaken' = overtaken /\ granted' = granted
    BY DEF Free
  <1>2. CASE overtaken
    BY <1>1, <1>2 DEF IInv
  <1>3. CASE ~overtaken
    <2>1. taken \in Seq(Ranges) /\ Shape /\ use.keep \in Nat /\ use.size \in Nat \ {0}
      BY <1>3, RingBufferAssumption DEF IInv
    <2>2. Len(taken) \in Nat \ {0} /\ taken # <<>> /\ Head(taken) = taken[1]
      BY <2>1 DEF Free
    <2>3. PICK o \in Nat, w \in Nat \ {0} : taken[1].offset = o /\ taken[1].size = w
      <3>1. taken[1] \in Ranges
        BY <2>1, <2>2
      <3> QED
        BY <3>1 DEF Ranges
    <2>4. /\ taken' \in Seq(Ranges) /\ Len(taken') = Len(taken) - 1
          /\ \A k \in 1 .. Len(taken') : taken'[k] = taken[k + 1]
      BY <2>1, <2>2 DEF Free
    <2>5. ring \in [size : Nat, begin : Nat, end : Nat, rem : Nat] /\ ring.size = use.size
      BY <2>1 DEF Shape
    <2>6. PICK b \in Nat, e \in Nat, z \in Nat \ {0}, r \in Nat :
              /\ ring = [size |-> z, begin |-> b, end |-> e, rem |-> r]
              /\ ring.size = z /\ ring.begin = b /\ ring.end = e /\ ring.rem = r
      BY <2>1, <2>5
    <2>7. ring' = AfterFree(ring, o, w)
      BY <2>2, <2>3 DEF Free
    <2>8. PICK p \in Nat : Len(taken') = p /\ Len(taken) = p + 1
      BY <2>2, <2>4
    <2>9. CASE Ahead
      <3>1. e >= z /\ r = 0 /\ b <= z /\ Row(taken, 1, p + 1, e - z, b)
        BY ONLY <2>6, <2>8, <2>9 DEF Ahead
      <3>2. o = e - z /\ Row(taken, 2, p + 1, (e - z) + w, b)
        BY <2>1, <2>3, <2>8, <3>1, RowLosesFirst
      <3>3. Row(taken', 1, p, (e - z) + w, b)
        <4>1. Row(taken, 1 + 1, p + 1, (e - z) + w, b)
          BY <3>2
        <4>2. \A k \in 1 .. p : taken'[k] = taken[k + 1]
          BY <2>4, <2>8
        <4> QED
          BY <4>1, <4>2, RowShifts
      <3>4. ring' = [size |-> z, begin |-> b, end |-> e + w, rem |-> 0]
        <4>1. FreeAccepts(ring, o) /\ z + o = e
          BY <2>6, <3>1, <3>2 DEF FreeAccepts
        <4> QED
          BY <2>6, <2>7, <3>1, <4>1 DEF AfterFree
      <3>5. (e + w) - z = (e - z) + w /\ e + w >= z
        BY <3>1
      <3>6. Ahead'
        BY <2>8, <3>1, <3>3, <3>4, <3>5 DEF Ahead
      <3> QED
        BY <1>1, <2>4, <2>5, <2>6, <3>4, <3>6 DEF IInv, Shape
    <2>10. ASSUME NEW m \in Nat \ {0}, Wrapped(m) PROVE IInv'
      <3>1. /\ e < z /\ b <= e /\ m < p + 1
            /\ Row(taken, 1, m, e, z - r)
            /\ Row(taken, m + 1, p + 1, 0, b)
        BY ONLY <2>6, <2>8, <2>10 DEF Wrapped
      <3>2. o = e /\ Row(taken, 2, m, e + w, z - r)
        <4>1. 1 <= m /\ m <= Len(taken) /\ m \in Nat
          BY <2>8, <3>1
        <4>2. taken[1].offset = e /\ Row(taken, 2, m, e + taken[1].size, z - r)
          BY ONLY <2>1, <3>1, <4>1, RowLosesFirst
        <4> QED
          BY <2>3, <4>2
      <3>3. FreeAccepts(ring, o) /\ z + o # e
        BY <2>6, <3>1, <3>2 DEF FreeAccepts
      <3>4. ring' = IF r # 0 /\ r + (e + w) = z
                    THEN [size |-> z, begin |-> b, end |-> z, rem |-> 0]
                    ELSE [size |-> z, begin |-> b, end |-> e + w, rem |-> r]
        <4>1. ring.size + o # ring.end
          BY <2>6, <3>3
        <4>2. PICK joined : joined = [ring EXCEPT !.end = @ + w]
          OBVIOUS
        <4>3. AfterFree(ring, o, w) =
                  IF ring.rem # 0 /\ ring.rem + joined.end = ring.size
                  THEN [joined EXCEPT !.end = ring.size, !.rem = 0]
                  ELSE joined
          BY ONLY <3>3, <4>1, <4>2 DEF AfterFree
        <4>4. joined = [size |-> z, begin |-> b, end |-> e + w, rem |-> r] /\ joined.end = e + w
          BY <2>6, <4>2
        <4>5. [joined EXCEPT !.end = z, !.rem = 0] = [size |-> z, begin |-> b, end |-> z, rem |-> 0]
          <5>1. PICK f : f = e + w
            OBVIOUS
          <5>2. joined = [size |-> z, begin |-> b, end |-> f, rem |-> r]
            BY <4>4, <5>1
          <5>3. /\ [joined EXCEPT !.end = z] = [size |-> z, begin |-> b, end |-> z, rem |-> r]
                /\ [joined EXCEPT !.end = z, !.rem = 0] = [[joined EXCEPT !.end = z] EXCEPT !.rem = 0]
            BY ONLY <5>2
          <5>4. [[size |-> z, begin |-> b, end |-> z, rem |-> r] EXCEPT !.rem = 0]
                = [size |-> z, begin |-> b, end |-> z, rem |-> 0]
            OBVIOUS
          <5> QED
            BY ONLY <5>3, <5>4
        <4> QED
          BY <2>6, <2>7, <4>3, <4>4, <4>5
      <3>5. \A k \in 1 .. p : taken'[k] = taken[k + 1]
        BY <2>4, <2>8
      <3>6. CASE m = 1
        <4>1. e + w = z - r
          BY <3>2, <3>6 DEF Row
        <4>2. ring' = [size |-> z, begin |-> b, end |-> z, rem |-> 0]
          BY <3>1, <3>4, <4>1
        <4>3. Row(taken', 1, p, 0, b)
          BY <3>1, <3>5, <3>6, RowShifts
        <4>4. Ahead'
          BY <2>8, <3>1, <4>2, <4>3 DEF Ahead
        <4> QED
          BY <1>1, <2>4, <2>5, <2>6, <4>2, <4>4 DEF IInv, Shape
      <3>7. CASE m > 1
        <4>1. PICK d \in Nat \ {0} : m = d + 1 /\ d < p
          <5>1. m - 1 \in Nat \ {0} /\ m = (m - 1) + 1
            BY <3>7
          <5> QED
            BY <3>1, <5>1
        <4>2. e + w < z - r
          <5>1. taken[2].offset + taken[2].size <= z - r /\ taken[2].offset = e + w
            <6>1. 2 \in 2 .. m /\ 2 <= m
              BY <3>7
            <6> QED
              BY <3>2, <6>1 DEF Row
          <5>2. taken[2] \in Ranges
            BY <2>1, <2>8, <3>1, <3>7
          <5> QED
            BY <5>1, <5>2 DEF Ranges
        <4>3. ring' = [size |-> z, begin |-> b, end |-> e + w, rem |-> r]
          BY <3>4, <4>2
        <4>4. Row(taken', 1, d, e + w, z - r)
          <5>1. Row(taken, 1 + 1, d + 1, e + w, z - r)
            BY <3>2, <4>1
          <5>2. \A k \in 1 .. d : taken'[k] = taken[k + 1]
            BY <3>5, <4>1
          <5> QED
            BY <5>1, <5>2, RowShifts
        <4>5. Row(taken', d + 1, p, 0, b)
          <5>1. Row(taken, (d + 1) + 1, p + 1, 0, b)
            BY <3>1, <4>1
          <5>2. \A k \in d + 1 .. p : taken'[k] = taken[k + 1]
            BY <3>5, <4>1
          <5> QED
            BY <5>1, <5>2, RowShifts
        <4>6. Wrapped(d)'
          <5>1. ring'.end < ring'.size /\ ring'.begin <= ring'.end
            BY <3>1, <4>2, <4>3
          <5>2. d < Len(taken') /\ ring'.size - ring'.rem = z - r /\ ring'.end = e + w /\ ring'.begin = b
            BY <2>8, <4>1, <4>3
          <5> QED
            BY <2>8, <4>4, <4>5, <5>1, <5>2 DEF Wrapped
        <4>7. ring' \in [size : Nat, begin : Nat, end : Nat, rem : Nat] /\ ring'.size = use'.size
          BY <1>1, <2>5, <2>6, <4>3
        <4> QED
          BY <1>1, <2>4, <4>6, <4>7 DEF IInv, Shape
      <3> QED
        BY <3>6, <3>7
    <2> QED
      BY <2>1, <2>9, <2>10 DEF Shape
  <1> QED
    BY <1>2, <1>3 DEF IInv

(* Every step of the client keeps the rows.                                *)
LEMMA NextIInv == IInv /\ [Next]_vars => IInv'
  <1> SUFFICES ASSUME IInv, [Next]_vars PROVE IInv'
    OBVIOUS
  <1>1. ASSUME UNCHANGED <<use, ring, taken, overtaken>>, granted' \in BOOLEAN PROVE IInv'
    <2>1. Ahead' <=> Ahead
      BY <1>1 DEF Ahead
    <2>2. \A m \in Nat \ {0} : Wrapped(m)' <=> Wrapped(m)
      BY <1>1 DEF Wrapped
    <2> QED
      BY <1>1, <2>1, <2>2 DEF IInv, Shape
  <1>2. CASE UNCHANGED vars
    BY <1>1, <1>2 DEF vars, IInv
  <1>3. ASSUME NEW n \in use.chunks, AllocFails(n) PROVE IInv'
    BY <1>1, <1>3 DEF AllocFails
  <1> QED
    BY <1>2, <1>3, AllocIInv, FreeIInv DEF Next

(* The ranges of the two rows are apart, and so are those of one.          *)
LEMMA DisjointRanges == IInv => NoOverlap
  <1> SUFFICES ASSUME IInv, ~overtaken PROVE Disjoint
    BY DEF NoOverlap
  <1>1. /\ taken \in Seq(Ranges) /\ ring \in [size : Nat, begin : Nat, end : Nat, rem : Nat]
        /\ ring.size = use.size /\ Shape
    BY DEF IInv, Shape
  <1>2. PICK b \in Nat, e \in Nat, z \in Nat, r \in Nat :
            ring.size = z /\ ring.begin = b /\ ring.end = e /\ ring.rem = r /\ use.size = z
    BY <1>1
  <1>3. PICK p \in Nat : Len(taken) = p
    BY <1>1
  <1>4. \A i \in 1 .. p : taken[i].offset \in Nat /\ taken[i].size \in Nat
    <2>1. \A i \in 1 .. p : taken[i] \in Ranges
      BY <1>1, <1>3
    <2> QED
      BY <2>1 DEF Ranges
  <1>5. CASE Ahead
    <2>1. b <= z /\ Row(taken, 1, p, e - z, b)
      BY ONLY <1>2, <1>3, <1>5 DEF Ahead
    <2>2. \A i \in 1 .. p : taken[i].offset + taken[i].size <= z
      BY <1>4, <2>1 DEF Row
    <2>3. \A i, j \in 1 .. p : i < j => taken[i].offset + taken[i].size <= taken[j].offset
      BY <2>1 DEF Row
    <2> QED
      BY <1>2, <1>3, <2>2, <2>3 DEF Disjoint
  <1>6. ASSUME NEW m \in Nat \ {0}, Wrapped(m) PROVE Disjoint
    <2>1. /\ e < z /\ b <= e /\ m < p
          /\ Row(taken, 1, m, e, z - r)
          /\ Row(taken, m + 1, p, 0, b)
      BY ONLY <1>2, <1>3, <1>6 DEF Wrapped
    <2>2. ASSUME NEW i \in 1 .. m
          PROVE  e <= taken[i].offset /\ taken[i].offset + taken[i].size <= z
      BY <1>4, <2>1 DEF Row
    <2>3. ASSUME NEW i \in m + 1 .. p
          PROVE  taken[i].offset + taken[i].size <= b
      BY <2>1 DEF Row
    <2>4. \A i \in 1 .. p : i \in 1 .. m \/ i \in m + 1 .. p
      OBVIOUS
    <2>5. \A i \in 1 .. p : taken[i].offset + taken[i].size <= z
      BY <1>4, <2>1, <2>2, <2>3, <2>4
    <2>6. ASSUME NEW i \in 1 .. p, NEW j \in 1 .. p, i < j
          PROVE  \/ taken[i].offset + taken[i].size <= taken[j].offset
                 \/ taken[j].offset + taken[j].size <= taken[i].offset
      <3>1. CASE j \in 1 .. m
        <4>1. i \in 1 .. m
          BY <2>6, <3>1
        <4> QED
          BY <2>1, <2>6, <3>1, <4>1 DEF Row
      <3>2. CASE i \in m + 1 .. p
        <4>1. j \in m + 1 .. p
          BY <2>6, <3>2
        <4> QED
          BY <2>1, <2>6, <3>2, <4>1 DEF Row
      <3>3. CASE i \in 1 .. m /\ j \in m + 1 .. p
        BY <1>4, <2>1, <2>2, <2>3, <3>3
      <3> QED
        BY <2>4, <3>1, <3>2, <3>3
    <2> QED
      BY <1>2, <1>3, <2>5, <2>6 DEF Disjoint
  <1> QED
    BY <1>1, <1>5, <1>6 DEF Shape

(* The oldest range is the first of the first row.                         *)
LEMMA OldestFirst == IInv => OldestIsAccepted
  <1> SUFFICES ASSUME IInv, ~overtaken, taken # <<>> PROVE FreeAccepts(ring, Head(taken).offset)
    BY DEF OldestIsAccepted, Accepted
  <1>1. /\ taken \in Seq(Ranges) /\ ring \in [size : Nat, begin : Nat, end : Nat, rem : Nat]
        /\ Shape
    BY DEF IInv, Shape
  <1>2. PICK p \in Nat \ {0} : Len(taken) = p /\ Head(taken) = taken[1]
    BY <1>1
  <1>3. CASE Ahead
    <2>1. Row(taken, 1, p, ring.end - ring.size, ring.begin)
      BY <1>2, <1>3 DEF Ahead
    <2>2. taken[1].offset = ring.end - ring.size
      BY <2>1 DEF Row
    <2> QED
      BY <1>1, <1>2, <2>2 DEF FreeAccepts
  <1>4. ASSUME NEW m \in Nat \ {0}, Wrapped(m) PROVE FreeAccepts(ring, Head(taken).offset)
    <2>1. Row(taken, 1, m, ring.end, ring.size - ring.rem)
      BY <1>4 DEF Wrapped
    <2>2. taken[1].offset = ring.end
      BY <2>1 DEF Row
    <2> QED
      BY <1>2, <2>2 DEF FreeAccepts
  <1> QED
    BY <1>1, <1>3, <1>4 DEF Shape

-----------------------------------------------------------------------------

(* The rows hold throughout.                                               *)
THEOREM Inductive == Spec => []IInv
  BY InitIInv, NextIInv, PTL DEF Spec

(* Up to the first request that overtakes, the ranges in flight are        *)
(* disjoint and in the buffer, for requests of any sizes.                  *)
THEOREM RangesDisjoint == Spec => []NoOverlap
  BY Inductive, DisjointRanges, PTL

(* Up to the first request that overtakes, free never reaches assert(0).   *)
THEOREM OldestAccepted == Spec => []OldestIsAccepted
  BY Inductive, OldestFirst, PTL

-----------------------------------------------------------------------------
\* Requests that overtake

(* What overtakes is granted over the oldest range, or, with nothing in    *)
(* flight, so that m_buffer_end does not say where it is.                  *)
LEMMA OvertakingHarms ==
  ASSUME IInv, ~overtaken, NEW n \in use.chunks, Alloc(n), Overtakes(n)
  PROVE  ~Disjoint' \/ ~Accepted'
  <1>1. n \in Nat \ {0} /\ n <= use.size
    BY Requests DEF IInv
  <1>2. Shape /\ taken \in Seq(Ranges)
    BY DEF IInv
  <1>3. ring \in [size : Nat, begin : Nat, end : Nat, rem : Nat] /\ ring.size = use.size
    BY <1>2 DEF Shape
  <1>4. PICK b \in Nat, e \in Nat, z \in Nat, r \in Nat :
            /\ ring = [size |-> z, begin |-> b, end |-> e, rem |-> r]
            /\ ring.size = z /\ ring.begin = b /\ ring.end = e /\ ring.rem = r
    BY <1>3
  <1>5. OutOffset(ring, n) = 0 /\ e >= z /\ n + b > z /\ n + b <= e /\ b < z
    BY <1>4 DEF Overtakes, OutOffset, Wraps
  <1>6. Wraps(ring, n)
    BY DEF Overtakes
  <1>7. ring' = [size |-> z, begin |-> n, end |-> e - z, rem |-> z - b]
    BY <1>4, <1>6 DEF Alloc, AfterAlloc
  <1>8. /\ taken' \in Seq(Ranges)
        /\ Len(taken) \in Nat /\ Len(taken') = Len(taken) + 1
        /\ \A k \in 1 .. Len(taken) : taken'[k] = taken[k]
        /\ taken'[Len(taken) + 1] = [offset |-> 0, size |-> n]
    BY <1>1, <1>2, <1>5, TakenGrows
  <1>9. CASE taken # <<>>
    <2>1. PICK p \in Nat \ {0} : p = Len(taken) /\ Head(taken) = taken[1]
      BY <1>2, <1>9
    <2>2. PICK o \in Nat, w \in Nat \ {0} : taken[1].offset = o /\ taken[1].size = w
      <3>1. taken[1] \in Ranges
        BY <1>2, <2>1
      <3> QED
        BY <3>1 DEF Ranges
    <2>3. o < n
      BY <1>9, <2>1, <2>2 DEF Overtakes
    <2>4. taken'[1] = taken[1] /\ taken'[p + 1] = [offset |-> 0, size |-> n]
      BY <1>8, <2>1
    <2>5. /\ taken'[1].offset = o /\ taken'[1].size = w
          /\ taken'[p + 1].offset = 0 /\ taken'[p + 1].size = n
      BY <2>2, <2>4
    <2>6. ~(o + w <= 0) /\ ~(0 + n <= o)
      BY <1>1, <2>3
    <2>7. 1 \in 1 .. Len(taken') /\ p + 1 \in 1 .. Len(taken') /\ 1 < p + 1
      BY <1>8, <2>1
    <2>8. ~Disjoint'
      <3> SUFFICES ASSUME \A i, j \in 1 .. Len(taken') : i < j =>
                             \/ taken'[i].offset + taken'[i].size <= taken'[j].offset
                             \/ taken'[j].offset + taken'[j].size <= taken'[i].offset
                   PROVE  FALSE
        BY DEF Disjoint
      <3>1. \/ taken'[1].offset + taken'[1].size <= taken'[p + 1].offset
            \/ taken'[p + 1].offset + taken'[p + 1].size <= taken'[1].offset
        BY ONLY <2>7, \A i, j \in 1 .. Len(taken') : i < j =>
                             \/ taken'[i].offset + taken'[i].size <= taken'[j].offset
                             \/ taken'[j].offset + taken'[j].size <= taken'[i].offset
      <3> QED
        BY <2>5, <2>6, <3>1
    <2> QED
      BY <2>8
  <1>10. CASE taken = <<>>
    <2>1. Len(taken) = 0
      BY <1>10
    <2>2. e - z = b
      <3>1. Ahead
        BY <1>2, <1>4, <1>5 DEF Shape, Wrapped
      <3> QED
        BY <1>4, <2>1, <3>1 DEF Ahead, Row
    <2>3. taken' # <<>> /\ Head(taken') = taken'[1]
      BY <1>8, <2>1
    <2>4. Head(taken').offset = 0
      BY <1>8, <2>1, <2>3
    <2>5. ring'.size = z /\ ring'.end = b
      BY <1>7, <2>2
    <2>6. 0 # b /\ z + 0 # b
      BY <1>1, <1>3, <1>4, <1>5
    <2>7. ~Accepted'
      BY <2>3, <2>4, <2>5, <2>6 DEF Accepted, FreeAccepts
    <2> QED
      BY <2>7
  <1> QED
    BY <1>9, <1>10

(* Every request that alloc should have refused does harm at once, so the  *)
(* ghost ends the promises no sooner than the code does.                   *)
THEOREM NothingElseEndsThePromise == Spec => OvertakingBreaks
  <1>1. IInv /\ [Next]_vars => [overtaken' # overtaken => ~Disjoint' \/ ~Accepted']_vars
    <2> SUFFICES ASSUME IInv, Next, overtaken' # overtaken PROVE ~Disjoint' \/ ~Accepted'
      OBVIOUS
    <2>1. PICK n \in use.chunks : Alloc(n)
      BY DEF Next, AllocFails, Free
    <2>2. ~overtaken /\ Overtakes(n)
      BY <2>1 DEF Alloc, IInv
    <2> QED
      BY <2>1, <2>2, OvertakingHarms
  <1> QED
    BY <1>1, Inductive, PTL DEF Spec, OvertakingBreaks

-----------------------------------------------------------------------------
\* The queue of ranges

(* The newest range ends at m_buffer_begin, and what the shape says of the *)
(* oldest one and of the first after the wrap.                             *)
LEMMA Ends ==
  ASSUME IInv, ~overtaken, taken # <<>>
  PROVE  /\ Len(taken) \in 1 .. Len(taken) /\ Len(taken) \in Nat
         /\ taken[Len(taken)].offset + taken[Len(taken)].size = ring.begin
         /\ Head(taken) = taken[1] /\ taken[1] \in Ranges /\ 1 \in 1 .. Len(taken)
         /\ Ahead => taken[1].offset = ring.end - ring.size
         /\ \A m \in Nat \ {0} : Wrapped(m) =>
               /\ taken[1].offset = ring.end
               /\ m + 1 \in 1 .. Len(taken) /\ taken[m + 1] \in Ranges /\ taken[m + 1].offset = 0
  <1>1. taken \in Seq(Ranges) /\ Shape
    BY DEF IInv
  <1>2. /\ Len(taken) \in 1 .. Len(taken) /\ Len(taken) \in Nat
        /\ Head(taken) = taken[1] /\ taken[1] \in Ranges /\ 1 \in 1 .. Len(taken)
    BY <1>1
  <1>3. ASSUME Ahead
        PROVE  /\ taken[1].offset = ring.end - ring.size
               /\ taken[Len(taken)].offset + taken[Len(taken)].size = ring.begin
    BY <1>2, <1>3 DEF Ahead, Row
  <1>4. ASSUME NEW m \in Nat \ {0}, Wrapped(m)
        PROVE  /\ taken[1].offset = ring.end
               /\ m + 1 \in 1 .. Len(taken) /\ taken[m + 1] \in Ranges /\ taken[m + 1].offset = 0
               /\ taken[Len(taken)].offset + taken[Len(taken)].size = ring.begin
    <2>1. m < Len(taken) /\ m + 1 \in 1 .. Len(taken) /\ m + 1 <= Len(taken)
      BY <1>2, <1>4 DEF Wrapped
    <2>2. taken[1].offset = ring.end
      BY <1>4 DEF Wrapped, Row
    <2>3. taken[m + 1].offset = 0 /\ taken[Len(taken)].offset + taken[Len(taken)].size = ring.begin
      BY <1>4, <2>1 DEF Wrapped, Row
    <2> QED
      BY <1>1, <2>1, <2>2, <2>3
  <1> QED
    BY <1>1, <1>2, <1>3, <1>4 DEF Shape

(* A request that does not overtake takes the place that is in turn.       *)
LEMMA AllocTakes ==
  ASSUME IInv, ~overtaken, NEW n \in use.chunks, Alloc(n), ~Overtakes(n)
  PROVE  \E at \in 0 .. use.size : Fifo!Take(n, at)
  <1>1. n \in Nat \ {0} /\ n <= use.size /\ use.size \in Nat \ {0} /\ use' = use
    BY Requests DEF IInv, Alloc
  <1>2. /\ ring \in [size : Nat, begin : Nat, end : Nat, rem : Nat] /\ ring.size = use.size
        /\ taken \in Seq(Ranges) /\ Shape
    BY DEF IInv, Shape
  <1>3. PICK at \in Nat : at = OutOffset(ring, n)
    BY <1>2 DEF OutOffset
  <1>4. /\ Len(taken) \in Nat /\ Len(taken') = Len(taken) + 1
        /\ taken' = Append(taken, [offset |-> at, size |-> n])
        /\ \A k \in 1 .. Len(taken) : taken'[k] = taken[k]
        /\ taken'[Len(taken) + 1] = [offset |-> at, size |-> n]
    BY <1>1, <1>2, <1>3, TakenGrows
  <1>5. overtaken' = FALSE /\ UNCHANGED <<use, overtaken>> /\ granted' = TRUE
    <2>1. overtaken = FALSE
      BY DEF IInv
    <2> QED
      BY <2>1 DEF Alloc
  <1>6. Disjoint'
    <2>1. NoOverlap'
      <3>1. IInv'
        BY AllocIInv
      <3> QED
        BY <3>1, DisjointRanges, PTL
    <2> QED
      BY <1>5, <2>1 DEF NoOverlap
  <1>7. Fifo!IsFree(at, n)
    <2>1. PICK p \in Nat : p = Len(taken)
      BY <1>4
    <2>2. p + 1 \in 1 .. Len(taken') /\ \A i \in 1 .. p : i \in 1 .. Len(taken') /\ i < p + 1
      BY <1>4, <2>1
    <2>3. taken'[p + 1].offset = at /\ taken'[p + 1].size = n
      BY <1>4, <2>1
    <2>4. taken'[p + 1].offset + taken'[p + 1].size <= use.size
      BY ONLY <1>1, <1>6, <2>2 DEF Disjoint
    <2>5. ASSUME NEW i \in 1 .. p
          PROVE  \/ taken[i].offset + taken[i].size <= at
                 \/ at + n <= taken[i].offset
      <3>1. \/ taken'[i].offset + taken'[i].size <= taken'[p + 1].offset
            \/ taken'[p + 1].offset + taken'[p + 1].size <= taken'[i].offset
        BY ONLY <1>6, <2>2 DEF Disjoint
      <3>2. taken'[i] = taken[i]
        BY <1>4, <2>1
      <3> QED
        BY <2>3, <3>1, <3>2
    <2> QED
      BY <2>1, <2>3, <2>4, <2>5 DEF Fifo!IsFree
  <1>8. ASSUME taken # <<>>
        PROVE  at = (IF ring.begin + n <= use.size THEN ring.begin ELSE 0)
    <2>1. CASE Wraps(ring, n)
      BY <1>1, <1>2, <1>3, <2>1 DEF Wraps, OutOffset
    <2>2. CASE ~Wraps(ring, n)
      <3>1. at = ring.begin /\ AllocatesAtBegin(ring, n)
        BY <1>3, <2>2 DEF OutOffset, Alloc, CanAlloc
      <3>2. ring.begin + n <= use.size
        BY <1>1, <1>2, <3>1 DEF AllocatesAtBegin
      <3> QED
        BY <3>1, <3>2
    <2> QED
      BY <2>1, <2>2
  <1>9. Fifo!InTurn(at, n)
    BY <1>8, Ends DEF Fifo!InTurn, Fifo!After, Fifo!Newest
  <1>10. at \in 0 .. use.size
    BY <1>1, <1>2, <1>7 DEF Fifo!IsFree
  <1> QED
    BY <1>4, <1>5, <1>7, <1>9, <1>10 DEF Fifo!Take

(* One that does ends the queue.                                           *)
LEMMA AllocOvertakes ==
  ASSUME IInv, ~overtaken, NEW n \in use.chunks, Alloc(n), Overtakes(n)
  PROVE  Fifo!Overtake(n)
  <1>1. n \in Nat \ {0} /\ n <= use.size /\ use.size \in Nat \ {0} /\ use' = use
    BY Requests DEF IInv, Alloc
  <1>2. ring \in [size : Nat, begin : Nat, end : Nat, rem : Nat] /\ ring.size = use.size
    BY DEF IInv, Shape
  <1>3. Wraps(ring, n) /\ OutOffset(ring, n) = 0
    BY DEF Overtakes, OutOffset
  <1>4. n + ring.begin > use.size
    BY <1>2, <1>3 DEF Wraps
  <1>5. ASSUME taken # <<>>
        PROVE  Fifo!InTurn(0, n) /\ ~Fifo!IsFree(0, n)
    <2>1. /\ taken[Len(taken)].offset + taken[Len(taken)].size = ring.begin
          /\ Head(taken) = taken[1] /\ taken[1] \in Ranges /\ 1 \in 1 .. Len(taken)
      BY <1>5, Ends
    <2>2. Fifo!After = ring.begin
      BY <2>1 DEF Fifo!After, Fifo!Newest
    <2>3. Fifo!InTurn(0, n)
      BY <1>1, <1>2, <1>4, <2>2 DEF Fifo!InTurn
    <2>4. PICK o \in Nat, w \in Nat \ {0} : taken[1].offset = o /\ taken[1].size = w
      BY <2>1 DEF Ranges
    <2>5. o < n
      BY <1>5, <2>1, <2>4 DEF Overtakes
    <2>6. ~(taken[1].offset + taken[1].size <= 0) /\ ~(0 + n <= taken[1].offset)
      BY <1>1, <2>4, <2>5
    <2> QED
      BY <2>1, <2>3, <2>6 DEF Fifo!IsFree
  <1>6. Fifo!InTurn(0, n) /\ (taken # <<>> => ~Fifo!IsFree(0, n))
    BY <1>5 DEF Fifo!InTurn
  <1> QED
    BY <1>3, <1>6 DEF Fifo!Overtake, Alloc

(* What alloc refuses has no room in its turn.                             *)
LEMMA AllocRefuses ==
  ASSUME IInv, ~overtaken, NEW n \in use.chunks, AllocFails(n)
  PROVE  Fifo!Refuse(n)
  <1>1. n \in Nat \ {0} /\ n <= use.size /\ use.size \in Nat \ {0}
    BY Requests DEF IInv
  <1>2. /\ ring \in [size : Nat, begin : Nat, end : Nat, rem : Nat] /\ ring.size = use.size
        /\ taken \in Seq(Ranges) /\ Shape
    BY DEF IInv, Shape
  <1>3. PICK b \in Nat, e \in Nat, z \in Nat, r \in Nat :
            ring.size = z /\ ring.begin = b /\ ring.end = e /\ ring.rem = r /\ use.size = z
    BY <1>2
  <1>4. /\ e >= z => n + b > z /\ n + b > e
        /\ e < z => n + b > e
    <2>1. ~AllocatesAtBegin(ring, n) /\ ~Wraps(ring, n)
      BY DEF AllocFails, CanAlloc
    <2>2. e >= z => ~(n + b <= z) /\ ~(n + b > z /\ n + b <= e)
      BY <1>3, <2>1 DEF AllocatesAtBegin, Wraps
    <2>3. ~(e >= z) => ~(n + b <= e)
      BY <1>3, <2>1 DEF AllocatesAtBegin
    <2> QED
      BY <1>1, <2>2, <2>3
  <1>5. taken # <<>>
    <2> SUFFICES ASSUME taken = <<>> PROVE FALSE
      OBVIOUS
    <2>1. Len(taken) = 0
      OBVIOUS
    <2>2. Ahead
      BY <1>2, <2>1 DEF Shape, Wrapped
    <2>3. e >= z /\ e - z = b
      BY <1>3, <2>1, <2>2 DEF Ahead, Row
    <2> QED
      BY <1>1, <1>3, <1>4, <2>3
  <1>6. /\ taken[Len(taken)].offset + taken[Len(taken)].size = b
        /\ taken[1] \in Ranges /\ 1 \in 1 .. Len(taken)
        /\ Ahead => taken[1].offset = e - z
        /\ \A m \in Nat \ {0} : Wrapped(m) =>
               /\ taken[1].offset = e
               /\ m + 1 \in 1 .. Len(taken) /\ taken[m + 1] \in Ranges /\ taken[m + 1].offset = 0
    BY <1>3, <1>5, Ends
  <1>7. PICK o \in Nat, w \in Nat \ {0} : taken[1].offset = o /\ taken[1].size = w
    BY <1>6 DEF Ranges
  <1>8. ASSUME NEW at \in 0 .. use.size, at = (IF b + n <= z THEN b ELSE 0), Fifo!IsFree(at, n)
        PROVE  FALSE
    <2>1. o + w <= at \/ at + n <= o
      BY <1>6, <1>7, <1>8 DEF Fifo!IsFree
    <2>2. CASE Ahead
      <3>1. e >= z /\ o = e - z
        BY <1>3, <1>6, <1>7, <2>2 DEF Ahead
      <3>2. at = 0 /\ b <= z
        <4>1. b <= z
          BY ONLY <1>3, <2>2 DEF Ahead
        <4>2. n + b > z
          BY <1>4, <3>1
        <4> QED
          BY <1>1, <1>8, <4>1, <4>2
      <3>3. n + b > e
        BY <1>4, <3>1
      <3> QED
        BY <1>1, <1>7, <2>1, <3>1, <3>2, <3>3
    <2>3. ASSUME NEW m \in Nat \ {0}, Wrapped(m) PROVE FALSE
      <3>1. e < z /\ b <= e /\ o = e
        BY <1>3, <1>6, <1>7, <2>3 DEF Wrapped
      <3>2. n + b > e
        BY <1>4, <3>1
      <3>3. CASE b + n <= z
        <4>1. at = b
          BY <1>8, <3>3
        <4> QED
          BY <1>1, <1>7, <2>1, <3>1, <3>2, <4>1
      <3>4. CASE ~(b + n <= z)
        <4>1. at = 0
          BY <1>8, <3>4
        <4>2. m + 1 \in 1 .. Len(taken) /\ taken[m + 1] \in Ranges /\ taken[m + 1].offset = 0
          BY <1>6, <2>3
        <4>3. PICK v \in Nat \ {0} : taken[m + 1].size = v
          BY <4>2 DEF Ranges
        <4>4. \/ taken[m + 1].offset + taken[m + 1].size <= at
              \/ at + n <= taken[m + 1].offset
          BY ONLY <1>8, <4>2 DEF Fifo!IsFree
        <4> QED
          BY <1>1, <4>1, <4>2, <4>3, <4>4
      <3> QED
        BY <3>3, <3>4
    <2> QED
      BY <1>2, <2>2, <2>3 DEF Shape
  <1>9. ASSUME NEW at \in 0 .. use.size, Fifo!InTurn(at, n) PROVE ~Fifo!IsFree(at, n)
    <2>1. at = (IF b + n <= z THEN b ELSE 0)
      BY <1>3, <1>5, <1>6, <1>9 DEF Fifo!InTurn, Fifo!After, Fifo!Newest
    <2> QED
      BY <1>8, <2>1
  <1> QED
    BY <1>5, <1>9 DEF Fifo!Refuse, AllocFails

(* The ring implements a queue of ranges of any sizes, each after the one  *)
(* before or at the start of the buffer, which refuses only when there is  *)
(* no room there; up to the first request that overtakes.                  *)
THEOREM Refinement == Spec => ImplementsRangeFifo
  <1>1. Init => Fifo!Init
    BY DEF Init, Fifo!Init
  <1>2. IInv /\ [Next]_vars => [Fifo!Next]_(Fifo!vars)
    <2> SUFFICES ASSUME IInv, [Next]_vars PROVE [Fifo!Next]_(Fifo!vars)
      OBVIOUS
    <2>1. CASE UNCHANGED vars
      BY <2>1 DEF vars, Fifo!vars
    <2>2. CASE Next /\ overtaken
      <3>1. overtaken' = overtaken /\ use' = use
        BY <2>2 DEF Next, Alloc, AllocFails, Free
      <3> QED
        BY <2>2, <3>1 DEF Fifo!Next, Fifo!Astray
    <2>3. ASSUME ~overtaken, NEW n \in use.chunks, Alloc(n) PROVE Fifo!Next
      <3>1. CASE Overtakes(n)
        BY <2>3, <3>1, AllocOvertakes DEF Fifo!Next
      <3>2. CASE ~Overtakes(n)
        BY <2>3, <3>2, AllocTakes DEF Fifo!Next
      <3> QED
        BY <3>1, <3>2
    <2>4. ASSUME ~overtaken, NEW n \in use.chunks, AllocFails(n) PROVE Fifo!Next
      BY <2>4, AllocRefuses DEF Fifo!Next
    <2>5. ASSUME ~overtaken, Free PROVE Fifo!Next
      <3>1. taken # <<>>
        BY <2>5, RingBufferAssumption DEF Free, IInv
      <3> QED
        BY <2>5, <3>1 DEF Free, Fifo!Next, Fifo!Return
    <2> QED
      BY <2>1, <2>2, <2>3, <2>4, <2>5 DEF Next
  <1> QED
    BY <1>1, <1>2, Inductive, PTL DEF Spec, ImplementsRangeFifo, Fifo!Spec

-----------------------------------------------------------------------------
\* Clients of one size

\* Where chunk x starts.
Pos(c, x) == x * c

\* The chunk that holds the i-th range in flight when E is the oldest's.
ChunkOf(K, E, i) == IF E + i - 1 < K THEN E + i - 1 ELSE E + i - 1 - K

\* The free bytes end one lap ahead of the oldest range, or right at it.
LapAhead(c, E, B) ==
    ring.end = ring.size + Pos(c, E) /\ ring.rem = 0 /\ E + Len(taken) = B

LapWrapped(c, K, R, E, B) ==
    /\ ring.end = Pos(c, E) /\ ring.rem = R
    /\ E < K /\ B <= E /\ E + Len(taken) = K + B

Chunks(c, K, R, E, B) ==
    /\ ring \in [size : Nat, begin : Nat, end : Nat, rem : Nat]
    /\ ring.size = use.size /\ ring.begin = Pos(c, B)
    /\ B <= K
    /\ \A i \in 1 .. Len(taken) : taken[i] = [offset |-> Pos(c, ChunkOf(K, E, i)), size |-> c]
    /\ LapAhead(c, E, B) \/ LapWrapped(c, K, R, E, B)
    /\ R > 0 => Len(taken) > 0 \/ B = 0

Geometry(c, K, R) ==
    /\ 0 < c /\ 0 < K /\ R < c
    /\ use.chunks = {c} /\ use.size = Pos(c, K) + R
    /\ R > 0 => use.keep > 0

Laid == \E c, K, R, E, B \in Nat : Geometry(c, K, R) /\ Chunks(c, K, R, E, B)

SlotInv ==
    /\ use \in Uses
    /\ taken \in Seq([offset : Nat, size : Nat])
    /\ overtaken = FALSE
    /\ Laid

(* Division with remainder, as the SMT backend is given it.                *)
LEMMA DivMod ==
  ASSUME NEW x \in Int, NEW c \in Nat \ {0}
  PROVE  /\ x \div c \in Int
         /\ x % c \in 0 .. c - 1
         /\ x = c * (x \div c) + (x % c)
OBVIOUS

(* Chunks are apart as soon as their numbers differ.                       *)
LEMMA ChunksApart ==
  ASSUME NEW c \in Nat \ {0}, NEW x \in Nat, NEW y \in Nat
  PROVE  /\ x < y <=> Pos(c, x) + c <= Pos(c, y)
         /\ x = y <=> Pos(c, x) = Pos(c, y)
         /\ Pos(c, x) \in Nat
         /\ Pos(c, x + 1) = Pos(c, x) + c
         /\ Pos(c, 0) = 0
  <1>1. \A d \in Nat : d * c \in Nat
    OBVIOUS
  <1>2. (x + 1) * c = x * c + c /\ 0 * c = 0
    OBVIOUS
  <1>3. CASE x < y
    <2>1. PICK d \in Nat : y = x + 1 + d
      <3>1. y - x - 1 \in Nat /\ y = x + 1 + (y - x - 1)
        BY <1>3
      <3> QED
        BY <3>1
    <2>2. y * c = x * c + c + d * c
      BY <2>1
    <2>3. d * c >= 0 /\ x * c >= 0
      BY <1>1
    <2> QED
      BY <1>1, <1>2, <1>3, <2>2, <2>3 DEF Pos
  <1>4. CASE x = y
    BY <1>1, <1>2, <1>4 DEF Pos
  <1>5. CASE y < x
    <2>1. PICK d \in Nat : x = y + 1 + d
      <3>1. x - y - 1 \in Nat /\ x = y + 1 + (x - y - 1)
        BY <1>5
      <3> QED
        BY <3>1
    <2>2. x * c = y * c + c + d * c
      BY <2>1
    <2>3. d * c >= 0 /\ y * c >= 0
      BY <1>1
    <2> QED
      BY <1>1, <1>2, <1>5, <2>2, <2>3 DEF Pos
  <1> QED
    BY <1>3, <1>4, <1>5

(* A fresh ring is one lap ahead, with nothing in flight.                  *)
LEMMA SlotInit == ASSUME Init, OneSize PROVE SlotInv
  <1>1. PICK c \in use.chunks : use.chunks = {c} /\ (use.keep > 0 \/ use.size % c = 0)
    BY DEF OneSize
  <1>2. use \in Uses
    BY DEF Init
  <1>3. PICK z \in Nat \ {0} : use.size = z /\ c \in Nat \ {0} /\ c <= z
    BY <1>2, Requests
  <1>4. PICK K \in Int, R \in 0 .. c - 1 : z = c * K + R /\ R = z % c
    <2>1. z \div c \in Int /\ z % c \in 0 .. c - 1 /\ z = c * (z \div c) + (z % c)
      BY <1>3, DivMod
    <2> QED
      BY <2>1
  <1>5. K > 0
    <2> SUFFICES ASSUME K <= 0 PROVE FALSE
      BY <1>4
    <2>1. PICK d \in Nat : K = -d
      <3>1. -K \in Nat /\ K = -(-K)
        BY <1>4
      <3> QED
        BY <3>1
    <2>2. c * K = -(c * d) /\ c * d \in Nat
      BY <1>3, <2>1
    <2> QED
      BY <1>3, <1>4, <2>2
  <1>6. K \in Nat /\ R \in Nat /\ c \in Nat /\ R < c /\ 0 < c
    BY <1>3, <1>4, <1>5
  <1>7. Geometry(c, K, R)
    <2>1. Pos(c, K) = c * K
      BY <1>6 DEF Pos
    <2>2. R > 0 => use.keep > 0
      BY <1>1, <1>3, <1>4
    <2> QED
      BY <1>1, <1>3, <1>4, <1>5, <1>6, <2>1, <2>2 DEF Geometry
  <1>8. Pos(c, 0) = 0
    BY <1>3, ChunksApart
  <1>9. Chunks(c, K, R, 0, 0)
    BY <1>3, <1>6, <1>8 DEF Init, NewRing, Chunks, LapAhead
  <1> QED
    BY <1>2, <1>6, <1>7, <1>9 DEF Init, SlotInv, Laid

(* The oldest range starts where the free bytes end.                       *)
LEMMA OldestStartsAtEnd ==
  ASSUME NEW c \in Nat, NEW K \in Nat, NEW R \in Nat, NEW E \in Nat, NEW B \in Nat,
         Geometry(c, K, R), Chunks(c, K, R, E, B), taken # <<>>,
         taken \in Seq([offset : Nat, size : Nat])
  PROVE  /\ Len(taken) \in Nat \ {0}
         /\ E < K
         /\ Head(taken) = [offset |-> Pos(c, E), size |-> c]
         /\ ring.end = Pos(c, E) \/ ring.end = ring.size + Pos(c, E)
  <1>1. Len(taken) \in Nat \ {0} /\ Head(taken) = taken[1]
    OBVIOUS
  <1>2. E < K
    BY <1>1 DEF Chunks, LapAhead, LapWrapped
  <1>3. ChunkOf(K, E, 1) = E
    BY <1>2 DEF ChunkOf
  <1>4. Head(taken) = [offset |-> Pos(c, E), size |-> c]
    <2>1. \A i \in 1 .. Len(taken) : taken[i] = [offset |-> Pos(c, ChunkOf(K, E, i)), size |-> c]
      BY DEF Chunks
    <2>2. taken[1] = [offset |-> Pos(c, ChunkOf(K, E, 1)), size |-> c]
      BY <1>1, <2>1
    <2> QED
      BY <1>1, <1>3, <2>2
  <1> QED
    BY <1>1, <1>2, <1>4 DEF Chunks, LapAhead, LapWrapped

(* alloc extends the ranges in flight by the next chunk, wrapping at the   *)
(* last whole one.                                                         *)
LEMMA SlotAlloc ==
  ASSUME SlotInv, NEW n \in use.chunks, Alloc(n)
  PROVE  SlotInv'
  <1>1. PICK c \in Nat, K \in Nat, R \in Nat, E \in Nat, B \in Nat :
            Geometry(c, K, R) /\ Chunks(c, K, R, E, B)
    BY DEF SlotInv, Laid
  <1>2. n = c /\ c \in Nat \ {0} /\ ring.size = Pos(c, K) + R /\ ring.begin = Pos(c, B)
    BY <1>1 DEF Geometry, Chunks
  <1>3. Geometry(c, K, R)'
    BY <1>1 DEF Geometry, Alloc
  <1>4. /\ B < K <=> Pos(c, B) + c <= Pos(c, K)
        /\ B < E <=> Pos(c, B) + c <= Pos(c, E)
        /\ E < K <=> Pos(c, E) + c <= Pos(c, K)
        /\ E > 0 <=> c <= Pos(c, E)
        /\ B = K <=> Pos(c, B) = Pos(c, K)
        /\ E = K <=> Pos(c, E) = Pos(c, K)
        /\ Pos(c, B) \in Nat /\ Pos(c, E) \in Nat /\ Pos(c, K) \in Nat
        /\ Pos(c, B + 1) = Pos(c, B) + c
        /\ Pos(c, 0) = 0 /\ Pos(c, 1) = c
    <2>1. 0 < E <=> Pos(c, 0) + c <= Pos(c, E)
      BY <1>2, ChunksApart
    <2>2. Pos(c, 0) = 0 /\ Pos(c, 0 + 1) = Pos(c, 0) + c
      BY <1>2, ChunksApart
    <2>3. c \in Nat \ {0} /\ B \in Nat /\ E \in Nat /\ K \in Nat
      BY <1>2
    <2>4. B < K <=> Pos(c, B) + c <= Pos(c, K)
      BY ONLY <2>3, ChunksApart
    <2>8. B = K <=> Pos(c, B) = Pos(c, K)
      BY ONLY <2>3, ChunksApart
    <2>9. Pos(c, B) \in Nat
      BY ONLY <2>3, ChunksApart
    <2>7. Pos(c, B + 1) = Pos(c, B) + c
      BY ONLY <2>3, ChunksApart
    <2>5. /\ B < E <=> Pos(c, B) + c <= Pos(c, E)
          /\ Pos(c, E) \in Nat /\ Pos(c, K) \in Nat
      BY ONLY <2>3, ChunksApart
    <2>6. /\ E < K <=> Pos(c, E) + c <= Pos(c, K)
          /\ E = K <=> Pos(c, E) = Pos(c, K)
      BY ONLY <2>3, ChunksApart
    <2> QED
      BY <1>2, <2>1, <2>2, <2>4, <2>5, <2>6, <2>7, <2>8, <2>9
  <1>5. Len(taken) \in Nat /\ Len(taken') = Len(taken) + 1
    BY DEF SlotInv, Alloc
  <1>6. \A i \in 1 .. Len(taken) : taken'[i] = taken[i]
    BY DEF SlotInv, Alloc
  <1>7. taken'[Len(taken) + 1] = [offset |-> OutOffset(ring, n), size |-> c]
    BY <1>2 DEF SlotInv, Alloc
  <1>8. ASSUME NEW F \in Nat,
               \A i \in 1 .. Len(taken) : ChunkOf(K, F, i) = ChunkOf(K, E, i),
               OutOffset(ring, n) = Pos(c, ChunkOf(K, F, Len(taken) + 1))
        PROVE  \A i \in 1 .. Len(taken') :
                  taken'[i] = [offset |-> Pos(c, ChunkOf(K, F, i)), size |-> c]
    <2> TAKE i \in 1 .. Len(taken')
    <2>1. CASE i = Len(taken) + 1
      BY <1>7, <1>8, <2>1
    <2>2. CASE i \in 1 .. Len(taken)
      BY <1>1, <1>6, <1>8, <2>2 DEF Chunks
    <2> QED
      BY <1>5, <2>1, <2>2
  <1>9. OutOffset(ring, n) \in Nat
    BY <1>2, <1>4 DEF OutOffset
  <1>10. use' = use /\ use' \in Uses /\ taken' \in Seq([offset : Nat, size : Nat])
    BY <1>2, <1>9 DEF SlotInv, Alloc
  <1>11. /\ ring \in [size : Nat, begin : Nat, end : Nat, rem : Nat]
         /\ ring.size = use.size /\ B <= K /\ R < c
         /\ R > 0 => Len(taken) > 0 \/ B = 0
    BY <1>1 DEF Chunks, Geometry
  <1>12. ring' = AfterAlloc(ring, n) /\ CanAlloc(ring, n)
    BY DEF Alloc
  <1>13. ASSUME ~Wraps(ring, n)
         PROVE  /\ ring' \in [size : Nat, begin : Nat, end : Nat, rem : Nat]
                /\ ring'.size = use'.size /\ ring'.begin = Pos(c, B + 1)
                /\ ring'.end = ring.end /\ ring'.rem = ring.rem
                /\ OutOffset(ring, n) = Pos(c, B)
    <2>1. ring.begin + n = Pos(c, B + 1) /\ Pos(c, B + 1) \in Nat
      BY <1>2, <1>4
    <2>2. ring' = [ring EXCEPT !.begin = Pos(c, B + 1)]
      BY <1>12, <1>13, <2>1 DEF AfterAlloc
    <2>3. ring'.size = ring.size /\ ring'.begin = Pos(c, B + 1) /\ ring'.end = ring.end /\ ring'.rem = ring.rem
      BY <1>11, <2>2
    <2>4. ring' \in [size : Nat, begin : Nat, end : Nat, rem : Nat]
      BY <1>11, <2>1, <2>2
    <2>5. OutOffset(ring, n) = Pos(c, B)
      BY <1>2, <1>13 DEF OutOffset
    <2> QED
      BY <1>10, <1>11, <2>3, <2>4, <2>5
  <1>18. ~Overtakes(n)
    <2> SUFFICES ASSUME Wraps(ring, n), ring.begin < ring.size, taken # <<>> => Head(taken).offset < n
                 PROVE  FALSE
      BY DEF Overtakes
    <2>1. LapAhead(c, E, B)
      <3>1. ~LapWrapped(c, K, R, E, B)
        BY <1>2, <1>4, <1>11 DEF LapWrapped, Wraps
      <3> QED
        BY <1>1, <3>1 DEF Chunks
    <2>2. B = K /\ E + Len(taken) = K
      <3>1. ~(B < K)
        BY <1>2, <1>4, <1>11 DEF Wraps
      <3> QED
        BY <1>11, <2>1, <3>1 DEF LapAhead
    <2>3. R > 0
      BY <1>2, <1>4, <2>2
    <2>4. K > 0 /\ Len(taken) > 0
      BY <1>1, <1>11, <2>2, <2>3 DEF Geometry
    <2>5. taken # <<>> /\ taken \in Seq([offset : Nat, size : Nat])
      BY <2>4 DEF SlotInv
    <2>6. Head(taken) = [offset |-> Pos(c, E), size |-> c]
      BY <1>1, <2>5, OldestStartsAtEnd
    <2>7. E > 0
      BY <1>2, <1>4, <1>11, <2>1, <2>2 DEF Wraps, LapAhead
    <2> QED
      BY <1>2, <1>4, <2>5, <2>6, <2>7
  <1>19. overtaken' = FALSE
    BY <1>18 DEF Alloc, SlotInv
  <1>17. ASSUME NEW F \in Nat, NEW G \in Nat, Chunks(c, K, R, F, G)' PROVE SlotInv'
    <2>1. c \in Nat /\ K \in Nat /\ R \in Nat /\ F \in Nat /\ G \in Nat
      OBVIOUS
    <2>2. Laid'
      BY ONLY <1>3, <1>17, <2>1 DEF Laid
    <2> QED
      BY <1>10, <1>19, <2>2 DEF SlotInv
  <1>14. CASE LapAhead(c, E, B) /\ B < K
    <2>1. ~Wraps(ring, n)
      BY <1>2, <1>4, <1>11, <1>14 DEF Wraps
    <2>2. ChunkOf(K, E, Len(taken) + 1) = B
      BY <1>5, <1>14 DEF ChunkOf, LapAhead
    <2>3. LapAhead(c, E, B + 1)'
      <3>1. /\ ring.end = ring.size + Pos(c, E) /\ ring.rem = 0 /\ E + Len(taken) = B
        BY <1>14 DEF LapAhead
      <3>2. ring'.end = ring.end /\ ring'.rem = ring.rem /\ ring'.size = ring.size
        BY <1>10, <1>11, <1>13, <2>1
      <3>3. E + Len(taken') = B + 1
        BY <1>5, <3>1
      <3> QED
        BY <3>1, <3>2, <3>3 DEF LapAhead
    <2>4. Chunks(c, K, R, E, B + 1)'
      BY <1>5, <1>8, <1>13, <1>14, <2>1, <2>2, <2>3 DEF Chunks
    <2> QED
      BY <1>17, <2>4, B + 1 \in Nat
  <1>15. CASE LapAhead(c, E, B) /\ ~(B < K)
    <2>1. B = K
      BY <1>11, <1>15
    <2>2. Wraps(ring, n)
      BY <1>2, <1>4, <1>11, <1>12, <1>15, <2>1 DEF CanAlloc, AllocatesAtBegin, Wraps, LapAhead
    <2>3. E > 0
      BY <1>2, <1>4, <1>11, <1>15, <2>1, <2>2 DEF Wraps, LapAhead
    <2>4. OutOffset(ring, n) = Pos(c, 0)
      BY <1>4, <2>2 DEF OutOffset
    <2>5. /\ ring' \in [size : Nat, begin : Nat, end : Nat, rem : Nat]
          /\ ring'.size = use'.size /\ ring'.begin = Pos(c, 1)
          /\ ring'.end = Pos(c, E) /\ ring'.rem = R
      <3>1. ring.size - ring.begin = R /\ n = Pos(c, 1) /\ ring.end - ring.size = Pos(c, E)
        <4>1. PICK p \in Nat, e \in Nat : p = Pos(c, K) /\ e = Pos(c, E)
          BY <1>4
        <4>2. PICK s \in Nat : s = p + R /\ s = ring.size
          BY <1>2, <4>1
        <4>3. ring.begin = p /\ ring.end = s + e
          BY <1>2, <1>15, <2>1, <4>1, <4>2 DEF LapAhead
        <4>4. s - p = R /\ (s + e) - s = e
          BY <4>2
        <4> QED
          BY <1>2, <1>4, <4>1, <4>2, <4>3, <4>4
      <3>2. ring' = [ring EXCEPT !.rem = R, !.begin = Pos(c, 1), !.end = Pos(c, E)]
        BY <1>12, <2>2, <3>1 DEF AfterAlloc
      <3>3. ring'.size = ring.size /\ ring'.begin = Pos(c, 1) /\ ring'.end = Pos(c, E) /\ ring'.rem = R
        BY <1>11, <3>2
      <3>4. ring' \in [size : Nat, begin : Nat, end : Nat, rem : Nat]
        BY <1>2, <1>4, <1>11, <3>2
      <3> QED
        BY <1>10, <1>11, <3>3, <3>4
    <2>6. CASE E < K
      <3>1. LapWrapped(c, K, R, E, 1)'
        BY <1>5, <1>11, <1>15, <2>1, <2>3, <2>5, <2>6, SMTT(30) DEF LapWrapped, LapAhead
      <3>2. ChunkOf(K, E, Len(taken) + 1) = 0
        BY <1>5, <1>15, <2>1 DEF ChunkOf, LapAhead
      <3>3. Chunks(c, K, R, E, 1)'
        BY <1>5, <1>8, <2>1, <2>4, <2>5, <2>6, <3>1, <3>2 DEF Chunks
      <3> QED
        BY <1>17, <3>3
    <2>7. CASE ~(E < K)
      <3>1. E = K /\ Len(taken) = 0
        BY <1>5, <1>15, <2>1, <2>7 DEF LapAhead
      <3>2. R = 0
        BY <1>11, <2>1, <2>3, <3>1
      <3>3. LapAhead(c, 0, 1)'
        BY <1>2, <1>4, <1>5, <1>10, <1>11, <2>5, <3>1, <3>2 DEF LapAhead
      <3>4. ChunkOf(K, 0, Len(taken) + 1) = 0
        BY <2>3, <3>1 DEF ChunkOf
      <3>5. Chunks(c, K, R, 0, 1)'
        BY <1>5, <1>8, <2>1, <2>3, <2>4, <2>5, <3>1, <3>3, <3>4 DEF Chunks
      <3> QED
        BY <1>17, <3>5
    <2> QED
      BY <2>6, <2>7
  <1>16. CASE LapWrapped(c, K, R, E, B)
    <2>1. ~Wraps(ring, n)
      BY <1>2, <1>4, <1>11, <1>16 DEF LapWrapped, Wraps
    <2>2. B < E
      BY <1>2, <1>4, <1>11, <1>12, <1>16, <2>1 DEF CanAlloc, AllocatesAtBegin, LapWrapped
    <2>3. ChunkOf(K, E, Len(taken) + 1) = B
      BY <1>5, <1>16 DEF ChunkOf, LapWrapped
    <2>4. LapWrapped(c, K, R, E, B + 1)'
      BY <1>5, <1>13, <1>16, <2>1, <2>2, SMTT(30) DEF LapWrapped
    <2>5. Chunks(c, K, R, E, B + 1)'
      BY <1>5, <1>8, <1>13, <1>16, <2>1, <2>2, <2>3, <2>4 DEF Chunks, LapWrapped
    <2> QED
      BY <1>17, <2>5, B + 1 \in Nat
  <1> QED
    BY <1>1, <1>14, <1>15, <1>16 DEF Chunks

(* Once the oldest range is gone, each of the others is one place nearer   *)
(* to the front.                                                           *)
LEMMA RangesShift ==
  ASSUME NEW c, NEW K, NEW E, NEW F, NEW old, NEW new,
         Len(old) \in Nat,
         Len(new) = Len(old) - 1,
         \A i \in 1 .. Len(new) : new[i] = old[i + 1],
         \A i \in 1 .. Len(old) : old[i] = [offset |-> Pos(c, ChunkOf(K, E, i)), size |-> c],
         \A i \in 1 .. Len(new) : ChunkOf(K, F, i) = ChunkOf(K, E, i + 1)
  PROVE  \A i \in 1 .. Len(new) : new[i] = [offset |-> Pos(c, ChunkOf(K, F, i)), size |-> c]
  <1> TAKE i \in 1 .. Len(new)
  <1>1. i + 1 \in 1 .. Len(old)
    OBVIOUS
  <1>2. old[i + 1] = [offset |-> Pos(c, ChunkOf(K, E, i + 1)), size |-> c]
    BY ONLY <1>1, \A j \in 1 .. Len(old) : old[j] = [offset |-> Pos(c, ChunkOf(K, E, j)), size |-> c]
  <1> QED
    BY <1>2

(* free moves the end over the oldest range, and over the remainder after  *)
(* the last whole chunk.                                                   *)
LEMMA SlotFree ==
  ASSUME SlotInv, Free
  PROVE  SlotInv'
  <1>1. PICK c \in Nat, K \in Nat, R \in Nat, E \in Nat, B \in Nat :
            Geometry(c, K, R) /\ Chunks(c, K, R, E, B)
    BY DEF SlotInv, Laid
  <1>2. use' = use /\ use \in Uses /\ use.keep \in Nat /\ c \in Nat \ {0}
    BY <1>1, RingBufferAssumption DEF SlotInv, Free, Geometry
  <1>3. Geometry(c, K, R)'
    BY <1>1, <1>2 DEF Geometry
  <1>4. taken \in Seq([offset : Nat, size : Nat]) /\ taken # <<>> /\ Len(taken) > use.keep
    BY <1>2 DEF SlotInv, Free
  <1>5. /\ Len(taken) \in Nat \ {0}
        /\ E < K
        /\ Head(taken) = [offset |-> Pos(c, E), size |-> c]
    BY <1>1, <1>4, OldestStartsAtEnd
  <1>6. /\ taken' \in Seq([offset : Nat, size : Nat])
        /\ Len(taken') = Len(taken) - 1
        /\ \A i \in 1 .. Len(taken') : taken'[i] = taken[i + 1]
    BY <1>4 DEF Free
  <1>7. use' \in Uses /\ overtaken' = FALSE
    BY <1>2 DEF SlotInv, Free
  <1>8. Pos(c, E) \in Nat /\ Pos(c, K) \in Nat
    BY <1>2, ChunksApart
  <1>9. Pos(c, E + 1) = Pos(c, E) + c
    BY <1>2, ChunksApart
  <1>10. E + 1 = K <=> Pos(c, E + 1) = Pos(c, K)
    BY <1>2, ChunksApart, E + 1 \in Nat
  <1>11. E < K => Pos(c, E) + c <= Pos(c, K)
    BY <1>2, ChunksApart
  <1>12. Pos(c, 0) = 0
    BY <1>2, ChunksApart
  <1>13. /\ ring \in [size : Nat, begin : Nat, end : Nat, rem : Nat]
         /\ ring.size = use.size /\ ring.begin = Pos(c, B) /\ B <= K
         /\ ring.size = Pos(c, K) + R /\ R < c
         /\ R > 0 => Len(taken') > 0
    BY <1>1, <1>2, <1>4, <1>5, <1>6 DEF Chunks, Geometry
  <1>14. ring' = AfterFree(ring, Pos(c, E), c)
    BY <1>5 DEF Free
  <1>18. \A i \in 1 .. Len(taken) : taken[i] = [offset |-> Pos(c, ChunkOf(K, E, i)), size |-> c]
    BY <1>1 DEF Chunks
  <1>17. ASSUME NEW F \in Nat, NEW G \in Nat, Chunks(c, K, R, F, G)' PROVE SlotInv'
    <2>1. c \in Nat /\ K \in Nat /\ R \in Nat /\ F \in Nat /\ G \in Nat
      OBVIOUS
    <2>2. Laid'
      BY ONLY <1>3, <1>17, <2>1 DEF Laid
    <2> QED
      BY <1>6, <1>7, <2>2 DEF SlotInv
  <1>15. CASE LapAhead(c, E, B)
    <2>1. /\ ring.size + Pos(c, E) = ring.end /\ ring.rem = 0
      BY <1>15 DEF LapAhead
    <2>2. ring' = [ring EXCEPT !.end = ring.end + c]
      BY <1>14, <2>1 DEF AfterFree, FreeAccepts
    <2>3. ring'.size = ring.size /\ ring'.begin = ring.begin /\ ring'.end = ring.end + c /\ ring'.rem = 0
      BY <1>13, <2>1, <2>2
    <2>4. ring' \in [size : Nat, begin : Nat, end : Nat, rem : Nat]
      BY <1>2, <1>13, <2>2
    <2>5. LapAhead(c, E + 1, B)'
      <3>1. E + 1 + Len(taken') = B
        <4>1. Len(taken) \in Nat /\ Len(taken') = Len(taken) - 1
          BY <1>5, <1>6
        <4>2. E + Len(taken) = B
          BY <1>15 DEF LapAhead
        <4> QED
          BY <4>1, <4>2
      <3>2. ring'.end = ring'.size + Pos(c, E + 1)
        BY <1>2, <1>8, <1>9, <1>13, <2>1, <2>3
      <3> QED
        BY <2>3, <3>1, <3>2 DEF LapAhead
    <2>6. \A i \in 1 .. Len(taken') : ChunkOf(K, E + 1, i) = ChunkOf(K, E, i + 1)
      BY <1>5, <1>6 DEF ChunkOf
    <2>7. \A i \in 1 .. Len(taken') : taken'[i] = [offset |-> Pos(c, ChunkOf(K, E + 1, i)), size |-> c]
      BY ONLY <1>5, <1>6, <1>18, <2>6, RangesShift, SMTT(60)
    <2>8. Chunks(c, K, R, E + 1, B)'
      BY <1>2, <1>13, <2>3, <2>4, <2>5, <2>7 DEF Chunks
    <2> QED
      BY <1>17, <2>8, E + 1 \in Nat
  <1>16. CASE LapWrapped(c, K, R, E, B)
    <2>1. ring.end = Pos(c, E) /\ ring.rem = R
      BY <1>16 DEF LapWrapped
    <2>2. ring.size > 0
      BY <1>2, <1>5, <1>8, <1>11, <1>13
    <2>3. ring.size + Pos(c, E) # ring.end /\ FreeAccepts(ring, Pos(c, E))
      BY <1>8, <1>13, <2>1, <2>2 DEF FreeAccepts
    <2>4. [ring EXCEPT !.end = ring.end + c].end = Pos(c, E + 1)
      BY <1>9, <1>13, <2>1
    <2>5. CASE E + 1 < K
      <3>1. Pos(c, E + 1) + c <= Pos(c, K)
        BY <1>2, <2>5, ChunksApart, E + 1 \in Nat
      <3>2. R + Pos(c, E + 1) # ring.size
        BY <1>2, <1>8, <1>9, <1>13, <3>1
      <3>3. ring' = [ring EXCEPT !.end = ring.end + c]
        BY <1>14, <2>1, <2>3, <2>4, <3>2 DEF AfterFree
      <3>4. ring'.size = ring.size /\ ring'.begin = ring.begin /\ ring'.end = Pos(c, E + 1) /\ ring'.rem = R
        BY <1>13, <2>1, <2>4, <3>3
      <3>5. ring' \in [size : Nat, begin : Nat, end : Nat, rem : Nat]
        BY <1>2, <1>13, <3>3
      <3>6. LapWrapped(c, K, R, E + 1, B)'
        <4>1. Len(taken) \in Nat /\ Len(taken') = Len(taken) - 1
          BY <1>5, <1>6
        <4>2. E + Len(taken) = K + B /\ B <= E
          BY <1>16 DEF LapWrapped
        <4>3. E + 1 + Len(taken') = K + B /\ B <= E + 1
          BY <4>1, <4>2
        <4> QED
          BY <2>5, <3>4, <4>3 DEF LapWrapped
      <3>7. \A i \in 1 .. Len(taken') : ChunkOf(K, E + 1, i) = ChunkOf(K, E, i + 1)
        BY <1>5, <1>6 DEF ChunkOf
      <3>8. \A i \in 1 .. Len(taken') : taken'[i] = [offset |-> Pos(c, ChunkOf(K, E + 1, i)), size |-> c]
        BY ONLY <1>5, <1>6, <1>18, <3>7, RangesShift, SMTT(60)
      <3>9. Chunks(c, K, R, E + 1, B)'
        BY <1>2, <1>13, <3>4, <3>5, <3>6, <3>8 DEF Chunks
      <3> QED
        BY <1>17, <3>9, E + 1 \in Nat
    <2>6. CASE E + 1 = K
      <3>1. R + Pos(c, E + 1) = ring.size
        BY <1>2, <1>8, <1>10, <1>13, <2>6
      <3>2. ring' = IF R # 0 THEN [[ring EXCEPT !.end = ring.end + c] EXCEPT !.end = ring.size, !.rem = 0]
                             ELSE [ring EXCEPT !.end = ring.end + c]
        BY <1>14, <2>1, <2>3, <2>4, <3>1, <1>13 DEF AfterFree
      <3>3. ring'.size = ring.size /\ ring'.begin = ring.begin /\ ring'.end = ring.size /\ ring'.rem = 0
        BY <1>8, <1>9, <1>13, <2>1, <2>4, <3>1, <3>2
      <3>4. ring' \in [size : Nat, begin : Nat, end : Nat, rem : Nat]
        <4>1. ring.end + c \in Nat /\ ring.size \in Nat
          BY <1>2, <1>13
        <4>2. [ring EXCEPT !.end = ring.end + c] \in [size : Nat, begin : Nat, end : Nat, rem : Nat]
          BY <1>13, <4>1
        <4> QED
          BY <3>2, <4>1, <4>2
      <3>5. LapAhead(c, 0, B)'
        BY <1>5, <1>6, <1>12, <1>13, <1>16, <2>6, <3>3 DEF LapAhead, LapWrapped
      <3>6. \A i \in 1 .. Len(taken') : ChunkOf(K, 0, i) = ChunkOf(K, E, i + 1)
        BY <1>5, <1>6, <1>13, <1>16, <2>6 DEF ChunkOf, LapWrapped
      <3>7. \A i \in 1 .. Len(taken') : taken'[i] = [offset |-> Pos(c, ChunkOf(K, 0, i)), size |-> c]
        <4>1. PICK old, new : old = taken /\ new = taken'
          OBVIOUS
        <4>2. Len(old) \in Nat /\ Len(new) = Len(old) - 1 /\ \A i \in 1 .. Len(new) : new[i] = old[i + 1]
          BY ONLY <1>5, <1>6, <4>1
        <4>3. /\ \A i \in 1 .. Len(old) : old[i] = [offset |-> Pos(c, ChunkOf(K, E, i)), size |-> c]
              /\ \A i \in 1 .. Len(new) : ChunkOf(K, 0, i) = ChunkOf(K, E, i + 1)
          BY ONLY <1>18, <3>6, <4>1
        <4>4. \A i \in 1 .. Len(new) : new[i] = [offset |-> Pos(c, ChunkOf(K, 0, i)), size |-> c]
          BY ONLY <4>2, <4>3, RangesShift
        <4> QED
          BY <4>1, <4>4
      <3>8. Chunks(c, K, R, 0, B)'
        BY <1>2, <1>13, <3>3, <3>4, <3>5, <3>7 DEF Chunks
      <3> QED
        BY <1>17, <3>8
    <2> QED
      BY <1>5, <2>5, <2>6
  <1> QED
    BY <1>1, <1>15, <1>16 DEF Chunks

(* Every step of the client keeps the shape of the ring.                   *)
LEMMA SlotNext == ASSUME SlotInv, [Next]_vars PROVE SlotInv'
  <1>1. ASSUME UNCHANGED <<use, ring, taken, overtaken>> PROVE SlotInv'
    <2>1. PICK c \in Nat, K \in Nat, R \in Nat, E \in Nat, B \in Nat :
              Geometry(c, K, R) /\ Chunks(c, K, R, E, B)
      BY DEF SlotInv, Laid
    <2>2. Geometry(c, K, R)' /\ Chunks(c, K, R, E, B)'
      BY <1>1, <2>1 DEF Geometry, Chunks, LapAhead, LapWrapped
    <2> QED
      BY <1>1, <2>2 DEF SlotInv, Laid
  <1>2. CASE UNCHANGED vars
    BY <1>1, <1>2 DEF vars, SlotInv
  <1>3. ASSUME NEW n \in use.chunks, AllocFails(n) PROVE SlotInv'
    BY <1>1, <1>3 DEF AllocFails
  <1> QED
    BY <1>2, <1>3, SlotAlloc, SlotFree DEF Next

(* A client of one size that divides the buffer, or that always keeps a    *)
(* range in flight, is never granted a request that overtakes: for it the  *)
(* ring keeps its promises for ever.                                       *)
THEOREM OneSizeKeepsThePromise == Spec => []OneSizeIsSafe
  <1>1. Init => (OneSize => SlotInv)
    BY SlotInit
  <1>2. (OneSize => SlotInv) /\ [Next]_vars => (OneSize => SlotInv)'
    <2> SUFFICES ASSUME OneSize => SlotInv, [Next]_vars, OneSize' PROVE SlotInv'
      OBVIOUS
    <2>1. use' = use
      BY DEF Next, Alloc, AllocFails, Free, vars
    <2>2. OneSize
      BY <2>1 DEF OneSize
    <2> QED
      BY <2>2, SlotNext
  <1>3. (OneSize => SlotInv) => OneSizeIsSafe
    BY DEF OneSizeIsSafe, SlotInv
  <1> QED
    BY <1>1, <1>2, <1>3, PTL DEF Spec

=============================================================================
