------------------------- MODULE TextureUpload_proofs -------------------------
(***************************************************************************)
(* For any textures, alignments and size of the staging ring, and any      *)
(* number of threads: every load writes in the range that the ring gave    *)
(* it, and the device reads there what the load wrote.                     *)
(***************************************************************************)
EXTENDS TextureUpload, FiniteSetTheorems, WellFoundedInduction, TLAPS

Positive == Nat \ {0}

TextureType ==
    [w : Positive, h : Positive, d : Positive, mips : Positive, layers : Positive,
     bytes : Seq(Positive) \ {<<>>}, bw : Positive, bh : Positive]

\* The alignments of a device: one divides the other.
Aligned == {l \in [offset : Positive, row : Positive] :
                l.offset % l.row = 0 \/ l.row % l.offset = 0}

Multiples(c) == {x \in Nat : \E k \in Nat : x = k * c}

-----------------------------------------------------------------------------
(* Arithmetic                                                              *)

(* Division with remainder, as the SMT backend is given it.                *)
LEMMA DivMod ==
    ASSUME NEW x \in Int, NEW c \in Positive
    PROVE  /\ x \div c \in Int
           /\ x % c \in 0 .. c - 1
           /\ x = c * (x \div c) + (x % c)
BY DEF Positive

LEMMA Products ==
    ASSUME NEW x \in Nat, NEW y \in Nat
    PROVE  x * y \in Nat /\ (x # 0 /\ y # 0 => x * y # 0) /\ (y # 0 => x <= x * y)
<1>1. x * y \in Nat
  OBVIOUS
<1>2. CASE y = 0
  BY <1>1, <1>2
<1>3. CASE y # 0
  <2>1. PICK d \in Nat : y = d + 1
    <3>1. y - 1 \in Nat /\ y = (y - 1) + 1
      BY <1>3
    <3> QED
      BY <3>1
  <2>2. x * y = x * d + x /\ x * d \in Nat
    BY <2>1
  <2> QED
    BY <2>2, <1>1
<1> QED
  BY <1>2, <1>3

(* A product grows by whole factors.                                       *)
LEMMA ProductsApart ==
    ASSUME NEW c \in Nat, NEW x \in Nat, NEW y \in Nat, x < y
    PROVE  c * x + c <= c * y
<1>1. PICK d \in Nat : y = x + 1 + d
  <2>1. y - x - 1 \in Nat /\ y = x + 1 + (y - x - 1)
    OBVIOUS
  <2> QED
    BY <2>1
<1>2. c * y = c * x + c + c * d /\ c * d \in Nat /\ c * x \in Nat /\ c * y \in Nat
  BY <1>1
<1> QED
  BY <1>2

(* A remainder of 0 is a multiple.                                         *)
LEMMA RemainderZero ==
    ASSUME NEW x \in Nat, NEW c \in Positive
    PROVE  x % c = 0 <=> x \in Multiples(c)
<1>1. ASSUME x % c = 0
      PROVE  x \in Multiples(c)
  <2>1. PICK q \in Int : x = c * q
    <3>1. x \div c \in Int /\ x = c * (x \div c) + 0
      BY <1>1, DivMod DEF Positive
    <3>2. PICK q \in Int : x = c * q + 0
      BY <3>1
    <3> QED
      BY <3>2 DEF Positive
  <2>2. q >= 0
    <3> SUFFICES ASSUME q < 0
                 PROVE  FALSE
      BY <2>1
    <3>1. PICK d \in Nat : q = -1 - d
      <4>1. -1 - q \in Nat /\ q = -1 - (-1 - q)
        OBVIOUS
      <4> QED
        BY <4>1
    <3>2. c * q = -c - c * d /\ c * d \in Nat
      BY <3>1 DEF Positive
    <3> QED
      BY <2>1, <3>2 DEF Positive
  <2>3. q \in Nat /\ x = q * c
    BY <2>1, <2>2 DEF Positive
  <2> QED
    BY <2>3 DEF Multiples
<1>2. ASSUME x \in Multiples(c)
      PROVE  x % c = 0
  <2>1. PICK k \in Nat : x = k * c
    BY <1>2 DEF Multiples
  <2>2. PICK q \in Int : x = c * q + (x % c)
    <3>1. x \in Int /\ x \div c \in Int /\ x = c * (x \div c) + (x % c)
      BY DivMod
    <3> QED
      BY ONLY <3>1
  <2>3. PICK r \in 0 .. c - 1 : x % c = r
    BY DivMod DEF Positive
  <2>4. c * k = c * q + r
    BY <2>1, <2>2, <2>3 DEF Positive
  <2>5. k = q
    <3>1. ASSUME k < q
          PROVE  FALSE
      <4>1. q \in Nat /\ c \in Nat
        BY <3>1 DEF Positive
      <4>2. c * k + c <= c * q
        BY <4>1, <3>1, ProductsApart
      <4> QED
        BY <4>1, <4>2, <2>4 DEF Positive
    <3>2. ASSUME q < k
          PROVE  FALSE
      <4>1. PICK d \in Nat : k = q + 1 + d
        <5>1. k - q - 1 \in Nat /\ k = q + 1 + (k - q - 1)
          BY <3>2
        <5> QED
          BY <5>1
      <4>2. c * k = c * q + c + c * d /\ c * d \in Nat
        BY <4>1 DEF Positive
      <4> QED
        BY <4>2, <2>4 DEF Positive
    <3> QED
      BY <3>1, <3>2
  <2>6. r = 0
    BY <2>4, <2>5 DEF Positive
  <2> QED
    BY <2>3, <2>6
<1> QED
  BY <1>1, <1>2

LEMMA MultiplesSum ==
    ASSUME NEW c \in Positive, NEW x \in Multiples(c), NEW y \in Multiples(c)
    PROVE  x + y \in Multiples(c)
<1>1. PICK k \in Nat : x = k * c
  BY DEF Multiples
<1>2. PICK l \in Nat : y = l * c
  BY DEF Multiples
<1>3. x + y = (k + l) * c /\ k + l \in Nat /\ x + y \in Nat
  BY <1>1, <1>2 DEF Positive, Multiples
<1> QED
  BY <1>3 DEF Multiples

LEMMA MultiplesProduct ==
    ASSUME NEW c \in Positive, NEW x \in Multiples(c), NEW y \in Nat
    PROVE  x * y \in Multiples(c)
<1>1. PICK k \in Nat : x = k * c
  BY DEF Multiples
<1>2. x * y = (k * y) * c /\ k * y \in Nat /\ x * y \in Nat
  BY <1>1 DEF Positive, Multiples
<1> QED
  BY <1>2 DEF Multiples

(* Multiples of a multiple are multiples.                                  *)
LEMMA MultiplesNest ==
    ASSUME NEW c \in Positive, NEW b \in Multiples(c), NEW x \in Multiples(b)
    PROVE  x \in Multiples(c)
<1>1. PICK k \in Nat : x = k * b
  BY DEF Multiples
<1>2. b * k \in Multiples(c) /\ b \in Nat
  BY MultiplesProduct DEF Multiples
<1>3. x = b * k
  BY <1>1, <1>2
<1> QED
  BY <1>2, <1>3

(* internal_round_up gives the next multiple, and a multiple back.         *)
LEMMA RoundUpIs ==
    ASSUME NEW x \in Nat, NEW c \in Positive
    PROVE  /\ RoundUp(x, c) \in Multiples(c)
           /\ RoundUp(x, c) \in Nat
           /\ x <= RoundUp(x, c)
           /\ x \in Multiples(c) => RoundUp(x, c) = x
<1> DEFINE t == x + c - 1
<1>1. t \in Nat /\ c \in Nat /\ c > 0
  BY DEF Positive
<1>2. PICK r \in 0 .. c - 1 : t % c = r
  BY <1>1, DivMod DEF Positive
<1>3. PICK q \in Int : t = c * q + r
  <2>1. t \in Int /\ t \div c \in Int /\ t = c * (t \div c) + (t % c)
    BY <1>1, DivMod
  <2>2. t = c * (t \div c) + r
    BY <2>1, <1>2
  <2> QED
    BY ONLY <2>1, <2>2
<1>4. RoundUp(x, c) = t - r
  BY <1>2 DEF RoundUp
<1>5. t - r \in Nat /\ x <= t - r
  BY <1>1
<1>6. t - r = c * q
  BY <1>1, <1>3
<1>7. q >= 0
  <2> SUFFICES ASSUME q < 0
               PROVE  FALSE
    BY <1>1
  <2>1. PICK d \in Nat : q = -1 - d
    <3>1. -1 - q \in Nat /\ q = -1 - (-1 - q)
      OBVIOUS
    <3> QED
      BY <3>1
  <2>2. c * q = -c - c * d /\ c * d \in Nat
    BY <2>1, <1>1
  <2> QED
    BY <1>1, <1>5, <1>6, <2>2
<1>8. q \in Nat /\ t - r = q * c
  BY <1>1, <1>6, <1>7
<1>9. t - r \in Multiples(c)
  BY <1>5, <1>8 DEF Multiples
<1>10. ASSUME x \in Multiples(c)
       PROVE  t - r = x
  <2>1. PICK k \in Nat : x = k * c
    BY <1>10 DEF Multiples
  <2>2. c * q = c * k \/ c * q >= c * k + c
    <3>1. ~(q < k)
      <4>1. q < k => c * q + c <= c * k
        BY <1>1, <1>8, ProductsApart
      <4> QED
        BY <4>1, <1>1, <1>5, <1>6, <2>1
    <3>2. k < q => c * k + c <= c * q
      BY <1>1, <1>8, ProductsApart
    <3> QED
      BY <3>1, <3>2, <1>8
  <2>3. c * k = x /\ c * k \in Nat
    BY <2>1, <1>1
  <2> QED
    BY <2>2, <2>3, <1>1, <1>6
<1> QED
  BY <1>4, <1>5, <1>9, <1>10

-----------------------------------------------------------------------------
(* Recursive functions: each step of their definitions                     *)

(* A nonempty set of naturals has a least element.                         *)
LEMMA LeastNatural ==
    ASSUME NEW T \in SUBSET Nat, T # {}
    PROVE  \E x \in T : \A y \in T : x <= y
<1> DEFINE F == {0 .. x : x \in T}
<1>1. F \subseteq FiniteSubsetsOf(Nat) /\ F # {}
  <2>1. \A x \in T : 0 .. x \in SUBSET Nat /\ IsFiniteSet(0 .. x)
    <3> TAKE x \in T
    <3>1. 0 \in Int /\ x \in Int
      OBVIOUS
    <3>2. IsFiniteSet(0 .. x)
      BY <3>1, FS_Interval
    <3> QED
      BY <3>2
  <2>2. \A x \in T : 0 .. x \in FiniteSubsetsOf(Nat)
    BY <2>1 DEF FiniteSubsetsOf
  <2> QED
    BY <2>2
<1>2. PICK X \in F : \A Y \in F : <<Y, X>> \notin StrictSubsetOrdering(Nat)
  BY <1>1, WFMin, FS_StrictSubsetOrderingWellFounded
<1>3. PICK x \in T : X = 0 .. x
  OBVIOUS
<1>4. ASSUME NEW y \in T, y < x
      PROVE  FALSE
  <2>1. 0 .. y \subseteq X /\ x \notin 0 .. y /\ x \in X
    BY <1>3, <1>4
  <2>2. 0 .. y \in F /\ X \subseteq Nat
    BY <1>3
  <2>3. <<0 .. y, X>> \in StrictSubsetOrdering(Nat)
    BY <2>1, <2>2 DEF StrictSubsetOrdering
  <2> QED
    BY <2>2, <2>3, <1>2
<1> QED
  BY <1>4

(* A set with 0 and the successor of each member has all naturals.         *)
LEMMA BySteps ==
    ASSUME NEW P \in SUBSET Nat, 0 \in P, \A n \in Nat : n \in P => n + 1 \in P
    PROVE  P = Nat
<1> SUFFICES ASSUME Nat \ P # {}
             PROVE  FALSE
  OBVIOUS
<1>1. PICK n \in Nat \ P : \A m \in Nat \ P : n <= m
  <2>1. Nat \ P \in SUBSET Nat
    OBVIOUS
  <2> QED
    BY <2>1, LeastNatural
<1>2. n # 0 /\ n \in Nat
  BY <1>1
<1>3. n - 1 \in Nat /\ (n - 1) + 1 = n /\ ~(n <= n - 1)
  BY <1>2
<1>4. n - 1 \in P
  BY <1>1, <1>3
<1> QED
  BY <1>1, <1>3, <1>4

\* f starts at s and goes on by steps.
Follows(f, s, step, k) ==
    /\ f[0] = s
    /\ \A n \in Nat : n < k => f[n + 1] = step[n][f[n]]

(* A function that is given at 0 and by a step from one number to the next *)
(* exists.                                                                 *)
LEMMA Iterates ==
    ASSUME NEW S, NEW s \in S, NEW step \in [Nat -> [S -> S]], NEW k \in Nat
    PROVE  \E f \in [0 .. k -> S] : Follows(f, s, step, k)
<1> DEFINE P == {m \in Nat : \E f \in [0 .. m -> S] : Follows(f, s, step, m)}
<1>1. 0 \in P
  <2> DEFINE f == [n \in 0 .. 0 |-> s]
  <2>1. f \in [0 .. 0 -> S] /\ f[0] = s /\ \A n \in Nat : ~(n < 0)
    OBVIOUS
  <2>2. Follows(f, s, step, 0)
    BY <2>1 DEF Follows
  <2> QED
    BY <2>1, <2>2
<1>2. ASSUME NEW m \in Nat, m \in P
      PROVE  m + 1 \in P
  <2>1. PICK f \in [0 .. m -> S] : Follows(f, s, step, m)
    BY <1>2
  <2> DEFINE v == step[m][f[m]]
             g == [n \in 0 .. m + 1 |-> IF n = m + 1 THEN v ELSE f[n]]
  <2>2. f[m] \in S /\ v \in S
    <3>1. f[m] \in S
      OBVIOUS
    <3> QED
      BY <3>1
  <2> HIDE DEF v
  <2>3. /\ g[m + 1] = v
        /\ \A n \in 0 .. m : g[n] = f[n]
        /\ g \in [0 .. m + 1 -> S]
    <3>1. \A n \in 0 .. m : n \in 0 .. m + 1 /\ n # m + 1
      OBVIOUS
    <3>2. m + 1 \in 0 .. m + 1 /\ \A n \in 0 .. m + 1 : n = m + 1 \/ n \in 0 .. m
      OBVIOUS
    <3> QED
      BY <2>2, <3>1, <3>2
  <2> HIDE DEF g
  <2>4. g[0] = s
    BY <2>1, <2>3 DEF Follows
  <2>5. ASSUME NEW n \in Nat, n < m + 1
        PROVE  g[n + 1] = step[n][g[n]]
    <3>1. n \in 0 .. m /\ g[n] = f[n]
      BY <2>3, <2>5
    <3>2. CASE n = m
      BY <3>1, <3>2, <2>3 DEF v
    <3>3. CASE n < m
      <4>1. n + 1 \in 0 .. m
        BY <3>3
      <4>2. g[n + 1] = f[n + 1] /\ f[n + 1] = step[n][f[n]]
        BY <4>1, <3>3, <2>1, <2>3 DEF Follows
      <4> QED
        BY <3>1, <4>2
    <3> QED
      BY <3>2, <3>3, <2>5
  <2>6. Follows(g, s, step, m + 1)
    BY <2>4, <2>5 DEF Follows
  <2> QED
    BY <2>3, <2>6
<1> HIDE DEF P
<1>3. P = Nat
  <2>1. P \in SUBSET Nat
    BY DEF P
  <2> QED
    BY <1>1, <1>2, <2>1, BySteps
<1> QED
  BY <1>3 DEF P

-----------------------------------------------------------------------------
(* The footprints                                                          *)

(* The dimensions of a mip level stay positive.                            *)
LEMMA AtMipIs ==
    ASSUME NEW size \in Positive, NEW mip \in Nat
    PROVE  AtMip(size, mip) \in Positive
<1> DEFINE half(v) == IF v \div 2 = 0 THEN 1 ELSE v \div 2
           halved == CHOOSE h : h = [n \in 0 .. mip |-> IF n = 0 THEN size ELSE half(h[n - 1])]
<1>1. \A v \in Positive : half(v) \in Positive
  <2> TAKE v \in Positive
  <2>1. v \in Int /\ v > 0 /\ 2 \in Positive
    BY DEF Positive
  <2>2. v \div 2 \in Int /\ v % 2 \in 0 .. 1 /\ v = 2 * (v \div 2) + (v % 2)
    BY <2>1, DivMod
  <2>3. v \div 2 >= 0
    BY <2>1, <2>2
  <2> QED
    BY <2>2, <2>3 DEF Positive
<1>2. AtMip(size, mip) = halved[mip]
  BY DEF AtMip
<1> HIDE DEF half
<1>3. PICK step \in [Nat -> [Positive -> Positive]] : \A n \in Nat, v \in Positive : step[n][v] = half(v)
  <2> DEFINE st == [n \in Nat |-> [v \in Positive |-> half(v)]]
  <2>1. st \in [Nat -> [Positive -> Positive]] /\ \A n \in Nat, v \in Positive : st[n][v] = half(v)
    BY <1>1
  <2> QED
    BY <2>1
<1>4. PICK f \in [0 .. mip -> Positive] : Follows(f, size, step, mip)
  BY Iterates
<1>5. f = [n \in 0 .. mip |-> IF n = 0 THEN size ELSE half(f[n - 1])]
  <2>1. ASSUME NEW n \in 0 .. mip, n # 0
        PROVE  f[n] = half(f[n - 1])
    <3>1. PICK m \in Nat : n = m + 1 /\ n - 1 = m /\ m \in 0 .. mip /\ m < mip
      <4>1. n - 1 \in Nat /\ n = (n - 1) + 1 /\ n - 1 \in 0 .. mip /\ n - 1 < mip
        BY <2>1
      <4> QED
        BY <4>1
    <3>2. f[m] \in Positive /\ f[m + 1] = step[m][f[m]]
      BY <3>1, <1>4 DEF Follows
    <3> QED
      BY <3>1, <3>2, <1>3
  <2>2. f[0] = size
    BY <1>4 DEF Follows
  <2> QED
    BY <2>1, <2>2
<1>6. halved = [n \in 0 .. mip |-> IF n = 0 THEN size ELSE half(halved[n - 1])]
  BY <1>5
<1> HIDE DEF halved
<1> DEFINE P == {n \in Nat : n <= mip => halved[n] \in Positive}
<1>7. 0 \in P
  BY <1>6
<1>8. ASSUME NEW n \in Nat, n \in P
      PROVE  n + 1 \in P
  <2> SUFFICES ASSUME n + 1 <= mip
               PROVE  halved[n + 1] \in Positive
    OBVIOUS
  <2>1. halved[n] \in Positive
    BY <1>8
  <2>2. n + 1 \in 0 .. mip /\ n + 1 # 0 /\ (n + 1) - 1 = n
    OBVIOUS
  <2>3. halved[n + 1] = half(halved[n])
    BY <1>6, <2>2
  <2> QED
    BY <2>1, <2>3, <1>1
<1>9. mip \in P
  <2> HIDE DEF P
  <2>1. P \in SUBSET Nat
    BY DEF P
  <2> QED
    BY <2>1, <1>7, <1>8, BySteps
<1> QED
  BY <1>2, <1>9

(* The subresources are counted through mip levels, layers and aspects.    *)
LEMMA Counts ==
    ASSUME NEW tex \in TextureType
    PROVE  /\ Len(tex.bytes) \in Positive
           /\ NumSubresources(tex) \in Positive
<1>1. /\ tex.layers \in Positive /\ tex.mips \in Positive
      /\ tex.bytes \in Seq(Positive) /\ tex.bytes # <<>>
  BY DEF TextureType
<1>2. Len(tex.bytes) \in Positive
  BY <1>1 DEF Positive
<1>3. PICK n \in Nat : n = Len(tex.bytes) * tex.layers /\ n # 0
  BY <1>1, <1>2, Products DEF Positive
<1>4. n * tex.mips \in Nat /\ n * tex.mips # 0
  BY <1>1, <1>3, Products DEF Positive
<1> QED
  BY <1>2, <1>3, <1>4 DEF Positive, NumSubresources

(* Each subresource has the bytes of its aspect.                           *)
LEMMA BlockBytesIs ==
    ASSUME NEW tex \in TextureType, NEW i \in 0 .. NumSubresources(tex) - 1
    PROVE  /\ i \div (tex.mips * tex.layers) + 1 \in 1 .. Len(tex.bytes)
           /\ BlockBytes(tex, i) \in Positive
<1>1. /\ tex.layers \in Positive /\ tex.mips \in Positive
      /\ tex.bytes \in Seq(Positive)
  BY DEF TextureType
<1>2. PICK c \in Positive : c = tex.mips * tex.layers
  BY <1>1, Products DEF Positive
<1>3. PICK l \in Nat : l = Len(tex.bytes)
  BY <1>1
<1>4. NumSubresources(tex) = c * l
  BY <1>1, <1>2, <1>3 DEF NumSubresources, Positive
<1>5. i \in Int /\ i \in Nat /\ i < c * l
  <2>1. NumSubresources(tex) \in Nat
    BY Counts DEF Positive
  <2> QED
    BY <2>1, <1>4
<1>6. PICK q \in Int : q = i \div c /\ \E r \in 0 .. c - 1 : i = c * q + r
  <2>1. i \div c \in Int /\ i % c \in 0 .. c - 1 /\ i = c * (i \div c) + (i % c)
    BY <1>5, DivMod
  <2> QED
    BY <2>1
<1>7. PICK r \in 0 .. c - 1 : i = c * q + r
  BY <1>6
<1>8. q >= 0
  <2> SUFFICES ASSUME q < 0
               PROVE  FALSE
    OBVIOUS
  <2>1. PICK d \in Nat : q = -1 - d
    <3>1. -1 - q \in Nat /\ q = -1 - (-1 - q)
      OBVIOUS
    <3> QED
      BY <3>1
  <2>2. c * q = -c - c * d /\ c * d \in Nat
    BY <2>1 DEF Positive
  <2> QED
    BY <2>2, <1>5, <1>7 DEF Positive
<1>9. q < l
  <2> SUFFICES ASSUME l <= q
               PROVE  FALSE
    BY <1>3
  <2>1. c * l <= c * q
    <3>1. c \in Nat /\ q \in Nat /\ c * l \in Nat /\ c * q \in Nat
      BY <1>8 DEF Positive
    <3>2. l < q => c * l + c <= c * q
      BY <3>1, ProductsApart
    <3> QED
      BY <3>1, <3>2
  <2> QED
    BY <2>1, <1>5, <1>7 DEF Positive
<1>10. i \div (tex.mips * tex.layers) + 1 \in 1 .. Len(tex.bytes)
  <2>1. i \div (tex.mips * tex.layers) = q
    BY <1>2, <1>6
  <2>2. q + 1 \in 1 .. l
    BY <1>8, <1>9
  <2> QED
    BY <2>1, <2>2, <1>3
<1> QED
  BY <1>1, <1>10 DEF BlockBytes

LEMMA CeilPositive ==
    ASSUME NEW x \in Positive, NEW b \in Positive
    PROVE  (x + b - 1) \div b \in Positive
<1> DEFINE t == x + b - 1
<1>1. t \in Int /\ t >= b /\ b > 0 /\ b \in Nat
  BY DEF Positive
<1>2. PICK q \in Int : q = t \div b /\ \E r \in 0 .. b - 1 : t = b * q + r
  <2>1. t \div b \in Int /\ t % b \in 0 .. b - 1 /\ t = b * (t \div b) + (t % b)
    BY <1>1, DivMod
  <2> QED
    BY <2>1
<1>3. PICK r \in 0 .. b - 1 : t = b * q + r
  BY <1>2
<1>4. q > 0
  <2> SUFFICES ASSUME q <= 0
               PROVE  FALSE
    OBVIOUS
  <2>1. PICK d \in Nat : q = -d
    <3>1. -q \in Nat /\ q = -(-q)
      OBVIOUS
    <3> QED
      BY <3>1
  <2>2. b * q = -(b * d) /\ b * d \in Nat
    BY <2>1, <1>1
  <2> QED
    BY <2>2, <1>1, <1>3
<1>5. t \div b \in Positive
  BY <1>2, <1>4 DEF Positive
<1> QED
  BY <1>5

(* Rows fit in their pitch, slices in the allocation, and with alignments  *)
(* of which one divides the other every allocation is whole rows.          *)
LEMMA Geometry ==
    ASSUME NEW tex \in TextureType, NEW l \in Aligned, NEW i \in 0 .. NumSubresources(tex) - 1
    PROVE  /\ RowSize(tex, i) \in Positive
           /\ RowPitch(tex, l, i) \in Positive
           /\ RowSize(tex, i) <= RowPitch(tex, l, i)
           /\ NumRows(tex, i) \in Positive
           /\ Depth(tex, i) \in Positive
           /\ SlicePitch(tex, l, i) \in Positive
           /\ AllocationSize(tex, l, i) \in Positive
           /\ AllocationSize(tex, l, i) \in Multiples(l.row)
           /\ SlicePitch(tex, l, i) * Depth(tex, i) <= AllocationSize(tex, l, i)
<1>1. /\ tex.w \in Positive /\ tex.h \in Positive /\ tex.d \in Positive
      /\ tex.mips \in Positive /\ tex.bw \in Positive /\ tex.bh \in Positive
  BY DEF TextureType
<1>2. l.row \in Positive /\ l.offset \in Positive
  BY DEF Aligned
<1>3. MipLevel(tex, i) \in Nat
  <2>1. i \in Int
    BY Counts DEF Positive
  <2>2. i % tex.mips \in 0 .. tex.mips - 1
    BY <1>1, <2>1, DivMod
  <2> QED
    BY <2>2, <1>1 DEF MipLevel, Positive
<1>4. /\ Width(tex, i) \in Positive
      /\ Height(tex, i) \in Positive
      /\ Depth(tex, i) \in Positive
  BY <1>1, <1>3, AtMipIs DEF Width, Height, Depth
<1>5. BlocksWide(tex, i) \in Positive /\ NumRows(tex, i) \in Positive
  BY <1>1, <1>4, CeilPositive DEF BlocksWide, NumRows
<1>6. RowSize(tex, i) \in Positive
  BY <1>5, BlockBytesIs, Products DEF RowSize, Positive
<1>7. /\ RowPitch(tex, l, i) \in Multiples(l.row)
      /\ RowPitch(tex, l, i) \in Nat
      /\ RowSize(tex, i) <= RowPitch(tex, l, i)
  BY <1>2, <1>6, RoundUpIs DEF RowPitch, Positive
<1>8. RowPitch(tex, l, i) \in Positive
  BY <1>6, <1>7 DEF Positive
<1>9. /\ SlicePitch(tex, l, i) \in Positive
      /\ SlicePitch(tex, l, i) \in Multiples(l.row)
  BY <1>2, <1>5, <1>7, <1>8, Products, MultiplesProduct DEF SlicePitch, Positive
<1>10. PICK n \in Positive : n = SlicePitch(tex, l, i) * Depth(tex, i) /\ n \in Multiples(l.row)
  <2>1. SlicePitch(tex, l, i) * Depth(tex, i) \in Positive
    BY <1>4, <1>9, Products DEF Positive
  <2>2. SlicePitch(tex, l, i) * Depth(tex, i) \in Multiples(l.row)
    BY <1>2, <1>4, <1>9, MultiplesProduct DEF Positive
  <2> QED
    BY <2>1, <2>2
<1>11. AllocationSize(tex, l, i) = RoundUp(n, l.offset)
  BY <1>10 DEF AllocationSize
<1>12. /\ RoundUp(n, l.offset) \in Multiples(l.offset)
       /\ RoundUp(n, l.offset) \in Nat /\ n <= RoundUp(n, l.offset)
       /\ n \in Multiples(l.offset) => RoundUp(n, l.offset) = n
  BY <1>2, RoundUpIs DEF Positive
<1>13. RoundUp(n, l.offset) \in Multiples(l.row)
  <2>1. CASE l.offset % l.row = 0
    <3>1. l.offset \in Multiples(l.row)
      BY <1>2, <2>1, RemainderZero DEF Positive
    <3> QED
      BY <1>2, <1>12, <3>1, MultiplesNest
  <2>2. CASE l.row % l.offset = 0
    <3>1. l.row \in Multiples(l.offset)
      BY <1>2, <2>2, RemainderZero DEF Positive
    <3>2. n \in Multiples(l.offset)
      BY <1>2, <1>10, <3>1, MultiplesNest
    <3> QED
      BY <1>10, <1>12, <3>2
  <2> QED
    BY <2>1, <2>2 DEF Aligned
<1>14. RoundUp(n, l.offset) \in Positive
  BY <1>12 DEF Positive
<1>15. SlicePitch(tex, l, i) * Depth(tex, i) <= AllocationSize(tex, l, i)
  BY <1>10, <1>11, <1>12
<1>16. AllocationSize(tex, l, i) \in Positive /\ AllocationSize(tex, l, i) \in Multiples(l.row)
  BY <1>11, <1>13, <1>14
<1> QED
  BY <1>4, <1>5, <1>6, <1>7, <1>8, <1>9, <1>15, <1>16

(* stagingOffset goes from one subresource to the next by its allocation.  *)
LEMMA StagingSteps ==
    ASSUME NEW tex \in TextureType, NEW l \in Aligned, NEW base \in Nat
    PROVE  /\ StagingOffset(tex, l, base, 0) = RoundUp(base, l.row)
           /\ \A i \in 0 .. NumSubresources(tex) : StagingOffset(tex, l, base, i) \in Nat
           /\ \A i \in 0 .. NumSubresources(tex) - 1 :
                 StagingOffset(tex, l, base, i + 1)
                     = StagingOffset(tex, l, base, i) + AllocationSize(tex, l, i)
<1> DEFINE s == RoundUp(base, l.row)
           A(i) == AllocationSize(tex, l, i)
           O(i) == StagingOffset(tex, l, base, i)
<1>1. PICK N \in Positive : N = NumSubresources(tex)
  BY Counts
<1>2. s \in Nat
  BY RoundUpIs DEF Aligned
<1>3. \A i \in 0 .. N - 1 : A(i) \in Nat
  BY <1>1, Geometry DEF Positive
<1> HIDE DEF s, A
<1>4. PICK step \in [Nat -> [Nat -> Nat]] :
        \A n \in Nat, v \in Nat : n < N => step[n][v] = v + A(n)
  <2> DEFINE st == [n \in Nat |-> [v \in Nat |-> IF n < N THEN v + A(n) ELSE v]]
  <2>1. \A n \in Nat, v \in Nat : n < N => v + A(n) \in Nat
    BY <1>3 DEF Positive
  <2>2. st \in [Nat -> [Nat -> Nat]]
    BY <2>1
  <2>3. \A n \in Nat, v \in Nat : n < N => st[n][v] = v + A(n)
    OBVIOUS
  <2> HIDE DEF st
  <2> QED
    BY <2>2, <2>3
<1>5. PICK F \in [0 .. N -> Nat] : Follows(F, s, step, N)
  BY <1>2, Iterates DEF Positive
<1>6. F[0] = s /\ \A n \in Nat : n < N => F[n + 1] = F[n] + A(n)
  <2>1. F[0] = s
    BY <1>5 DEF Follows
  <2>2. ASSUME NEW n \in Nat, n < N
        PROVE  F[n + 1] = F[n] + A(n)
    <3>1. F[n + 1] = step[n][F[n]]
      BY <1>5, <2>2 DEF Follows
    <3>2. F[n] \in Nat
      <4>1. n \in 0 .. N
        BY <2>2 DEF Positive
      <4> QED
        BY <4>1
    <3> QED
      BY <1>4, <2>2, <3>1, <3>2
  <2> QED
    BY <2>1, <2>2
<1>7. ASSUME NEW i \in 0 .. N
      PROVE  O(i) = F[i]
  <2> DEFINE offset == CHOOSE o : o = [n \in 0 .. i |-> IF n = 0 THEN s ELSE o[n - 1] + A(n - 1)]
             f == [n \in 0 .. i |-> F[n]]
  <2>1. O(i) = offset[i]
    BY DEF StagingOffset, s, A
  <2> HIDE DEF O
  <2>2. f = [n \in 0 .. i |-> IF n = 0 THEN s ELSE f[n - 1] + A(n - 1)]
    <3>1. ASSUME NEW n \in 0 .. i, n # 0
          PROVE  F[n] = f[n - 1] + A(n - 1)
      <4>1. PICK m \in Nat : n = m + 1 /\ n - 1 = m /\ m \in 0 .. i /\ m < N
        <5>1. n - 1 \in Nat /\ n = (n - 1) + 1 /\ n - 1 \in 0 .. i /\ n - 1 < N
          BY <3>1 DEF Positive
        <5> QED
          BY <5>1
      <4>2. f[m] = F[m] /\ F[m + 1] = F[m] + A(m)
        BY <4>1, <1>6
      <4> QED
        BY <4>1, <4>2
    <3>2. F[0] = s
      BY <1>6
    <3> QED
      BY <3>1, <3>2
  <2> HIDE DEF f
  <2>3. offset = [n \in 0 .. i |-> IF n = 0 THEN s ELSE offset[n - 1] + A(n - 1)]
    BY <2>2
  <2> HIDE DEF offset
  <2> DEFINE P == {n \in Nat : n <= i => offset[n] = F[n]}
  <2>4. 0 \in P
    <3>1. 0 \in 0 .. i
      BY DEF Positive
    <3>2. offset[0] = s
      BY <2>3, <3>1
    <3> QED
      BY <3>2, <1>6
  <2>5. ASSUME NEW n \in Nat, n \in P
        PROVE  n + 1 \in P
    <3> SUFFICES ASSUME n + 1 <= i
                 PROVE  offset[n + 1] = F[n + 1]
      OBVIOUS
    <3>1. offset[n] = F[n]
      BY <2>5
    <3>2. n + 1 \in 0 .. i /\ n + 1 # 0 /\ (n + 1) - 1 = n /\ n < N
      BY DEF Positive
    <3>3. offset[n + 1] = offset[n] + A(n)
      BY <2>3, <3>2
    <3> QED
      BY <3>1, <3>2, <3>3, <1>6
  <2>6. i \in P
    <3> HIDE DEF P
    <3>1. P \in SUBSET Nat /\ i \in Nat
      BY DEF P
    <3>2. P = Nat
      BY <3>1, <2>4, <2>5, BySteps
    <3> QED
      BY <3>1, <3>2
  <2> QED
    BY <2>1, <2>6
<1> HIDE DEF O
<1>8. O(0) = s
  BY <1>6, <1>7 DEF Positive
<1>9. \A i \in 0 .. N : O(i) \in Nat
  BY <1>7
<1>10. ASSUME NEW i \in 0 .. N - 1
       PROVE  O(i + 1) = O(i) + A(i)
  <2>1. i \in Nat /\ i < N /\ i \in 0 .. N /\ i + 1 \in 0 .. N
    BY DEF Positive
  <2> QED
    BY <2>1, <1>6, <1>7
<1> QED
  BY <1>1, <1>8, <1>9, <1>10 DEF O, A, s

(* Later subresources lie behind earlier ones.                             *)
LEMMA StagingOrder ==
    ASSUME NEW tex \in TextureType, NEW l \in Aligned, NEW base \in Nat,
           NEW i \in 0 .. NumSubresources(tex) - 1, NEW j \in 0 .. NumSubresources(tex), i < j
    PROVE  StagingOffset(tex, l, base, i) + AllocationSize(tex, l, i)
               <= StagingOffset(tex, l, base, j)
<1> DEFINE O(n) == StagingOffset(tex, l, base, n)
           A(n) == AllocationSize(tex, l, n)
<1>1. PICK N \in Positive : N = NumSubresources(tex)
  BY Counts
<1>2. \A n \in 0 .. N - 1 : O(n + 1) = O(n) + A(n) /\ A(n) \in Nat
  BY <1>1, StagingSteps, Geometry DEF Positive
<1>3. \A n \in 0 .. N : O(n) \in Nat
  BY <1>1, StagingSteps
<1> HIDE DEF O, A
<1> DEFINE P == {d \in Nat : i + 1 + d <= N => O(i) + A(i) <= O(i + 1 + d)}
<1>4. i \in 0 .. N - 1 /\ i \in Nat /\ j \in 0 .. N /\ N \in Nat
  BY <1>1 DEF Positive
<1>5. 0 \in P
  <2>1. O(i + 1) = O(i) + A(i) /\ i + 1 + 0 = i + 1 /\ i + 1 \in 0 .. N
    BY <1>2, <1>4
  <2>2. O(i + 1) \in Nat
    BY <2>1, <1>3
  <2> QED
    BY <2>1, <2>2
<1>6. ASSUME NEW d \in Nat, d \in P
      PROVE  d + 1 \in P
  <2> SUFFICES ASSUME i + 1 + (d + 1) <= N
               PROVE  O(i) + A(i) <= O(i + 1 + (d + 1))
    OBVIOUS
  <2>1. PICK n \in 0 .. N - 1 : n = i + 1 + d /\ n + 1 = i + 1 + (d + 1)
    <3>1. i + 1 + d \in 0 .. N - 1 /\ (i + 1 + d) + 1 = i + 1 + (d + 1)
      BY <1>4
    <3> QED
      BY <3>1
  <2>2. n <= N
    BY <1>4
  <2>3. O(i) + A(i) <= O(n)
    BY <1>6, <2>1, <2>2
  <2>4. O(n + 1) = O(n) + A(n) /\ A(n) \in Nat /\ O(n) \in Nat /\ O(i) \in Nat /\ A(i) \in Nat
    <3>1. n \in 0 .. N /\ i \in 0 .. N
      BY <1>4
    <3> QED
      BY <3>1, <1>2, <1>3, <1>4
  <2>5. O(i) + A(i) <= O(n + 1)
    BY <2>3, <2>4
  <2> QED
    BY <2>1, <2>5
<1>7. j - (i + 1) \in Nat /\ i + 1 + (j - (i + 1)) = j /\ j <= N
  BY <1>4
<1>8. j - (i + 1) \in P
  <2> HIDE DEF P
  <2>1. P \in SUBSET Nat
    BY DEF P
  <2> QED
    BY <2>1, <1>5, <1>6, <1>7, BySteps
<1>9. O(i) + A(i) <= O(j)
  BY <1>7, <1>8
<1> QED
  BY <1>9 DEF O, A

(* From a base that is whole rows the load takes as many bytes as from any *)
(* other, and they are whole rows.                                         *)
LEMMA TotalIs ==
    ASSUME NEW tex \in TextureType, NEW l \in Aligned, NEW base \in Multiples(l.row)
    PROVE  /\ TotalBytes(tex, l, base) = TotalBytes(tex, l, 0)
           /\ TotalBytes(tex, l, base) \in Positive
           /\ TotalBytes(tex, l, base) \in Multiples(l.row)
           /\ StagingOffset(tex, l, base, NumSubresources(tex)) = base + TotalBytes(tex, l, base)
           /\ StagingOffset(tex, l, base, 0) = base
<1> DEFINE O(n) == StagingOffset(tex, l, base, n)
           Z(n) == StagingOffset(tex, l, 0, n)
           A(n) == AllocationSize(tex, l, n)
<1>1. PICK N \in Positive : N = NumSubresources(tex)
  BY Counts
<1>2. base \in Nat /\ l.row \in Positive /\ 0 \in Multiples(l.row)
  <2>1. l.row \in Positive /\ base \in Nat
    BY DEF Aligned, Multiples
  <2>2. 0 = 0 * l.row
    BY <2>1 DEF Positive
  <2> QED
    BY <2>1, <2>2 DEF Multiples
<1>3. O(0) = base /\ Z(0) = 0
  <2>1. RoundUp(base, l.row) = base /\ RoundUp(0, l.row) = 0
    BY <1>2, RoundUpIs
  <2> QED
    BY <2>1, <1>2, StagingSteps
<1>4. \A n \in 0 .. N : O(n) \in Nat /\ Z(n) \in Nat
  BY <1>1, <1>2, StagingSteps
<1>5. \A n \in 0 .. N - 1 : O(n + 1) = O(n) + A(n) /\ Z(n + 1) = Z(n) + A(n)
  BY <1>1, <1>2, StagingSteps
<1>6. \A n \in 0 .. N - 1 : A(n) \in Positive /\ A(n) \in Multiples(l.row)
  BY <1>1, Geometry
<1>7. Z(0) + A(0) <= Z(N)
  <2>1. 0 \in 0 .. N - 1 /\ N \in 0 .. N /\ 0 < N
    BY DEF Positive
  <2> QED
    BY <2>1, <1>1, StagingOrder
<1>8. /\ TotalBytes(tex, l, base) = O(N) - base
      /\ TotalBytes(tex, l, 0) = Z(N) - 0
  BY <1>1 DEF TotalBytes
<1> HIDE DEF O, Z, A
<1> DEFINE P == {n \in Nat : n <= N => O(n) = base + Z(n) /\ Z(n) \in Multiples(l.row)}
<1>9. 0 \in P
  BY <1>2, <1>3
<1>10. ASSUME NEW n \in Nat, n \in P
       PROVE  n + 1 \in P
  <2> SUFFICES ASSUME n + 1 <= N
               PROVE  O(n + 1) = base + Z(n + 1) /\ Z(n + 1) \in Multiples(l.row)
    OBVIOUS
  <2>1. n \in 0 .. N - 1 /\ n \in 0 .. N /\ n <= N
    BY DEF Positive
  <2>2. O(n) = base + Z(n) /\ Z(n) \in Multiples(l.row)
    BY <1>10, <2>1
  <2>3. O(n + 1) = O(n) + A(n) /\ Z(n + 1) = Z(n) + A(n)
    BY <1>5, <2>1
  <2>4. A(n) \in Positive /\ A(n) \in Multiples(l.row) /\ Z(n) \in Nat
    BY <1>4, <1>6, <2>1
  <2>5. Z(n + 1) \in Multiples(l.row)
    BY <1>2, <2>2, <2>3, <2>4, MultiplesSum
  <2> QED
    BY <1>2, <2>2, <2>3, <2>4, <2>5 DEF Positive
<1>11. O(N) = base + Z(N) /\ Z(N) \in Multiples(l.row)
  <2>1. N \in P
    <3> HIDE DEF P
    <3>1. P \in SUBSET Nat /\ N \in Nat
      BY DEF P, Positive
    <3> QED
      BY <3>1, <1>9, <1>10, BySteps
  <2>2. N <= N
    BY DEF Positive
  <2> QED
    BY <2>1, <2>2
<1>12. Z(N) \in Positive
  <2>1. A(0) \in Positive /\ Z(N) \in Nat
    <3>1. 0 \in 0 .. N - 1 /\ N \in 0 .. N
      BY DEF Positive
    <3> QED
      BY <3>1, <1>4, <1>6
  <2> QED
    BY <2>1, <1>3, <1>7 DEF Positive
<1>13. /\ TotalBytes(tex, l, base) = Z(N)
       /\ TotalBytes(tex, l, 0) = Z(N)
  <2>1. Z(N) \in Nat
    BY <1>12 DEF Positive
  <2> QED
    BY <2>1, <1>2, <1>8, <1>11
<1>14. StagingOffset(tex, l, base, NumSubresources(tex)) = O(N)
  BY <1>1 DEF O
<1>15. StagingOffset(tex, l, base, 0) = base
  BY <1>3 DEF O
<1> QED
  BY <1>11, <1>12, <1>13, <1>14, <1>15

\* A row that a loader writes.
RowType == [sub : Nat, z : Nat, y : Nat, len : Nat, at : Nat]

(* A row of a subresource lies in its slice, and the slices in what the    *)
(* subresource was allocated.                                              *)
LEMMA RowsInside ==
    ASSUME NEW tex \in TextureType, NEW l \in Aligned, NEW base \in Nat,
           NEW i \in 0 .. NumSubresources(tex) - 1, NEW r \in Rows(tex, l, base, i)
    PROVE  /\ r \in RowType /\ r.sub = i /\ r.len = RowSize(tex, i)
           /\ r.z \in 0 .. Depth(tex, i) - 1 /\ r.y \in 0 .. NumRows(tex, i) - 1
           /\ r.at = StagingOffset(tex, l, base, i)
                       + SlicePitch(tex, l, i) * r.z + RowPitch(tex, l, i) * r.y
           /\ StagingOffset(tex, l, base, i) <= r.at
           /\ r.at + r.len <= StagingOffset(tex, l, base, i) + SlicePitch(tex, l, i) * (r.z + 1)
           /\ r.at + r.len <= StagingOffset(tex, l, base, i) + AllocationSize(tex, l, i)
<1>1. PICK z \in 0 .. Depth(tex, i) - 1, y \in 0 .. NumRows(tex, i) - 1 :
        r = [sub |-> i, z |-> z, y |-> y, len |-> RowSize(tex, i),
             at |-> StagingOffset(tex, l, base, i)
                       + SlicePitch(tex, l, i) * z + RowPitch(tex, l, i) * y]
  BY DEF Rows
<1>2. PICK S \in Positive : S = SlicePitch(tex, l, i)
  BY Geometry
<1>3. PICK R \in Positive : R = RowPitch(tex, l, i)
  BY Geometry
<1>4. PICK n \in Positive : n = NumRows(tex, i)
  BY Geometry
<1>5. PICK d \in Positive : d = Depth(tex, i)
  BY Geometry
<1>6. PICK len \in Positive : len = RowSize(tex, i) /\ len <= R
  BY <1>3, Geometry
<1>7. PICK a \in Positive : a = AllocationSize(tex, l, i) /\ S * d <= a
  BY <1>2, <1>5, Geometry
<1>8. PICK o \in Nat : o = StagingOffset(tex, l, base, i)
  <2>1. i \in 0 .. NumSubresources(tex)
    BY Counts DEF Positive
  <2> QED
    BY <2>1, StagingSteps
<1>9. z \in Nat /\ y \in Nat /\ z < d /\ y < n /\ i \in Nat
  BY <1>4, <1>5, Counts DEF Positive
<1>10. S = R * n
  BY <1>2, <1>3, <1>4 DEF SlicePitch
<1>11. R * y + R <= R * n /\ S * z + S <= S * d
  BY <1>9, ProductsApart DEF Positive
<1>12. R * y \in Nat /\ S * z \in Nat /\ S * d \in Nat /\ S * (z + 1) = S * z + S
  BY <1>9 DEF Positive
<1>13. PICK at \in Nat : at = o + S * z + R * y
  BY <1>12
<1>14. /\ o <= at
       /\ at + len <= o + S * (z + 1)
       /\ at + len <= o + a
  BY <1>6, <1>7, <1>10, <1>11, <1>12, <1>13 DEF Positive
<1>15. r = [sub |-> i, z |-> z, y |-> y, len |-> len, at |-> at]
  BY <1>1, <1>2, <1>3, <1>6, <1>8, <1>13
<1>16. r.sub = i /\ r.z = z /\ r.y = y /\ r.len = len /\ r.at = at
  BY <1>15
<1>17. r \in RowType
  BY <1>6, <1>9, <1>15 DEF RowType, Positive
<1> QED
  BY <1>2, <1>3, <1>6, <1>7, <1>8, <1>13, <1>14, <1>16, <1>17

(* Different rows of one load do not touch.                                *)
LEMMA RowsApart ==
    ASSUME NEW tex \in TextureType, NEW l \in Aligned, NEW base \in Nat,
           NEW i \in 0 .. NumSubresources(tex) - 1, NEW r \in Rows(tex, l, base, i),
           NEW j \in 0 .. NumSubresources(tex) - 1, NEW s \in Rows(tex, l, base, j),
           r # s
    PROVE  Disjoint(r, s)
<1>1. r \in RowType /\ s \in RowType
  BY RowsInside
<1>2. ASSUME NEW a \in 0 .. NumSubresources(tex) - 1, NEW p \in Rows(tex, l, base, a),
             NEW b \in 0 .. NumSubresources(tex) - 1, NEW q \in Rows(tex, l, base, b), a < b
      PROVE  p.at + p.len <= q.at
  <2>1. PICK x \in Nat : x = StagingOffset(tex, l, base, a) + AllocationSize(tex, l, a)
    <3>1. a \in 0 .. NumSubresources(tex)
      BY Counts DEF Positive
    <3> QED
      BY <3>1, StagingSteps, Geometry DEF Positive
  <2>2. PICK o \in Nat : o = StagingOffset(tex, l, base, b) /\ x <= o
    <3>1. b \in 0 .. NumSubresources(tex)
      BY Counts DEF Positive
    <3> QED
      BY <2>1, <3>1, <1>2, StagingSteps, StagingOrder
  <2>3. p.at + p.len <= x /\ o <= q.at /\ p \in RowType /\ q \in RowType
    BY <2>1, <2>2, RowsInside
  <2>4. p.at + p.len \in Nat /\ q.at \in Nat
    BY <2>3 DEF RowType
  <2> QED
    BY <2>2, <2>3, <2>4
<1>3. CASE i # j
  <2>1. i < j \/ j < i
    BY <1>3, Counts DEF Positive
  <2> QED
    BY <1>2, <2>1 DEF Disjoint
<1>4. CASE i = j
  <2>1. PICK S \in Positive : S = SlicePitch(tex, l, i)
    BY Geometry
  <2>2. PICK R \in Positive : R = RowPitch(tex, l, i)
    BY Geometry
  <2>3. PICK len \in Positive : len = RowSize(tex, i) /\ len <= R
    BY <2>2, Geometry
  <2>4. PICK o \in Nat : o = StagingOffset(tex, l, base, i)
    <3>1. i \in 0 .. NumSubresources(tex)
      BY Counts DEF Positive
    <3> QED
      BY <3>1, StagingSteps
  <2>5. ASSUME NEW p \in Rows(tex, l, base, i), NEW q \in Rows(tex, l, base, i), p.z < q.z
        PROVE  p.at + p.len <= q.at
    <3>1. p \in RowType /\ q \in RowType
      BY RowsInside
    <3>2. p.z \in Nat /\ q.z \in Nat /\ p.at \in Nat /\ q.at \in Nat /\ q.y \in Nat /\ p.len \in Nat
      BY <3>1 DEF RowType
    <3>3. S * p.z + S <= S * q.z
      BY <2>5, <3>2, ProductsApart DEF Positive
    <3>4. p.at + p.len <= o + S * (p.z + 1) /\ q.at = o + S * q.z + R * q.y
      BY <2>1, <2>2, <2>4, RowsInside
    <3>5. S * (p.z + 1) = S * p.z + S /\ R * q.y \in Nat /\ S * p.z \in Nat /\ S * q.z \in Nat
      BY <3>2 DEF Positive
    <3> QED
      BY <3>2, <3>3, <3>4, <3>5 DEF Positive
  <2>6. ASSUME NEW p \in Rows(tex, l, base, i), NEW q \in Rows(tex, l, base, i),
               p.z = q.z, p.y < q.y
        PROVE  p.at + p.len <= q.at
    <3>1. p \in RowType /\ q \in RowType /\ p.len = len
      BY <2>3, RowsInside
    <3>2. p.z \in Nat /\ p.y \in Nat /\ q.y \in Nat /\ p.at \in Nat /\ q.at \in Nat
      BY <3>1 DEF RowType
    <3>3. R * p.y + R <= R * q.y
      BY <2>6, <3>2, ProductsApart DEF Positive
    <3>4. p.at = o + S * p.z + R * p.y /\ q.at = o + S * p.z + R * q.y
      BY <2>1, <2>2, <2>4, <2>6, RowsInside
    <3>5. R * p.y \in Nat /\ R * q.y \in Nat /\ S * p.z \in Nat
      BY <3>2 DEF Positive
    <3> QED
      BY <2>3, <3>1, <3>2, <3>3, <3>4, <3>5 DEF Positive
  <2>7. r.z # s.z \/ r.y # s.y
    <3>1. /\ r.sub = i /\ r.len = len /\ r.at = o + S * r.z + R * r.y
          /\ s.sub = i /\ s.len = len /\ s.at = o + S * s.z + R * s.y
      BY <1>4, <2>1, <2>2, <2>3, <2>4, RowsInside
    <3>2. /\ r = [sub |-> r.sub, z |-> r.z, y |-> r.y, len |-> r.len, at |-> r.at]
          /\ s = [sub |-> s.sub, z |-> s.z, y |-> s.y, len |-> s.len, at |-> s.at]
      BY <1>1 DEF RowType
    <3> SUFFICES ASSUME r.z = s.z, r.y = s.y
                 PROVE  FALSE
      OBVIOUS
    <3>3. r.at = s.at /\ r.sub = s.sub /\ r.len = s.len
      BY <3>1
    <3> QED
      BY <3>2, <3>3
  <2>8. r.z \in Nat /\ s.z \in Nat /\ r.y \in Nat /\ s.y \in Nat
    BY <1>1 DEF RowType
  <2>9. r.z < s.z \/ s.z < r.z \/ (r.z = s.z /\ r.y < s.y) \/ (r.z = s.z /\ s.y < r.y)
    BY <2>7, <2>8
  <2>10. s \in Rows(tex, l, base, i)
    BY <1>4
  <2> QED
    BY <2>5, <2>6, <2>9, <2>10 DEF Disjoint
<1> QED
  BY <1>3, <1>4

(* The rows of a load lie in the range that it announces.                  *)
LEMMA RowsInRange ==
    ASSUME NEW tex \in TextureType, NEW l \in Aligned, NEW base \in Multiples(l.row),
           NEW i \in 0 .. NumSubresources(tex) - 1
    PROVE  /\ \A r \in Rows(tex, l, base, i) :
                 base <= r.at /\ r.at + r.len <= base + TotalBytes(tex, l, base)
           /\ StagingOffset(tex, l, base, i) < base + TotalBytes(tex, l, base)
<1>1. PICK N \in Positive : N = NumSubresources(tex)
  BY Counts
<1>2. base \in Nat
  BY DEF Multiples
<1>3. PICK T \in Positive : T = TotalBytes(tex, l, base)
  BY TotalIs
<1>4. StagingOffset(tex, l, base, 0) = base /\ StagingOffset(tex, l, base, N) = base + T
  BY <1>1, <1>3, TotalIs
<1>5. i \in 0 .. N /\ N \in 0 .. N /\ 0 \in 0 .. N - 1 /\ i < N
  BY <1>1 DEF Positive
<1>6. PICK o \in Nat : o = StagingOffset(tex, l, base, i)
  BY <1>1, <1>2, <1>5, StagingSteps
<1>7. PICK a \in Positive : a = AllocationSize(tex, l, i)
  BY Geometry
<1>8. o + a <= base + T
  BY <1>1, <1>2, <1>4, <1>5, <1>6, <1>7, StagingOrder
<1>9. base <= o
  <2>1. CASE i = 0
    BY <1>2, <1>4, <1>6, <2>1
  <2>2. CASE i # 0
    <3>1. 0 < i
      BY <2>2, <1>5
    <3>2. PICK b \in Positive : b = AllocationSize(tex, l, 0)
      BY <1>1, <1>5, Geometry
    <3>3. base + b <= o
      BY <1>1, <1>2, <1>4, <1>5, <1>6, <3>1, <3>2, StagingOrder
    <3> QED
      BY <1>2, <3>2, <3>3 DEF Positive
  <2> QED
    BY <2>1, <2>2
<1>10. ASSUME NEW r \in Rows(tex, l, base, i)
       PROVE  base <= r.at /\ r.at + r.len <= base + T
  <2>1. r \in RowType /\ o <= r.at /\ r.at + r.len <= o + a
    BY <1>2, <1>6, <1>7, RowsInside
  <2>2. r.at \in Nat /\ r.len \in Nat
    BY <2>1 DEF RowType
  <2> QED
    BY <1>2, <1>8, <1>9, <2>1, <2>2 DEF Positive
<1>11. o < base + T
  BY <1>2, <1>8 DEF Positive
<1> QED
  BY <1>3, <1>6, <1>10, <1>11

-----------------------------------------------------------------------------
(* The inductive invariant                                                 *)

CallType ==
    [at : {"idle", "announced", "allocated", "loaded"}, load : Nat,
     tex : Textures \cup {None}, base : 0 .. RingSize, size : Nat]

Typed ==
    /\ limits \in Limits
    /\ locked \in BOOLEAN
    /\ loads \in 0 .. MaxLoads
    /\ call \in [Threads -> CallType]
    /\ granted \in SUBSET [load : Nat, offset : Nat, size : Nat]
    /\ staged \in SUBSET [load : Nat, row : RowType]

\* Nothing is freed, so the ring never wraps, and it begins at whole rows.
RingGood ==
    /\ ring = [size |-> RingSize, begin |-> ring.begin, end |-> RingSize, rem |-> 0]
    /\ ring.begin \in Multiples(limits.row)
    /\ ring.begin <= RingSize

\* The range that a load was given.
Given(c) == [load |-> c.load, offset |-> c.base, size |-> c.size]

\* A call whose announced place is not where the ring begins finds no room.
Announced(c) ==
    /\ locked
    /\ c.base = ring.begin \/ ring.begin + c.size > RingSize
    /\ \A g \in granted : g.load # c.load

CallGood(c) ==
    /\ c.load <= loads
    /\ c.at # "idle" =>
          /\ c.tex \in Textures
          /\ c.load > 0
          /\ c.base \in Multiples(limits.row)
          /\ c.size = TotalBytes(c.tex, limits, c.base)
    /\ c.at = "announced" => Announced(c)
    /\ c.at \in {"allocated", "loaded"} => Given(c) \in granted
    /\ c.at \in {"announced", "allocated"} => \A s \in staged : s.load # c.load
    /\ c.at = "loaded" => RowsOf(c, NumSubresources(c.tex)) \subseteq staged

CallsApart ==
    \A t, u \in Threads : t # u /\ call[t].at # "idle" /\ call[u].at # "idle" =>
        /\ call[t].load # call[u].load
        /\ ~(call[t].at = "announced" /\ call[u].at = "announced")

GrantsGood ==
    /\ \A g \in granted : g.load \in 1 .. loads /\ g.offset + g.size <= ring.begin
    /\ \A g, h \in granted : g # h =>
          /\ g.load # h.load
          /\ g.offset + g.size <= h.offset \/ h.offset + h.size <= g.offset

\* The range g has the staged row s.
Covers(g, s) ==
    /\ g.load = s.load
    /\ g.offset <= s.row.at
    /\ s.row.at + s.row.len <= g.offset + g.size

StagedGood ==
    /\ \A s \in staged : \E g \in granted : Covers(g, s)
    /\ \A s, o \in staged : s # o => Disjoint(s.row, o.row)

\* A copy reads rows that are staged, from the places of its load's range.
CopyGood(c) ==
    /\ c.tex \in Textures
    /\ \E base \in Multiples(limits.row) :
          /\ [load |-> c.load, offset |-> base, size |-> TotalBytes(c.tex, limits, base)] \in granted
          /\ c.region \in Regions(c.tex, limits, base)
          /\ \A r \in Rows(c.tex, limits, base, c.region.sub) :
                [load |-> c.load, row |-> r] \in staged

IInv ==
    /\ Typed
    /\ RingGood
    /\ \A t \in Threads : CallGood(call[t])
    /\ CallsApart
    /\ GrantsGood
    /\ StagedGood
    /\ \A c \in copies : CopyGood(c)

(* The assumptions of TextureUpload by the names of this module.           *)
LEMMA Assumed ==
    /\ RingSize \in Positive /\ MaxLoads \in Nat
    /\ Textures \subseteq TextureType
    /\ Limits \subseteq Aligned
BY TextureUploadAssumption DEF Positive, TextureType, Aligned

LEMMA InitIInv == Init => IInv
<1> SUFFICES ASSUME Init
             PROVE  IInv
  OBVIOUS
<1>1. ring = [size |-> RingSize, begin |-> 0, end |-> RingSize, rem |-> 0]
  BY DEF Init, NewRing
<1>2. Typed
  <2>1. Idle \in CallType
    BY Assumed DEF Idle, CallType, Positive
  <2>2. call \in [Threads -> CallType]
    BY <2>1 DEF Init
  <2>3. loads \in 0 .. MaxLoads
    BY Assumed DEF Init
  <2>4. limits \in Limits /\ locked \in BOOLEAN /\ granted = {} /\ staged = {}
    BY DEF Init
  <2> QED
    BY <2>2, <2>3, <2>4 DEF Typed
<1>3. 0 \in Multiples(limits.row)
  <2>1. limits \in Aligned
    BY <1>2, Assumed DEF Typed
  <2>2. limits.row \in Nat /\ 0 * limits.row = 0
    BY <2>1 DEF Aligned, Positive
  <2> QED
    BY <2>2 DEF Multiples
<1>4. RingGood
  BY <1>1, <1>3, Assumed DEF RingGood, Positive
<1>5. ASSUME NEW t \in Threads
      PROVE  call[t].at = "idle" /\ call[t].load = 0
  BY DEF Init, Idle
<1>6. \A t \in Threads : CallGood(call[t])
  BY <1>5 DEF CallGood, Init
<1>7. CallsApart
  BY <1>5 DEF CallsApart
<1>8. GrantsGood /\ StagedGood /\ \A c \in copies : CopyGood(c)
  BY DEF Init, GrantsGood, StagedGood
<1> QED
  BY <1>2, <1>4, <1>6, <1>7, <1>8 DEF IInv

(* The fields of the alignments and of a call.                             *)
LEMMA Facts ==
    ASSUME IInv
    PROVE  /\ limits \in Aligned /\ limits.row \in Positive
           /\ ring.begin \in Nat /\ loads \in Nat
           /\ \A t \in Threads :
                 /\ call[t] \in CallType /\ CallGood(call[t])
                 /\ call[t].load \in Nat /\ call[t].size \in Nat
                 /\ call[t].base \in 0 .. RingSize
                 /\ call[t].at # "idle" => call[t].tex \in TextureType
           /\ \A g \in granted : g.load \in 1 .. loads /\ g.offset \in Nat /\ g.size \in Nat
           /\ \A s \in staged : s.row \in RowType /\ s.load \in 1 .. loads
<1>1. limits \in Aligned /\ limits.row \in Positive
  BY Assumed DEF IInv, Typed, Aligned
<1>2. ring.begin \in Nat /\ loads \in Nat
  BY Assumed DEF IInv, Typed, RingGood, Multiples
<1>3. ASSUME NEW t \in Threads
      PROVE  /\ call[t] \in CallType /\ CallGood(call[t])
             /\ call[t].load \in Nat /\ call[t].size \in Nat
             /\ call[t].base \in 0 .. RingSize
             /\ call[t].at # "idle" => call[t].tex \in TextureType
  <2>1. call[t] \in CallType /\ CallGood(call[t])
    BY DEF IInv, Typed
  <2>2. call[t].load \in Nat /\ call[t].size \in Nat /\ call[t].base \in 0 .. RingSize
    BY <2>1 DEF CallType
  <2>3. call[t].at # "idle" => call[t].tex \in TextureType
    BY <2>1, Assumed DEF CallGood
  <2> QED
    BY <2>1, <2>2, <2>3
<1>4. \A g \in granted : g.load \in 1 .. loads /\ g.offset \in Nat /\ g.size \in Nat
  BY DEF IInv, Typed, GrantsGood
<1>5. \A s \in staged : s.row \in RowType /\ s.load \in 1 .. loads
  <2>1. \A s \in staged : s.row \in RowType
    BY DEF IInv, Typed
  <2>2. \A s \in staged : s.load \in 1 .. loads
    BY <1>4 DEF IInv, StagedGood, Covers
  <2> QED
    BY <2>1, <2>2
<1> QED
  BY <1>1, <1>2, <1>3, <1>4, <1>5

(* The new load is the only one at its place, and where it is to lie is    *)
(* where the ring begins, unless the ring has no room for it.              *)
LEMMA AnnounceKeeps ==
    ASSUME IInv, NEW t \in Threads, NEW tex \in Textures, Announce(t, tex)
    PROVE  IInv'
<1> DEFINE begun == TotalBytes(tex, limits, ring.begin)
           base == IF ValidateOffset(ring, begun) THEN ring.begin ELSE 0
           size == TotalBytes(tex, limits, base)
<1>1. /\ call[t].at = "idle" /\ ~locked /\ loads < MaxLoads
      /\ loads' = loads + 1 /\ locked' = TRUE
      /\ call' = [call EXCEPT ![t] = [at |-> "announced", load |-> loads + 1, tex |-> tex,
                                      base |-> base, size |-> size]]
      /\ limits' = limits /\ ring' = ring /\ granted' = granted
      /\ staged' = staged /\ copies' = copies
  BY DEF Announce
<1>2. ring.begin \in Multiples(limits.row) /\ 0 \in Multiples(limits.row)
  <2>1. limits.row \in Nat /\ 0 * limits.row = 0
    BY Facts DEF Positive
  <2> QED
    BY <2>1 DEF IInv, RingGood, Multiples
<1>3. tex \in TextureType /\ limits \in Aligned
  BY Facts, Assumed
<1>4. PICK T \in Positive : /\ T = TotalBytes(tex, limits, ring.begin)
                            /\ T = TotalBytes(tex, limits, 0)
  <2>1. TotalBytes(tex, limits, 0) \in Positive
    BY <1>2, <1>3, TotalIs
  <2>2. TotalBytes(tex, limits, ring.begin) = TotalBytes(tex, limits, 0)
    BY <1>2, <1>3, TotalIs
  <2> QED
    BY <2>1, <2>2
<1>5. /\ base \in Multiples(limits.row) /\ base \in 0 .. RingSize
      /\ size = T
      /\ base = ring.begin \/ ring.begin + T > RingSize
  <2>1. CASE ValidateOffset(ring, T)
    <3>1. base = ring.begin
      BY <1>4, <2>1
    <3>2. ring.begin \in Nat /\ ring.begin <= RingSize /\ RingSize \in Nat
      BY Facts, Assumed DEF IInv, RingGood, Positive
    <3>3. size = T
      BY <1>4, <3>1
    <3> HIDE DEF base, begun, size
    <3>4. base \in 0 .. RingSize
      BY <3>1, <3>2
    <3> QED
      BY <1>2, <3>1, <3>3, <3>4
  <2>2. CASE ~ValidateOffset(ring, T)
    <3>1. base = 0
      BY <1>4, <2>2
    <3>2. ring.begin \in Nat /\ ring.size = RingSize /\ RingSize \in Nat
      BY Facts, Assumed DEF IInv, RingGood, Positive
    <3>3. ring.begin + T > RingSize
      BY <2>2, <3>2 DEF ValidateOffset, Positive
    <3> QED
      BY <1>2, <1>4, <3>1, <3>2, <3>3
  <2> QED
    BY <2>1, <2>2
<1> HIDE DEF base, begun, size
<1>6. PICK c \in CallType :
        /\ c = [at |-> "announced", load |-> loads + 1, tex |-> tex, base |-> base, size |-> size]
        /\ loads + 1 \in Nat /\ loads + 1 \in 0 .. MaxLoads
  <2> DEFINE d == [at |-> "announced", load |-> loads + 1, tex |-> tex, base |-> base, size |-> size]
  <2>1. loads \in Nat /\ MaxLoads \in Nat
    BY Facts, Assumed
  <2>2. size \in Nat
    BY <1>5 DEF Positive
  <2>3. d \in CallType
    BY <1>1, <1>5, <2>1, <2>2 DEF CallType
  <2>4. loads + 1 \in Nat /\ loads + 1 \in 0 .. MaxLoads
    BY <1>1, <2>1
  <2> QED
    BY <2>3, <2>4
<1>7. call'[t] = c /\ \A u \in Threads : u # t => call'[u] = call[u]
  BY <1>1, <1>6 DEF IInv, Typed
<1>8. Typed'
  <2>1. call' = [call EXCEPT ![t] = c]
    BY <1>1, <1>6
  <2> QED
    BY <1>1, <1>6, <2>1 DEF IInv, Typed
<1>9. RingGood'
  BY <1>1 DEF IInv, RingGood
<1>10. \A g \in granted : g.load # loads + 1
  BY Facts
<1>11. \A s \in staged : s.load # loads + 1
  BY Facts
<1>12. CallGood(c)'
  <2>1. /\ c.at = "announced" /\ c.load = loads + 1 /\ c.tex = tex
        /\ c.base = base /\ c.size = size
    BY <1>6
  <2>2. base \in Multiples(limits.row) /\ size = TotalBytes(tex, limits, base)
    BY <1>5 DEF size
  <2>3. loads + 1 > 0 /\ loads + 1 <= loads + 1
    BY Facts
  <2>4. base = ring.begin \/ ring.begin + size > RingSize
    BY <1>5
  <2>5. Announced(c)'
    BY <1>1, <1>10, <2>1, <2>4 DEF Announced
  <2>6. \A s \in staged' : s.load # c.load
    BY <1>1, <1>11, <2>1
  <2> QED
    BY <1>1, <2>1, <2>2, <2>3, <2>5, <2>6 DEF CallGood
<1>13. ASSUME NEW u \in Threads, u # t
       PROVE  CallGood(call[u])' /\ call[u].at # "announced" /\ call[u].load < loads + 1
  <2>1. CallGood(call[u]) /\ call[u].load \in Nat /\ loads \in Nat
    BY Facts
  <2>2. call[u].at # "announced"
    BY <1>1, <2>1 DEF CallGood, Announced
  <2>3. call[u].load <= loads
    BY <2>1 DEF CallGood
  <2>4. CallGood(call[u])'
    BY <1>1, <1>7, <1>13, <2>1, <2>2, <2>3 DEF CallGood, RowsOf, Range
  <2> QED
    BY <2>1, <2>2, <2>3, <2>4
<1>14. CallsApart'
  <2> SUFFICES ASSUME NEW u \in Threads, NEW v \in Threads, u # v,
                      call'[u].at # "idle", call'[v].at # "idle"
               PROVE  /\ call'[u].load # call'[v].load
                      /\ ~(call'[u].at = "announced" /\ call'[v].at = "announced")
    BY DEF CallsApart
  <2>1. c.at = "announced" /\ c.load = loads + 1
    BY <1>6
  <2>2. CASE u = t
    <3>1. call'[v] = call[v] /\ call[v].at # "announced" /\ call[v].load < loads + 1
          /\ call[v].load \in Nat /\ loads \in Nat
      BY <1>7, <1>13, <2>2, Facts
    <3> QED
      BY <1>7, <2>1, <2>2, <3>1
  <2>3. CASE v = t
    <3>1. call'[u] = call[u] /\ call[u].at # "announced" /\ call[u].load < loads + 1
          /\ call[u].load \in Nat /\ loads \in Nat
      BY <1>7, <1>13, <2>3, Facts
    <3> QED
      BY <1>7, <2>1, <2>3, <3>1
  <2>4. CASE u # t /\ v # t
    BY <1>7, <2>4 DEF IInv, CallsApart
  <2> QED
    BY <2>2, <2>3, <2>4
<1>15. GrantsGood'
  <2>1. \A g \in granted : g.load \in 1 .. loads + 1
    BY Facts
  <2> QED
    BY <1>1, <2>1 DEF IInv, GrantsGood
<1>16. StagedGood' /\ \A c_1 \in copies' : CopyGood(c_1)'
  BY <1>1 DEF IInv, StagedGood, Covers, CopyGood
<1>17. \A u \in Threads : CallGood(call[u])'
  <2> TAKE u \in Threads
  <2>1. CASE u = t
    BY <1>7, <1>12, <2>1
  <2>2. CASE u # t
    BY <1>13, <2>2
  <2> QED
    BY <2>1, <2>2
<1> QED
  BY <1>8, <1>9, <1>14, <1>15, <1>16, <1>17 DEF IInv

(* A call goes on to another place with what it knows.                     *)
LEMMA Moves ==
    ASSUME IInv, NEW t \in Threads, NEW w \in {"announced", "allocated", "loaded"},
           call' = [call EXCEPT ![t].at = w]
    PROVE  \E c \in CallType :
              /\ call'[t] = c
              /\ c.at = w /\ c.load = call[t].load /\ c.tex = call[t].tex
              /\ c.base = call[t].base /\ c.size = call[t].size
              /\ call' \in [Threads -> CallType]
              /\ \A u \in Threads : u # t => call'[u] = call[u]
<1>1. PICK b \in CallType : b = call[t]
  BY Facts
<1>2. PICK c \in CallType :
        /\ c = [b EXCEPT !.at = w]
        /\ c.at = w /\ c.load = b.load /\ c.tex = b.tex /\ c.base = b.base /\ c.size = b.size
  <2> DEFINE d == [b EXCEPT !.at = w]
  <2>1. d \in CallType
    BY DEF CallType
  <2>2. d.at = w /\ d.load = b.load /\ d.tex = b.tex /\ d.base = b.base /\ d.size = b.size
    BY DEF CallType
  <2> QED
    BY <2>1, <2>2
<1>3. call' = [call EXCEPT ![t] = c] /\ call \in [Threads -> CallType]
  <2>1. call \in [Threads -> CallType]
    BY DEF IInv, Typed
  <2>2. call' = [call EXCEPT ![t] = [call[t] EXCEPT !.at = w]]
    BY <2>1
  <2> QED
    BY <1>1, <1>2, <2>1, <2>2
<1>4. /\ call'[t] = c /\ call' \in [Threads -> CallType]
      /\ \A u \in Threads : u # t => call'[u] = call[u]
  BY <1>3
<1> QED
  BY <1>1, <1>2, <1>4

(* A thread that moves keeps its load, which is nobody else's.             *)
LEMMA MovesApart ==
    ASSUME IInv, NEW t \in Threads, call[t].at # "idle",
           call'[t].load = call[t].load, call'[t].at # "announced",
           \A u \in Threads : u # t => call'[u] = call[u]
    PROVE  CallsApart'
<1> SUFFICES ASSUME NEW u \in Threads, NEW v \in Threads, u # v,
                    call'[u].at # "idle", call'[v].at # "idle"
             PROVE  /\ call'[u].load # call'[v].load
                    /\ ~(call'[u].at = "announced" /\ call'[v].at = "announced")
  BY DEF CallsApart
<1>1. \A x, y \in Threads : x # y /\ call[x].at # "idle" /\ call[y].at # "idle" =>
          call[x].load # call[y].load /\ ~(call[x].at = "announced" /\ call[y].at = "announced")
  BY DEF IInv, CallsApart
<1>2. CASE u = t
  BY <1>1, <1>2
<1>3. CASE v = t
  BY <1>1, <1>3
<1>4. CASE u # t /\ v # t
  BY <1>1, <1>4
<1> QED
  BY <1>2, <1>3, <1>4

(* The ring gives the range where it was announced.                        *)
LEMMA GivenWhereAnnounced ==
    ASSUME IInv, NEW t \in Threads, call[t].at = "announced", CanAlloc(ring, call[t].size)
    PROVE  /\ call[t].base = ring.begin
           /\ ring.begin + call[t].size <= RingSize
           /\ OutOffset(ring, call[t].size) = ring.begin
           /\ AfterAlloc(ring, call[t].size)
                  = [size |-> RingSize, begin |-> ring.begin + call[t].size,
                     end |-> RingSize, rem |-> 0]
<1>1. PICK b \in Nat : b = ring.begin
  BY Facts
<1>2. PICK n \in Nat : n = call[t].size
  BY Facts
<1>3. PICK S \in Positive : S = RingSize
  BY Assumed
<1>4. ring = [size |-> S, begin |-> b, end |-> S, rem |-> 0]
  BY <1>1, <1>3 DEF IInv, RingGood
<1>5. ~Wraps(ring, n)
  BY <1>4 DEF Wraps, Positive
<1>6. b + n <= S
  BY <1>2, <1>4, <1>5 DEF CanAlloc, AllocatesAtBegin, Positive
<1>7. call[t].base = b
  <2>1. call[t].base = ring.begin \/ ring.begin + call[t].size > RingSize
    BY Facts DEF CallGood, Announced
  <2> QED
    BY <1>1, <1>2, <1>3, <1>6, <2>1 DEF Positive
<1>8. OutOffset(ring, n) = b
  BY <1>4, <1>5 DEF OutOffset
<1>9. AfterAlloc(ring, n) = [size |-> S, begin |-> b + n, end |-> S, rem |-> 0]
  <2>1. AfterAlloc(ring, n) = [ring EXCEPT !.begin = @ + n]
    BY <1>5 DEF AfterAlloc
  <2> QED
    BY <1>4, <2>1
<1> QED
  BY <1>1, <1>2, <1>3, <1>6, <1>7, <1>8, <1>9

LEMMA AllocateKeeps ==
    ASSUME IInv, NEW t \in Threads, Allocate(t)
    PROVE  IInv'
<1>1. PICK b \in Nat : b = ring.begin
  BY Facts
<1>2. PICK n \in Nat : n = call[t].size
  BY Facts
<1>3. PICK k \in Nat : k = call[t].load
  BY Facts
<1>4. /\ call[t].at = "announced" /\ CanAlloc(ring, n)
      /\ ring' = AfterAlloc(ring, n)
      /\ granted' = granted \cup {[load |-> k, offset |-> OutOffset(ring, n), size |-> n]}
      /\ locked' = FALSE /\ call' = [call EXCEPT ![t].at = "allocated"]
      /\ limits' = limits /\ loads' = loads /\ staged' = staged /\ copies' = copies
  BY <1>2, <1>3 DEF Allocate
<1>5. /\ call[t].base = b /\ b + n <= RingSize
      /\ OutOffset(ring, n) = b
      /\ ring' = [size |-> RingSize, begin |-> b + n, end |-> RingSize, rem |-> 0]
  BY <1>1, <1>2, <1>4, GivenWhereAnnounced
<1>6. PICK g : g = [load |-> k, offset |-> b, size |-> n]
  OBVIOUS
<1>7. granted' = granted \cup {g} /\ g.load = k /\ g.offset = b /\ g.size = n
  BY <1>4, <1>5, <1>6
<1>8. PICK c \in CallType :
        /\ call'[t] = c
        /\ c.at = "allocated" /\ c.load = k /\ c.tex = call[t].tex /\ c.base = b /\ c.size = n
        /\ call' \in [Threads -> CallType]
        /\ \A u \in Threads : u # t => call'[u] = call[u]
  <2>1. call' = [call EXCEPT ![t].at = "allocated"]
    BY <1>4
  <2>2. PICK c \in CallType :
          /\ call'[t] = c
          /\ c.at = "allocated" /\ c.load = call[t].load /\ c.tex = call[t].tex
          /\ c.base = call[t].base /\ c.size = call[t].size
          /\ call' \in [Threads -> CallType]
          /\ \A u \in Threads : u # t => call'[u] = call[u]
    BY <2>1, Moves
  <2> QED
    BY <1>2, <1>3, <1>5, <2>2
<1>9. /\ CallGood(call[t]) /\ k \in 1 .. loads
      /\ call[t].tex \in Textures /\ call[t].tex \in TextureType
      /\ b \in Multiples(limits.row) /\ n = TotalBytes(call[t].tex, limits, b)
      /\ \A h \in granted : h.load # k
      /\ \A s \in staged : s.load # k
  <2>1. CallGood(call[t])
    BY Facts
  <2>2. call[t].load > 0 /\ call[t].load <= loads /\ loads \in Nat
    BY <1>4, <2>1, Facts DEF CallGood
  <2>3. k \in 1 .. loads
    BY <1>3, <2>2
  <2> QED
    BY <1>2, <1>3, <1>4, <1>5, <2>1, <2>3, Facts DEF CallGood, Announced
<1>10. b + n \in Multiples(limits.row)
  BY <1>9, Facts, TotalIs, MultiplesSum
<1>11. ring'.begin = b + n
  BY <1>5
<1>12. Typed'
  <2>1. g \in [load : Nat, offset : Nat, size : Nat]
    BY <1>6
  <2> QED
    BY <1>4, <1>7, <1>8, <2>1 DEF IInv, Typed
<1>13. RingGood'
  BY <1>4, <1>5, <1>10, <1>11 DEF RingGood
<1>14. CallGood(c)'
  <2>1. Given(c) = g
    BY <1>6, <1>8 DEF Given
  <2>2. k > 0 /\ k <= loads
    BY <1>9, Facts
  <2> QED
    BY <1>4, <1>7, <1>8, <1>9, <2>1, <2>2 DEF CallGood
<1>15. ASSUME NEW u \in Threads, u # t
       PROVE  CallGood(call[u])'
  <2>1. CallGood(call[u]) /\ call[u].at # "announced"
    BY <1>4, <1>15, Facts DEF IInv, CallsApart
  <2> QED
    BY <1>4, <1>7, <1>8, <1>15, <2>1 DEF CallGood, Given, RowsOf
<1>16. \A u \in Threads : CallGood(call[u])'
  <2> TAKE u \in Threads
  <2>1. CASE u = t
    BY <1>8, <1>14, <2>1
  <2>2. CASE u # t
    BY <1>15, <2>2
  <2> QED
    BY <2>1, <2>2
<1>17. CallsApart'
  <2>1. call[t].at # "idle" /\ call'[t].load = call[t].load /\ call'[t].at # "announced"
    BY <1>3, <1>4, <1>8
  <2> QED
    BY <1>8, <2>1, MovesApart
<1>18. GrantsGood'
  <2>1. \A h \in granted : h.load \in 1 .. loads /\ h.offset \in Nat /\ h.size \in Nat
                           /\ h.offset + h.size <= b
    BY <1>1, Facts DEF IInv, GrantsGood
  <2>2. \A h \in granted : h.offset + h.size <= b + n
    BY <2>1
  <2>3. \A h \in granted' : h.load \in 1 .. loads /\ h.offset + h.size <= b + n
    BY <1>7, <1>9, <2>1, <2>2
  <2>4. \A f, h \in granted' : f # h =>
          f.load # h.load /\ (f.offset + f.size <= h.offset \/ h.offset + h.size <= f.offset)
    <3>1. \A f, h \in granted : f # h =>
            f.load # h.load /\ (f.offset + f.size <= h.offset \/ h.offset + h.size <= f.offset)
      BY DEF IInv, GrantsGood
    <3>2. \A h \in granted : h.load # g.load /\ h.offset + h.size <= g.offset
      BY <1>7, <1>9, <2>1
    <3> QED
      BY <1>7, <3>1, <3>2
  <2> QED
    BY <1>4, <1>11, <2>3, <2>4 DEF GrantsGood
<1>19. StagedGood' /\ \A e \in copies' : CopyGood(e)'
  BY <1>4, <1>7 DEF IInv, StagedGood, Covers, CopyGood
<1> QED
  BY <1>12, <1>13, <1>16, <1>17, <1>18, <1>19 DEF IInv

(* A call that ends leaves the others as they are.                         *)
LEMMA Ends ==
    ASSUME IInv, NEW t \in Threads, call' = [call EXCEPT ![t] = Idle], loads' = loads
    PROVE  /\ call' \in [Threads -> CallType]
           /\ CallGood(call[t])'
           /\ CallsApart'
           /\ \A u \in Threads : u # t => call'[u] = call[u]
<1>1. Idle \in CallType
  BY Assumed DEF Idle, CallType, Positive
<1>2. call \in [Threads -> CallType]
  BY DEF IInv, Typed
<1>3. /\ call' \in [Threads -> CallType] /\ call'[t] = Idle
      /\ \A u \in Threads : u # t => call'[u] = call[u]
  BY <1>1, <1>2
<1>4. call'[t].at = "idle" /\ call'[t].load = 0
  BY <1>3 DEF Idle
<1>5. CallGood(call[t])'
  BY <1>4, Facts DEF CallGood
<1>6. CallsApart'
  BY <1>3, <1>4 DEF IInv, CallsApart
<1> QED
  BY <1>3, <1>5, <1>6

LEMMA AllocateFailsKeeps ==
    ASSUME IInv, NEW t \in Threads, AllocateFails(t)
    PROVE  IInv'
<1>1. /\ call' = [call EXCEPT ![t] = Idle]
      /\ limits' = limits /\ ring' = ring /\ locked' = locked /\ loads' = loads
      /\ granted' = granted /\ staged' = staged /\ copies' = copies
  BY DEF AllocateFails
<1>2. /\ call' \in [Threads -> CallType] /\ CallGood(call[t])' /\ CallsApart'
      /\ \A u \in Threads : u # t => call'[u] = call[u]
  BY <1>1, Ends
<1>3. ASSUME NEW u \in Threads, u # t
      PROVE  CallGood(call[u])'
  BY <1>1, <1>2, <1>3, Facts DEF CallGood, Announced, Given, RowsOf
<1>4. \A u \in Threads : CallGood(call[u])'
  BY <1>2, <1>3
<1>5. Typed' /\ RingGood' /\ GrantsGood'
  BY <1>1, <1>2 DEF IInv, Typed, RingGood, GrantsGood
<1>6. StagedGood' /\ \A e \in copies' : CopyGood(e)'
  BY <1>1 DEF IInv, StagedGood, Covers, CopyGood
<1> QED
  BY <1>2, <1>4, <1>5, <1>6 DEF IInv

(* What a load stages lies in its range, and apart from all that is there. *)
LEMMA Stages ==
    ASSUME IInv, NEW t \in Threads, call[t].at = "allocated",
           NEW n \in 0 .. NumSubresources(call[t].tex)
    PROVE  /\ \A s \in RowsOf(call[t], n) :
                 /\ s \in [load : Nat, row : RowType]
                 /\ s.load = call[t].load
                 /\ Covers(Given(call[t]), s)
           /\ \A s \in RowsOf(call[t], n), o \in staged \cup RowsOf(call[t], n) :
                 s # o => Disjoint(s.row, o.row) /\ Disjoint(o.row, s.row)
<1>1. PICK c \in CallType : c = call[t]
  BY Facts
<1>2. /\ CallGood(c) /\ c.at = "allocated" /\ c.tex \in TextureType
      /\ c.load \in Nat /\ c.base \in Nat /\ limits \in Aligned
      /\ c.base \in Multiples(limits.row)
      /\ c.size = TotalBytes(c.tex, limits, c.base)
      /\ Given(c) \in granted
      /\ \A s \in staged : s.load # c.load
  <2>1. CallGood(c)
    BY <1>1, Facts
  <2>2. c.load \in Nat /\ c.base \in Nat
    BY DEF CallType
  <2> QED
    BY <1>1, <2>1, <2>2, Facts DEF CallGood
<1>3. PICK N \in Positive : N = NumSubresources(c.tex)
  BY <1>2, Counts
<1>4. ASSUME NEW s \in RowsOf(c, n)
      PROVE  \E i \in 0 .. N - 1 : \E r \in Rows(c.tex, limits, c.base, i) :
                s = [load |-> c.load, row |-> r]
  <2>1. PICK r \in UNION {Rows(c.tex, limits, c.base, i) : i \in 0 .. n - 1} :
          s = [load |-> c.load, row |-> r]
    BY DEF RowsOf
  <2>2. PICK i \in 0 .. n - 1 : r \in Rows(c.tex, limits, c.base, i)
    OBVIOUS
  <2>3. i \in 0 .. N - 1
    BY <1>1, <1>3 DEF Positive
  <2> QED
    BY <2>1, <2>2, <2>3
<1>5. ASSUME NEW s \in RowsOf(c, n)
      PROVE  /\ s \in [load : Nat, row : RowType]
             /\ s.load = c.load
             /\ Covers(Given(c), s)
  <2>1. PICK i \in 0 .. N - 1 : \E r \in Rows(c.tex, limits, c.base, i) :
                s = [load |-> c.load, row |-> r]
    BY <1>4
  <2>2. PICK r \in Rows(c.tex, limits, c.base, i) : s = [load |-> c.load, row |-> r]
    BY <2>1
  <2>3. r \in RowType
    BY <1>2, <1>3, RowsInside
  <2>4. c.base <= r.at /\ r.at + r.len <= c.base + c.size
    BY <1>2, <1>3, RowsInRange
  <2>5. s.load = c.load /\ s.row = r
    BY <2>2
  <2>6. Given(c).load = c.load /\ Given(c).offset = c.base /\ Given(c).size = c.size
    BY DEF Given
  <2>7. Covers(Given(c), s)
    BY <2>4, <2>5, <2>6 DEF Covers
  <2> QED
    BY <1>2, <2>2, <2>3, <2>5, <2>7
<1>6. ASSUME NEW s \in RowsOf(c, n), NEW o \in RowsOf(c, n), s # o
      PROVE  Disjoint(s.row, o.row) /\ Disjoint(o.row, s.row)
  <2>1. PICK i \in 0 .. N - 1 : \E r \in Rows(c.tex, limits, c.base, i) :
                s = [load |-> c.load, row |-> r]
    BY <1>4
  <2>2. PICK r \in Rows(c.tex, limits, c.base, i) : s = [load |-> c.load, row |-> r]
    BY <2>1
  <2>3. PICK j \in 0 .. N - 1 : \E q \in Rows(c.tex, limits, c.base, j) :
                o = [load |-> c.load, row |-> q]
    BY <1>4
  <2>4. PICK q \in Rows(c.tex, limits, c.base, j) : o = [load |-> c.load, row |-> q]
    BY <2>3
  <2>5. r # q /\ s.row = r /\ o.row = q
    BY <1>6, <2>2, <2>4
  <2>6. Disjoint(r, q) /\ Disjoint(q, r)
    BY <1>2, <1>3, <2>5, RowsApart
  <2> QED
    BY <2>5, <2>6
<1>7. ASSUME NEW s \in RowsOf(c, n), NEW o \in staged
      PROVE  Disjoint(s.row, o.row) /\ Disjoint(o.row, s.row)
  <2>1. PICK g \in granted : Covers(g, o)
    BY DEF IInv, StagedGood
  <2>2. PICK h \in granted : h = Given(c)
    BY <1>2
  <2>3. Covers(h, s) /\ h.load = c.load /\ g.load = o.load /\ o.load # c.load
    BY <1>2, <1>5, <2>1, <2>2 DEF Given, Covers
  <2>4. g.offset + g.size <= h.offset \/ h.offset + h.size <= g.offset
    BY <2>3 DEF IInv, GrantsGood
  <2>5. /\ g.offset \in Nat /\ g.size \in Nat /\ h.offset \in Nat /\ h.size \in Nat
        /\ o.row.at \in Nat /\ o.row.len \in Nat
    BY Facts DEF RowType
  <2>6. s.row.at \in Nat /\ s.row.len \in Nat
    BY <1>5 DEF RowType
  <2>7. /\ g.offset <= o.row.at /\ o.row.at + o.row.len <= g.offset + g.size
        /\ h.offset <= s.row.at /\ s.row.at + s.row.len <= h.offset + h.size
    BY <2>1, <2>3 DEF Covers
  <2> QED
    BY <2>4, <2>5, <2>6, <2>7 DEF Disjoint
<1> QED
  BY <1>1, <1>5, <1>6, <1>7

(* The rows staged by a load join those that are there.                    *)
LEMMA StagedKeeps ==
    ASSUME IInv, NEW t \in Threads, call[t].at = "allocated",
           NEW n \in 0 .. NumSubresources(call[t].tex),
           staged' = staged \cup RowsOf(call[t], n),
           limits' = limits, ring' = ring, locked' = locked, loads' = loads,
           granted' = granted, copies' = copies,
           \A u \in Threads : u # t => call'[u] = call[u]
    PROVE  /\ staged' \in SUBSET [load : Nat, row : RowType]
           /\ StagedGood'
           /\ \A u \in Threads : u # t => CallGood(call[u])'
           /\ \A e \in copies' : CopyGood(e)'
<1>1. PICK X : X = RowsOf(call[t], n)
  OBVIOUS
<1>2. staged' = staged \cup X
  BY <1>1
<1>3. \A s \in X : s \in [load : Nat, row : RowType] /\ s.load = call[t].load
                   /\ Covers(Given(call[t]), s)
  BY <1>1, Stages
<1>4. \A s \in X, o \in staged \cup X : s # o => Disjoint(s.row, o.row) /\ Disjoint(o.row, s.row)
  BY <1>1, Stages
<1>5. Given(call[t]) \in granted
  BY Facts DEF CallGood
<1>6. staged' \in SUBSET [load : Nat, row : RowType]
  BY <1>2, <1>3 DEF IInv, Typed
<1>7. StagedGood'
  <2>1. \A s \in staged' : \E g \in granted : Covers(g, s)
    BY <1>2, <1>3, <1>5 DEF IInv, StagedGood
  <2>2. \A s, o \in staged' : s # o => Disjoint(s.row, o.row)
    BY <1>2, <1>4 DEF IInv, StagedGood
  <2> QED
    BY <2>1, <2>2 DEF StagedGood, Covers
<1>8. ASSUME NEW u \in Threads, u # t
      PROVE  CallGood(call[u])'
  <2>1. CallGood(call[u]) /\ call'[u] = call[u]
    BY <1>8, Facts
  <2>2. call[u].at # "idle" => call[u].load # call[t].load
    BY <1>8 DEF IInv, CallsApart
  <2>3. call[u].at # "idle" => \A s \in X : s.load # call[u].load
    BY <1>3, <2>2
  <2> QED
    BY <1>2, <2>1, <2>3 DEF CallGood, Announced, Given, RowsOf
<1>9. \A e \in copies' : CopyGood(e)'
  BY <1>2 DEF IInv, CopyGood
<1> QED
  BY <1>6, <1>7, <1>8, <1>9

LEMMA LoadDataKeeps ==
    ASSUME IInv, NEW t \in Threads, LoadData(t)
    PROVE  IInv'
<1> DEFINE N == NumSubresources(call[t].tex)
<1>1. /\ call[t].at = "allocated"
      /\ call' = [call EXCEPT ![t].at = "loaded"]
      /\ staged' = staged \cup RowsOf(call[t], N)
      /\ limits' = limits /\ ring' = ring /\ locked' = locked /\ loads' = loads
      /\ granted' = granted /\ copies' = copies
  BY DEF LoadData
<1>2. N \in 0 .. N /\ CallGood(call[t])
  <2>1. call[t].tex \in TextureType
    BY <1>1, Facts
  <2>2. N \in Positive
    BY <2>1, Counts
  <2> QED
    BY <2>2, Facts DEF Positive
<1>3. PICK c \in CallType :
        /\ call'[t] = c
        /\ c.at = "loaded" /\ c.load = call[t].load /\ c.tex = call[t].tex
        /\ c.base = call[t].base /\ c.size = call[t].size
        /\ call' \in [Threads -> CallType]
        /\ \A u \in Threads : u # t => call'[u] = call[u]
  BY <1>1, Moves
<1>4. /\ staged' \in SUBSET [load : Nat, row : RowType]
      /\ StagedGood'
      /\ \A u \in Threads : u # t => CallGood(call[u])'
      /\ \A e \in copies' : CopyGood(e)'
  BY <1>1, <1>2, <1>3, StagedKeeps
<1>5. CallGood(c)'
  <2>1. RowsOf(c, NumSubresources(c.tex))' = RowsOf(call[t], N)
    BY <1>1, <1>3 DEF RowsOf
  <2>2. Given(c) = Given(call[t])
    BY <1>3 DEF Given
  <2> HIDE DEF N
  <2> QED
    BY <1>1, <1>2, <1>3, <2>1, <2>2 DEF CallGood
<1>6. \A u \in Threads : CallGood(call[u])'
  <2> TAKE u \in Threads
  <2>1. CASE u = t
    BY <1>3, <1>5, <2>1
  <2>2. CASE u # t
    BY <1>4, <2>2
  <2> QED
    BY <2>1, <2>2
<1>7. CallsApart'
  <2>1. call[t].at # "idle" /\ call'[t].load = call[t].load /\ call'[t].at # "announced"
    BY <1>1, <1>3
  <2> QED
    BY <1>3, <2>1, MovesApart
<1>8. Typed' /\ RingGood' /\ GrantsGood'
  BY <1>1, <1>3, <1>4 DEF IInv, Typed, RingGood, GrantsGood
<1> QED
  BY <1>4, <1>6, <1>7, <1>8 DEF IInv

LEMMA LoadDataFailsKeeps ==
    ASSUME IInv, NEW t \in Threads, LoadDataFails(t)
    PROVE  IInv'
<1>1. PICK n \in 0 .. NumSubresources(call[t].tex) - 1 : staged' = staged \cup RowsOf(call[t], n)
  BY DEF LoadDataFails
<1>2. /\ call[t].at = "allocated"
      /\ call' = [call EXCEPT ![t] = Idle]
      /\ limits' = limits /\ ring' = ring /\ locked' = locked /\ loads' = loads
      /\ granted' = granted /\ copies' = copies
  BY DEF LoadDataFails
<1>3. n \in 0 .. NumSubresources(call[t].tex)
  <2>1. call[t].tex \in TextureType
    BY <1>2, Facts
  <2>2. NumSubresources(call[t].tex) \in Positive
    BY <2>1, Counts
  <2> QED
    BY <2>2 DEF Positive
<1>4. /\ call' \in [Threads -> CallType] /\ CallGood(call[t])' /\ CallsApart'
      /\ \A u \in Threads : u # t => call'[u] = call[u]
  BY <1>2, Ends
<1>5. /\ staged' \in SUBSET [load : Nat, row : RowType]
      /\ StagedGood'
      /\ \A u \in Threads : u # t => CallGood(call[u])'
      /\ \A e \in copies' : CopyGood(e)'
  BY <1>1, <1>2, <1>3, <1>4, StagedKeeps
<1>6. \A u \in Threads : CallGood(call[u])'
  BY <1>4, <1>5
<1>7. Typed' /\ RingGood' /\ GrantsGood'
  BY <1>2, <1>4, <1>5 DEF IInv, Typed, RingGood, GrantsGood
<1> QED
  BY <1>4, <1>5, <1>6, <1>7 DEF IInv

LEMMA CopyKeeps ==
    ASSUME IInv, NEW t \in Threads, CopyBufferToImage(t)
    PROVE  IInv'
<1>1. PICK c \in CallType : c = call[t]
  BY Facts
<1>2. /\ c.at = "loaded"
      /\ copies' = copies \cup {[load |-> c.load, tex |-> c.tex, region |-> r] :
                                   r \in Regions(c.tex, limits, c.base)}
      /\ call' = [call EXCEPT ![t] = Idle]
      /\ limits' = limits /\ ring' = ring /\ locked' = locked /\ loads' = loads
      /\ granted' = granted /\ staged' = staged
  BY <1>1 DEF CopyBufferToImage
<1>3. /\ c.tex \in Textures /\ c.base \in Multiples(limits.row)
      /\ c.size = TotalBytes(c.tex, limits, c.base)
      /\ Given(c) \in granted
      /\ RowsOf(c, NumSubresources(c.tex)) \subseteq staged
  BY <1>1, <1>2, Facts DEF CallGood
<1>4. ASSUME NEW r \in Regions(c.tex, limits, c.base),
             NEW e, e = [load |-> c.load, tex |-> c.tex, region |-> r]
      PROVE  CopyGood(e)
  <2>1. e.load = c.load /\ e.tex = c.tex /\ e.region = r
    BY <1>4
  <2>2. PICK i \in 0 .. NumSubresources(c.tex) - 1 : r.sub = i
    BY DEF Regions
  <2>3. [load |-> e.load, offset |-> c.base, size |-> TotalBytes(e.tex, limits, c.base)] \in granted
    BY <1>3, <2>1 DEF Given
  <2>4. ASSUME NEW w \in Rows(c.tex, limits, c.base, i)
        PROVE  [load |-> c.load, row |-> w] \in staged
    <3>1. w \in UNION {Rows(c.tex, limits, c.base, j) : j \in 0 .. NumSubresources(c.tex) - 1}
      OBVIOUS
    <3> QED
      BY <1>3, <3>1 DEF RowsOf
  <2> QED
    BY <1>3, <2>1, <2>2, <2>3, <2>4 DEF CopyGood
<1>5. \A e \in copies' : CopyGood(e)
  BY <1>2, <1>4 DEF IInv
<1>6. \A e \in copies' : CopyGood(e)'
  BY <1>2, <1>5 DEF CopyGood
<1>7. /\ call' \in [Threads -> CallType] /\ CallGood(call[t])' /\ CallsApart'
      /\ \A u \in Threads : u # t => call'[u] = call[u]
  BY <1>2, Ends
<1>8. ASSUME NEW u \in Threads, u # t
      PROVE  CallGood(call[u])'
  BY <1>2, <1>7, <1>8, Facts DEF CallGood, Announced, Given, RowsOf
<1>9. \A u \in Threads : CallGood(call[u])'
  BY <1>7, <1>8
<1>10. Typed' /\ RingGood' /\ GrantsGood' /\ StagedGood'
  BY <1>2, <1>7 DEF IInv, Typed, RingGood, GrantsGood, StagedGood, Covers
<1> QED
  BY <1>6, <1>7, <1>9, <1>10 DEF IInv

LEMMA NextIInv == IInv /\ [Next]_vars => IInv'
<1> SUFFICES ASSUME IInv, [Next]_vars
             PROVE  IInv'
  OBVIOUS
<1>1. ASSUME NEW t \in Threads, NEW tex \in Textures, Announce(t, tex)
      PROVE  IInv'
  BY <1>1, AnnounceKeeps
<1>2. ASSUME NEW t \in Threads, Allocate(t)
      PROVE  IInv'
  BY <1>2, AllocateKeeps
<1>3. ASSUME NEW t \in Threads, AllocateFails(t)
      PROVE  IInv'
  BY <1>3, AllocateFailsKeeps
<1>4. ASSUME NEW t \in Threads, LoadData(t)
      PROVE  IInv'
  BY <1>4, LoadDataKeeps
<1>5. ASSUME NEW t \in Threads, LoadDataFails(t)
      PROVE  IInv'
  BY <1>5, LoadDataFailsKeeps
<1>6. ASSUME NEW t \in Threads, CopyBufferToImage(t)
      PROVE  IInv'
  BY <1>6, CopyKeeps
<1>7. CASE UNCHANGED vars
  BY <1>7 DEF vars, IInv, Typed, RingGood, CallGood, Announced, Given, RowsOf, CallsApart,
              GrantsGood, StagedGood, Covers, CopyGood
<1> QED
  BY <1>1, <1>2, <1>3, <1>4, <1>5, <1>6, <1>7 DEF Next

(* The invariant holds in every execution.                                 *)
THEOREM Inductive == Spec => []IInv
<1> QED
  BY InitIInv, NextIInv, PTL DEF Spec

-----------------------------------------------------------------------------
(* What the invariant says                                                 *)

LEMMA TypesHold == ASSUME IInv PROVE TypeOK
<1>1. PICK S \in Positive : S = RingSize
  BY Assumed
<1>2. ring \in [size : {RingSize}, begin : 0 .. RingSize, end : 0 .. 2 * RingSize, rem : 0 .. RingSize]
  <2>1. PICK b \in Nat : b = ring.begin /\ b <= S
    BY <1>1, Facts DEF IInv, RingGood
  <2>2. ring = [size |-> S, begin |-> b, end |-> S, rem |-> 0]
    BY <1>1, <2>1 DEF IInv, RingGood
  <2>3. b \in 0 .. S /\ S \in 0 .. 2 * S /\ 0 \in 0 .. S
    BY <2>1 DEF Positive
  <2> QED
    BY <1>1, <2>2, <2>3
<1>3. ASSUME NEW t \in Threads
      PROVE  /\ call[t].at \in {"idle", "announced", "allocated", "loaded"}
             /\ call[t].load \in 0 .. loads
             /\ call[t].tex \in Textures \cup {None}
             /\ call[t].base \in 0 .. RingSize
             /\ call[t].size \in Nat
  <2>1. /\ call[t] \in CallType /\ call[t].load \in Nat
        /\ call[t].load <= loads /\ loads \in Nat
    BY Facts DEF CallGood
  <2> QED
    BY <2>1 DEF CallType
<1>4. ASSUME NEW g \in granted
      PROVE  g.load \in 1 .. loads /\ g.offset \in Nat /\ g.size \in Nat
             /\ g.offset + g.size <= RingSize
  <2>1. g.load \in 1 .. loads /\ g.offset \in Nat /\ g.size \in Nat /\ ring.begin \in Nat
        /\ g.offset + g.size <= ring.begin /\ ring.begin <= S
    BY <1>1, Facts DEF IInv, GrantsGood, RingGood
  <2> QED
    BY <1>1, <2>1 DEF Positive
<1>5. ASSUME NEW s \in staged
      PROVE  s.load \in 1 .. loads /\ s.row.at + s.row.len <= RingSize
  <2>1. PICK g \in granted : Covers(g, s)
    BY DEF IInv, StagedGood
  <2>2. s.row.at \in Nat /\ s.row.len \in Nat /\ s.load \in 1 .. loads
    BY Facts DEF RowType
  <2>3. s.row.at + s.row.len <= g.offset + g.size
    BY <2>1 DEF Covers
  <2>4. g.offset \in Nat /\ g.size \in Nat /\ g.offset + g.size <= S
    BY <1>1, <1>4
  <2> QED
    BY <1>1, <2>2, <2>3, <2>4 DEF Positive
<1>6. ASSUME NEW c \in copies
      PROVE  c.load \in 1 .. loads /\ c.region.offset < RingSize
  <2>1. CopyGood(c) /\ limits \in Aligned
    BY Facts DEF IInv
  <2>2. PICK base \in Multiples(limits.row) :
          /\ [load |-> c.load, offset |-> base, size |-> TotalBytes(c.tex, limits, base)] \in granted
          /\ c.region \in Regions(c.tex, limits, base)
    BY <2>1 DEF CopyGood
  <2>3. c.tex \in TextureType /\ base \in Nat
    BY <2>1, Assumed DEF CopyGood, Multiples
  <2>4. PICK T \in Positive : T = TotalBytes(c.tex, limits, base)
    BY <2>1, <2>3, TotalIs
  <2>5. c.load \in 1 .. loads /\ base + T <= S
    BY <1>1, <1>4, <2>2, <2>4
  <2>6. PICK i \in 0 .. NumSubresources(c.tex) - 1 :
          c.region.offset = StagingOffset(c.tex, limits, base, i)
    BY <2>2 DEF Regions
  <2>7. PICK o \in Nat : o = StagingOffset(c.tex, limits, base, i)
    <3>1. i \in 0 .. NumSubresources(c.tex)
      BY <2>3, Counts DEF Positive
    <3> QED
      BY <2>1, <2>3, <3>1, StagingSteps
  <2>8. o < base + T
    BY <2>1, <2>3, <2>4, <2>7, RowsInRange
  <2>9. c.region.offset < S
    BY <2>3, <2>5, <2>6, <2>7, <2>8 DEF Positive
  <2> QED
    BY <1>1, <2>5, <2>9
<1> QED
  BY <1>2, <1>3, <1>4, <1>5, <1>6 DEF TypeOK, IInv, Typed

(* A row is where a load announced it, in the range that the ring gave     *)
(* that load: for any sizes, also of a ring that runs full, if one of the  *)
(* two alignments divides the other.                                       *)
LEMMA PlacesHold == ASSUME IInv PROVE StagedWhereAnnounced
<1>1. ASSUME NEW t \in Threads, call[t].at \in {"allocated", "loaded"}
      PROVE  \E g \in granted : g.load = call[t].load /\ g.offset = call[t].base
  <2>1. Given(call[t]) \in granted
    BY <1>1, Facts DEF CallGood
  <2>2. Given(call[t]).load = call[t].load /\ Given(call[t]).offset = call[t].base
    BY DEF Given
  <2> QED
    BY <2>1, <2>2
<1>2. \A s \in staged : \E g \in granted :
          /\ g.load = s.load
          /\ g.offset <= s.row.at
          /\ s.row.at + s.row.len <= g.offset + g.size
  BY DEF IInv, StagedGood, Covers
<1> QED
  BY <1>1, <1>2, TypesHold DEF StagedWhereAnnounced

(* StagedWhereAnnounced for any textures, alignments and size of the ring: *)
(* read_input_stream's assert that alloc returns the offset the footprints *)
(* were computed for, and that a load writes only in its own range.        *)
THEOREM PlacesRight == Spec => []StagedWhereAnnounced
<1> QED
  BY Inductive, PlacesHold, PTL

-----------------------------------------------------------------------------
(* What the device reads                                                   *)

\* The bytes of a block and the alignment of rows divide one another; they do
\* not for formats of 3, 6 and 12 bytes on a device that aligns rows to 4.
BlocksMeetRows ==
    \A tex \in Textures, l \in Limits : \A k \in 1 .. Len(tex.bytes) :
        tex.bytes[k] % l.row = 0 \/ l.row % tex.bytes[k] = 0

(* The row pitch is then whole blocks, so the pitch in texels is exact.    *)
LEMMA PitchInBlocks ==
    ASSUME BlocksMeetRows, NEW tex \in Textures, NEW l \in Limits,
           NEW i \in 0 .. NumSubresources(tex) - 1
    PROVE  RowPitch(tex, l, i) \in Multiples(BlockBytes(tex, i))
<1>1. tex \in TextureType /\ l \in Aligned
  BY Assumed
<1>2. PICK b \in Positive : b = BlockBytes(tex, i) /\ (b % l.row = 0 \/ l.row % b = 0)
  <2>1. PICK k \in 1 .. Len(tex.bytes) : k = i \div (tex.mips * tex.layers) + 1
    BY <1>1, BlockBytesIs
  <2>2. BlockBytes(tex, i) = tex.bytes[k] /\ BlockBytes(tex, i) \in Positive
    BY <1>1, <2>1, BlockBytesIs DEF BlockBytes
  <2> QED
    BY <2>2 DEF BlocksMeetRows
<1>3. l.row \in Positive
  BY <1>1 DEF Aligned
<1>4. PICK w \in Nat : RowSize(tex, i) = w * b /\ w * b \in Nat
  <2>1. RowSize(tex, i) = BlocksWide(tex, i) * b
    BY <1>2 DEF RowSize
  <2>2. BlocksWide(tex, i) \in Positive
    <3>1. Width(tex, i) \in Positive /\ tex.bw \in Positive
      <4>1. tex.w \in Positive /\ tex.mips \in Positive /\ tex.bw \in Positive
        BY <1>1 DEF TextureType
      <4>2. MipLevel(tex, i) \in Nat
        <5>1. i \in Int
          BY <1>1, Counts DEF Positive
        <5>2. i % tex.mips \in 0 .. tex.mips - 1
          BY <4>1, <5>1, DivMod
        <5> QED
          BY <4>1, <5>2 DEF MipLevel, Positive
      <4> QED
        BY <4>1, <4>2, AtMipIs DEF Width
    <3> QED
      BY <3>1, CeilPositive DEF BlocksWide
  <2> QED
    BY <2>1, <2>2 DEF Positive
<1>5. w * b \in Multiples(b)
  BY <1>4 DEF Multiples
<1>6. RowPitch(tex, l, i) = RoundUp(w * b, l.row)
  BY <1>4 DEF RowPitch
<1>7. /\ RoundUp(w * b, l.row) \in Multiples(l.row)
      /\ w * b \in Multiples(l.row) => RoundUp(w * b, l.row) = w * b
  BY <1>3, <1>4, RoundUpIs
<1>8. CASE b % l.row = 0
  <2>1. b \in Multiples(l.row)
    BY <1>3, <1>8, RemainderZero DEF Positive
  <2>2. w * b \in Multiples(l.row)
    BY <1>3, <1>5, <2>1, MultiplesNest
  <2> QED
    BY <1>2, <1>5, <1>6, <1>7, <2>2
<1>9. CASE l.row % b = 0
  <2>1. l.row \in Multiples(b)
    BY <1>3, <1>9, RemainderZero DEF Positive
  <2>2. RoundUp(w * b, l.row) \in Multiples(b)
    BY <1>7, <2>1, MultiplesNest
  <2> QED
    BY <1>2, <1>6, <2>2
<1> QED
  BY <1>2, <1>8, <1>9

(* A multiple divided by its factor.                                       *)
LEMMA DivideMultiple ==
    ASSUME NEW c \in Positive, NEW k \in Nat
    PROVE  (k * c) \div c = k
<1>1. k * c \in Nat /\ k * c \in Multiples(c)
  <2>1. k * c \in Nat
    BY DEF Positive
  <2> QED
    BY <2>1 DEF Multiples
<1>2. (k * c) % c = 0
  BY <1>1, RemainderZero
<1>3. PICK q \in Int : q = (k * c) \div c /\ k * c = c * q
  <2>1. (k * c) \div c \in Int /\ k * c = c * ((k * c) \div c) + ((k * c) % c)
    BY <1>1, DivMod
  <2>2. PICK q \in Int : q = (k * c) \div c /\ k * c = c * q + 0
    BY <1>2, <2>1
  <2> QED
    BY <2>2 DEF Positive
<1>4. PICK d \in Int : d = q - k /\ c * d = 0
  <2>1. q - k \in Int /\ c * (q - k) = 0
    BY <1>3 DEF Positive
  <2> QED
    BY <2>1
<1>5. d = 0
  <2>1. ~(d > 0)
    <3> SUFFICES ASSUME d > 0
                 PROVE  FALSE
      OBVIOUS
    <3>1. d \in Nat /\ c \in Nat /\ c # 0
      BY DEF Positive
    <3> QED
      BY <1>4, <3>1, Products
  <2>2. ~(d < 0)
    <3> SUFFICES ASSUME d < 0
                 PROVE  FALSE
      OBVIOUS
    <3>1. PICK e \in Nat : e = -d /\ e # 0
      BY <1>4
    <3>2. c * e = 0
      BY <1>4, <3>1 DEF Positive
    <3>3. c \in Nat /\ c # 0
      BY DEF Positive
    <3> QED
      BY <3>1, <3>2, <3>3, Products
  <2> QED
    BY <1>4, <2>1, <2>2
<1> QED
  BY <1>3, <1>4, <1>5

(* Vulkan's address of a row, with pitches in texels, is the loader's.     *)
LEMMA AddressIsRow ==
    ASSUME BlocksMeetRows, NEW l \in Limits, NEW base \in Nat, NEW c,
           c.tex \in Textures, c.region \in Regions(c.tex, l, base),
           NEW z \in 0 .. Depth(c.tex, c.region.sub) - 1,
           NEW y \in 0 .. NumRows(c.tex, c.region.sub) - 1
    PROVE  /\ c.region.sub \in 0 .. NumSubresources(c.tex) - 1
           /\ DeviceAddress(c, y, z)
                = StagingOffset(c.tex, l, base, c.region.sub)
                    + SlicePitch(c.tex, l, c.region.sub) * z + RowPitch(c.tex, l, c.region.sub) * y
<1>1. PICK i \in 0 .. NumSubresources(c.tex) - 1 :
        c.region = [sub |-> i, offset |-> StagingOffset(c.tex, l, base, i),
                    rowLength |-> BufferRowLength(c.tex, l, i),
                    imageHeight |-> BufferImageHeight(c.tex, i)]
  BY DEF Regions
<1>2. /\ c.region.sub = i /\ c.region.offset = StagingOffset(c.tex, l, base, i)
      /\ c.region.rowLength = BufferRowLength(c.tex, l, i)
      /\ c.region.imageHeight = BufferImageHeight(c.tex, i)
  BY <1>1
<1>3. c.tex \in TextureType /\ l \in Aligned
  BY Assumed
<1>4. PICK b \in Positive : b = BlockBytes(c.tex, i)
  BY <1>3, BlockBytesIs
<1>5. PICK k \in Nat : RowPitch(c.tex, l, i) = k * b
  BY <1>4, PitchInBlocks DEF Multiples
<1>6. PICK n \in Positive : n = NumRows(c.tex, i)
  BY <1>3, Geometry
<1>7. PICK bw \in Positive : bw = c.tex.bw
  BY <1>3 DEF TextureType
<1>8. PICK bh \in Positive : bh = c.tex.bh
  BY <1>3 DEF TextureType
<1>9. c.region.rowLength \div c.tex.bw = k
  <2>1. (k * b) \div b = k
    BY DivideMultiple
  <2>2. c.region.rowLength = k * bw
    BY <1>2, <1>4, <1>5, <1>7, <2>1 DEF BufferRowLength
  <2>3. (k * bw) \div bw = k
    BY DivideMultiple
  <2> QED
    BY <1>7, <2>2, <2>3
<1>10. c.region.imageHeight \div c.tex.bh = n
  <2>1. c.region.imageHeight = n * bh
    BY <1>2, <1>6, <1>8 DEF BufferImageHeight
  <2>2. n \in Nat
    BY DEF Positive
  <2>3. (n * bh) \div bh = n
    BY <2>2, DivideMultiple
  <2> QED
    BY <1>8, <2>1, <2>3
<1>11. PICK o \in Nat : o = StagingOffset(c.tex, l, base, i)
  <2>1. i \in 0 .. NumSubresources(c.tex)
    BY <1>3, Counts DEF Positive
  <2> QED
    BY <1>3, <2>1, StagingSteps
<1>12. DeviceAddress(c, y, z) = o + (z * n + y) * k * b
  BY <1>2, <1>4, <1>9, <1>10, <1>11 DEF DeviceAddress
<1>13. z \in Nat /\ y \in Nat
  <2>1. Depth(c.tex, i) \in Positive
    BY <1>3, Geometry
  <2> QED
    BY <1>2, <1>6, <2>1 DEF Positive
<1>14. (z * n + y) * k * b = k * b * n * z + k * b * y
  <2>1. b \in Nat /\ n \in Nat
    BY DEF Positive
  <2> QED
    BY ONLY <1>13, <2>1, k \in Nat
<1>15. SlicePitch(c.tex, l, i) = k * b * n
  BY <1>5, <1>6 DEF SlicePitch
<1>16. k * b * n * z \in Nat /\ k * b * y \in Nat
  BY <1>13 DEF Positive
<1>17. DeviceAddress(c, y, z) = o + k * b * n * z + k * b * y
  BY <1>12, <1>14, <1>16
<1> QED
  BY <1>2, <1>5, <1>11, <1>15, <1>17

LEMMA ReadsHold == ASSUME BlocksMeetRows, IInv PROVE DeviceReadsWhatWasWritten
<1> SUFFICES ASSUME NEW c \in copies,
                    NEW z \in 0 .. Depth(c.tex, c.region.sub) - 1,
                    NEW y \in 0 .. NumRows(c.tex, c.region.sub) - 1
             PROVE  \E s \in staged :
                       /\ s.load = c.load
                       /\ s.row.sub = c.region.sub /\ s.row.z = z /\ s.row.y = y
                       /\ s.row.at = DeviceAddress(c, y, z)
                       /\ s.row.len = BlocksWide(c.tex, c.region.sub) * BlockBytes(c.tex, c.region.sub)
                       /\ \A other \in staged \ {s} : Disjoint(s.row, other.row)
  BY DEF DeviceReadsWhatWasWritten
<1>1. PICK i : i = c.region.sub
  OBVIOUS
<1>2. CopyGood(c) /\ limits \in Limits
  BY DEF IInv, Typed
<1>3. PICK base \in Multiples(limits.row) :
        /\ c.region \in Regions(c.tex, limits, base)
        /\ \A r \in Rows(c.tex, limits, base, i) : [load |-> c.load, row |-> r] \in staged
  BY <1>1, <1>2 DEF CopyGood
<1>4. c.tex \in Textures /\ base \in Nat
  BY <1>2 DEF CopyGood, Multiples
<1>5. PICK at : at = DeviceAddress(c, y, z)
  OBVIOUS
<1>6. at = StagingOffset(c.tex, limits, base, i) + SlicePitch(c.tex, limits, i) * z
             + RowPitch(c.tex, limits, i) * y
  BY <1>1, <1>2, <1>3, <1>4, <1>5, AddressIsRow
<1>7. PICK r : r = [sub |-> i, z |-> z, y |-> y, len |-> RowSize(c.tex, i), at |-> at]
  OBVIOUS
<1>8. r \in Rows(c.tex, limits, base, i)
  BY <1>1, <1>6, <1>7 DEF Rows
<1>9. PICK s \in staged : s = [load |-> c.load, row |-> r]
  BY <1>3, <1>8
<1>10. /\ s.load = c.load /\ s.row = r
       /\ r.sub = i /\ r.z = z /\ r.y = y /\ r.at = at
       /\ r.len = BlocksWide(c.tex, i) * BlockBytes(c.tex, i)
  BY <1>7, <1>9 DEF RowSize
<1>11. \A other \in staged \ {s} : Disjoint(s.row, other.row)
  BY DEF IInv, StagedGood
<1> QED
  BY <1>1, <1>5, <1>10, <1>11

(* DeviceReadsWhatWasWritten for textures of any dimensions, mip levels    *)
(* and layers whose blocks meet the alignment of rows: each copy finds     *)
(* every row it reads where the loader wrote it, and no load writes there  *)
(* again.                                                                  *)
THEOREM DeviceReadsRight == BlocksMeetRows => (Spec => []DeviceReadsWhatWasWritten)
<1> SUFFICES ASSUME BlocksMeetRows
             PROVE  Spec => []DeviceReadsWhatWasWritten
  OBVIOUS
<1>1. IInv => DeviceReadsWhatWasWritten
  BY ReadsHold
<1> QED
  BY <1>1, Inductive, PTL

=============================================================================
