------------------------- MODULE PoolAllocatorProofs -------------------------
(***************************************************************************)
(* Proofs about PoolAllocator, for a heap of any size and any number of    *)
(* block sizes.                                                            *)
(***************************************************************************)
EXTENDS PoolAllocator, PageListProofs

-----------------------------------------------------------------------------
(***************************************************************************)
(* Block sizes.                                                            *)
(***************************************************************************)

\* The first n + 1 powers of two.
Doubles(g, n) ==
  g \in [0 .. n -> Nat] /\ g[0] = 1 /\ \A k \in 0 .. (n - 1) : g[k + 1] = 2 * g[k]

\* A table of powers of two can be extended.
LEMMA DoublesExtend ==
  ASSUME NEW n \in Nat, NEW g, Doubles(g, n)
  PROVE  \E h : Doubles(h, n + 1)
  <1> DEFINE h == [k \in 0 .. (n + 1) |-> IF k = n + 1 THEN 2 * g[n] ELSE g[k]]
  <1>1. \A k \in 0 .. n : g[k] \in Nat
    BY DEF Doubles
  <1>2. n \in 0 .. n
    OBVIOUS
  <1>3. ASSUME NEW k \in 0 .. (n + 1)
        PROVE  h[k] \in Nat /\ (k # n + 1 => k \in 0 .. n /\ h[k] = g[k])
    <2>1. h[k] = IF k = n + 1 THEN 2 * g[n] ELSE g[k]
      OBVIOUS
    <2>2. k # n + 1 => k \in 0 .. n
      OBVIOUS
    <2> HIDE DEF h
    <2> QED
      BY <1>1, <1>2, <2>1, <2>2
  <1>4. h[n + 1] = 2 * g[n]
    BY DEF h
  <1>5. h \in [0 .. (n + 1) -> Nat]
    BY <1>3
  <1> HIDE DEF h
  <1>6. h[0] = 1
    BY <1>3 DEF Doubles
  <1>7. ASSUME NEW k \in 0 .. n PROVE h[k + 1] = 2 * h[k]
    <2>1. h[k] = g[k] /\ k \in 0 .. (n + 1) /\ k # n + 1
      BY <1>3
    <2>2. CASE k = n
      BY <1>4, <2>1, <2>2
    <2>3. CASE k # n
      <3>1. k \in 0 .. (n - 1) /\ k + 1 \in 0 .. (n + 1) /\ k + 1 # n + 1
        BY <2>3
      <3>2. g[k + 1] = 2 * g[k] /\ h[k + 1] = g[k + 1]
        BY <1>3, <3>1 DEF Doubles
      <3> QED
        BY <2>1, <3>2
    <2> QED
      BY <2>2, <2>3
  <1>8. (n + 1) - 1 = n
    OBVIOUS
  <1> QED
    BY <1>5, <1>6, <1>7, <1>8 DEF Doubles

\* So there are tables of every length.
LEMMA DoublesExist == \A n \in Nat : \E g : Doubles(g, n)
  <1> DEFINE S == {n \in Nat : ~ \E g : Doubles(g, n)}
  <1>1. SUFFICES S = {}
    OBVIOUS
  <1>2. SUFFICES ASSUME S # {} PROVE FALSE
    OBVIOUS
  <1>3. PICK n \in S : \A m \in S : n <= m
    <2>1. S \in SUBSET Nat
      OBVIOUS
    <2> HIDE DEF S
    <2> QED
      BY <1>2, <2>1, LeastExists
  <1>4. n # 0
    <2> DEFINE g == [k \in 0 .. 0 |-> 1]
    <2>1. g \in [0 .. 0 -> Nat] /\ g[0] = 1
      OBVIOUS
    <2>2. 0 .. (0 - 1) = {}
      OBVIOUS
    <2> HIDE DEF g
    <2>3. Doubles(g, 0)
      BY <2>1, <2>2 DEF Doubles
    <2> QED
      BY <2>3
  <1>5. n \in Nat /\ n - 1 \in Nat /\ (n - 1) + 1 = n /\ ~(n <= n - 1)
    BY <1>4
  <1>6. n - 1 \notin S
    BY <1>3, <1>5
  <1>7. PICK g : Doubles(g, n - 1)
    BY <1>5, <1>6
  <1>8. \E h : Doubles(h, (n - 1) + 1)
    BY <1>5, <1>7, DoublesExtend
  <1> QED
    BY <1>3, <1>5, <1>8

\* The recursive function is such a table.
LEMMA ShiftLeftDoubles == Doubles(ShiftLeft, MAX_POOL_INDEX)
  <1> DEFINE M == MAX_POOL_INDEX
             Step(f) == [k \in 0 .. M |-> IF k = 0 THEN 1 ELSE 2 * f[k - 1]]
  <1>1. M \in Nat
    BY PoolAssumption
  <1>2. PICK g : Doubles(g, M)
    BY <1>1, DoublesExist
  <1> HIDE DEF M
  <1>3. g = Step(g)
    <2>1. ASSUME NEW k \in 0 .. M
          PROVE  g[k] = IF k = 0 THEN 1 ELSE 2 * g[k - 1]
      <3>1. CASE k = 0
        BY <1>2, <3>1 DEF Doubles
      <3>2. CASE k # 0
        <4>1. k - 1 \in 0 .. (M - 1) /\ (k - 1) + 1 = k
          BY <1>1, <3>2
        <4> QED
          BY <1>2, <3>2, <4>1 DEF Doubles
      <3> QED
        BY <3>1, <3>2
    <2>2. g = [k \in 0 .. M |-> g[k]]
      BY <1>2 DEF Doubles
    <2> QED
      BY <2>1, <2>2
  <1>4. ShiftLeft = Step(ShiftLeft)
    <2>1. ShiftLeft = CHOOSE f : f = Step(f)
      BY DEF ShiftLeft, M
    <2> HIDE DEF Step
    <2> QED
      BY <1>3, <2>1
  <1> DEFINE S == {k \in 0 .. M : ShiftLeft[k] # g[k]}
  <1>5. S = {}
    <2> SUFFICES ASSUME S # {} PROVE FALSE
      OBVIOUS
    <2>1. S \in SUBSET Nat
      BY <1>1
    <2>2. PICK k \in S : \A j \in S : k <= j
      <3> HIDE DEF S
      <3> QED
        BY <2>1, LeastExists
    <2>3. k \in 0 .. M /\ ShiftLeft[k] # g[k]
      OBVIOUS
    <2>4. /\ ShiftLeft[k] = IF k = 0 THEN 1 ELSE 2 * ShiftLeft[k - 1]
          /\ g[k] = IF k = 0 THEN 1 ELSE 2 * g[k - 1]
      BY <1>3, <1>4, <2>3
    <2>5. k # 0
      BY <2>3, <2>4
    <2>6. k - 1 \in 0 .. M /\ ~(k <= k - 1)
      BY <1>1, <2>3, <2>5
    <2>7. ShiftLeft[k - 1] = g[k - 1]
      BY <2>2, <2>6
    <2> QED
      BY <2>3, <2>4, <2>5, <2>7
  <1>6. ShiftLeft = g
    <2>1. g = [k \in 0 .. M |-> g[k]] /\ ShiftLeft = [k \in 0 .. M |-> ShiftLeft[k]]
      BY <1>3, <1>4
    <2> QED
      BY <1>5, <2>1
  <1> QED
    BY <1>2, <1>6 DEF M

\* The sizes of the lists: the smallest block is one unit, every other one two of the
\* next smaller ones, and the last is a page.
LEMMA UnitsDouble ==
  /\ MAX_POOL_INDEX \in Nat \ {0}
  /\ \A k \in 0 .. MAX_POOL_INDEX : PoolUnits[k] \in Nat
  /\ PoolUnits[0] = 1
  /\ \A k \in PoolIndices : k + 1 \in 0 .. MAX_POOL_INDEX /\ k \in 0 .. MAX_POOL_INDEX
                            /\ k \in Nat /\ PoolUnits[k + 1] = 2 * PoolUnits[k]
  /\ PAGE_UNITS = PoolUnits[MAX_POOL_INDEX] /\ MAX_POOL_SIZE = PoolUnits[MAX_POOL_INDEX - 1]
  <1>1. MAX_POOL_INDEX \in Nat \ {0}
    BY PoolAssumption
  <1>2. \A k \in 0 .. MAX_POOL_INDEX : PoolUnits[k] = ShiftLeft[k]
    BY DEF PoolUnits
  <1>3. \A k \in 0 .. MAX_POOL_INDEX : PoolUnits[k] \in Nat
    BY <1>2, ShiftLeftDoubles DEF Doubles
  <1>4. PoolUnits[0] = 1
    BY <1>1, <1>2, ShiftLeftDoubles DEF Doubles
  <1>5. ASSUME NEW k \in PoolIndices
        PROVE  /\ k + 1 \in 0 .. MAX_POOL_INDEX /\ k \in 0 .. MAX_POOL_INDEX /\ k \in Nat
               /\ PoolUnits[k + 1] = 2 * PoolUnits[k]
    <2>1. /\ k + 1 \in 0 .. MAX_POOL_INDEX /\ k \in 0 .. MAX_POOL_INDEX /\ k \in Nat
          /\ k \in 0 .. (MAX_POOL_INDEX - 1)
      BY <1>1 DEF PoolIndices
    <2> QED
      BY <1>2, <2>1, ShiftLeftDoubles DEF Doubles
  <1> QED
    BY <1>1, <1>3, <1>4, <1>5 DEF PAGE_UNITS, MAX_POOL_SIZE

\* A block is a whole number of blocks of every smaller size, at least two of them.
LEMMA UnitsGrow ==
  ASSUME NEW j \in 0 .. MAX_POOL_INDEX, NEW k \in 0 .. MAX_POOL_INDEX, j <= k
  PROVE  /\ PoolUnits[j] \in Nat /\ PoolUnits[k] \in Nat
         /\ PoolUnits[j] > 0
         /\ \E q \in Nat : PoolUnits[k] = q * PoolUnits[j]
         /\ j < k => 2 * PoolUnits[j] <= PoolUnits[k]
  <1> DEFINE M == MAX_POOL_INDEX
             Good(n) == /\ PoolUnits[j] > 0
                        /\ \E q \in Nat : PoolUnits[n] = q * PoolUnits[j]
                        /\ j < n => 2 * PoolUnits[j] <= PoolUnits[n]
                        /\ PoolUnits[n] > 0
             S == {n \in 0 .. M : j <= n /\ ~Good(n)}
  <1>1. M \in Nat /\ \A n \in 0 .. M : PoolUnits[n] \in Nat
    BY UnitsDouble
  <1>2. \A n \in 0 .. M : n # 0 =>
          n - 1 \in 0 .. M /\ PoolUnits[n] = 2 * PoolUnits[n - 1]
    <2> SUFFICES ASSUME NEW n \in 0 .. M, n # 0
                 PROVE  n - 1 \in 0 .. M /\ PoolUnits[n] = 2 * PoolUnits[n - 1]
      OBVIOUS
    <2>1. n - 1 \in PoolIndices /\ (n - 1) + 1 = n
      BY <1>1 DEF PoolIndices
    <2> QED
      BY <2>1, UnitsDouble
  <1>3. PoolUnits[j] > 0
    <2> DEFINE T == {n \in 0 .. M : ~(PoolUnits[n] > 0)}
    <2>1. T = {}
      <3> SUFFICES ASSUME T # {} PROVE FALSE
        OBVIOUS
      <3>1. T \in SUBSET Nat
        BY <1>1
      <3>2. PICK n \in T : \A m \in T : n <= m
        <4> HIDE DEF T
        <4> QED
          BY <3>1, LeastExists
      <3>3. n \in 0 .. M /\ ~(PoolUnits[n] > 0)
        OBVIOUS
      <3>4. n # 0
        BY <3>3, UnitsDouble
      <3>5. n - 1 \in 0 .. M /\ PoolUnits[n] = 2 * PoolUnits[n - 1] /\ ~(n <= n - 1)
        BY <1>1, <1>2, <3>3, <3>4
      <3>6. PoolUnits[n - 1] > 0
        BY <3>2, <3>5
      <3> QED
        BY <1>1, <3>3, <3>5, <3>6
    <2> QED
      BY <2>1
  <1>4. S = {}
    <2> SUFFICES ASSUME S # {} PROVE FALSE
      OBVIOUS
    <2>1. S \in SUBSET Nat
      BY <1>1
    <2>2. PICK n \in S : \A m \in S : n <= m
      <3> HIDE DEF S
      <3> QED
        BY <2>1, LeastExists
    <2>3. n \in 0 .. M /\ j <= n /\ ~Good(n)
      OBVIOUS
    <2>4. CASE n = j
      <3>1. PoolUnits[n] = 1 * PoolUnits[j]
        BY <1>1, <2>4
      <3>2. Good(n)
        BY <1>1, <1>3, <2>4, <3>1
      <3> QED
        BY <2>3, <3>2
    <2>5. CASE n # j
      <3>1. n # 0 /\ j <= n - 1 /\ ~(n <= n - 1)
        BY <1>1, <2>3, <2>5
      <3>2. n - 1 \in 0 .. M /\ PoolUnits[n] = 2 * PoolUnits[n - 1]
        BY <1>2, <2>3, <3>1
      <3>3. Good(n - 1)
        BY <2>2, <3>1, <3>2
      <3>4. PICK q \in Nat : PoolUnits[n - 1] = q * PoolUnits[j]
        BY <3>3
      <3>5. PoolUnits[n] = (2 * q) * PoolUnits[j] /\ 2 * q \in Nat
        BY <1>1, <3>2, <3>4
      <3>6. PoolUnits[j] <= PoolUnits[n - 1] /\ PoolUnits[n - 1] > 0
        BY <1>1, <1>3, <3>1, <3>2, <3>3
      <3>7. Good(n)
        BY <1>1, <1>3, <3>2, <3>5, <3>6
      <3> QED
        BY <2>3, <3>7
    <2> QED
      BY <2>4, <2>5
  <1>5. Good(k)
    BY <1>4
  <1> HIDE DEF S
  <1> QED
    BY <1>1, <1>5

\* Larger blocks have larger indices.
LEMMA UnitsOrder ==
  ASSUME NEW j \in 0 .. MAX_POOL_INDEX, NEW k \in 0 .. MAX_POOL_INDEX
  PROVE  /\ j < k <=> PoolUnits[j] < PoolUnits[k]
         /\ PoolUnits[j] = PoolUnits[k] => j = k
  <1>1. j \in Int /\ k \in Int
    OBVIOUS
  <1>2. CASE j < k
    <2>1. /\ PoolUnits[j] \in Nat /\ PoolUnits[k] \in Nat
          /\ PoolUnits[j] > 0 /\ 2 * PoolUnits[j] <= PoolUnits[k]
      BY <1>1, <1>2, UnitsGrow
    <2> QED
      BY <1>2, <2>1
  <1>3. CASE k < j
    <2>1. /\ PoolUnits[j] \in Nat /\ PoolUnits[k] \in Nat
          /\ PoolUnits[k] > 0 /\ 2 * PoolUnits[k] <= PoolUnits[j]
      BY <1>1, <1>3, UnitsGrow
    <2> QED
      BY <1>1, <1>3, <2>1
  <1>4. CASE j = k
    <2>1. PoolUnits[j] \in Nat
      BY UnitsDouble
    <2> QED
      BY <1>1, <1>4, <2>1
  <1> QED
    BY <1>1, <1>2, <1>3, <1>4

\* HighBitSet32 finds the largest block that is not larger than the size.
LEMMA HighBitFinds ==
  ASSUME NEW size \in Nat \ {0}, size < PAGE_UNITS
  PROVE  LET h == HighBitSet(size)
         IN h \in PoolIndices /\ PoolUnits[h] <= size /\ size < PoolUnits[h + 1]
  <1> DEFINE M == MAX_POOL_INDEX
             S == {n \in 0 .. M : size < PoolUnits[n]}
  <1>1. M \in Nat \ {0} /\ \A n \in 0 .. M : PoolUnits[n] \in Nat
    BY UnitsDouble
  <1>2. S \in SUBSET Nat /\ M \in S
    BY <1>1, UnitsDouble
  <1>3. PICK n \in S : \A m \in S : n <= m
    <2> HIDE DEF S
    <2> QED
      BY <1>2, LeastExists
  <1>4. n \in 0 .. M /\ size < PoolUnits[n]
    OBVIOUS
  <1>5. n # 0
    BY <1>4, UnitsDouble
  <1>6. /\ n - 1 \in 0 .. M /\ ~(n <= n - 1) /\ (n - 1) + 1 = n /\ n - 1 < M
        /\ n - 1 \in PoolIndices
    BY <1>1, <1>4, <1>5 DEF PoolIndices
  <1>7. PoolUnits[n - 1] <= size
    BY <1>1, <1>3, <1>6
  <1> DEFINE Fits(k) == PoolUnits[k] <= size /\ (k < M => size < PoolUnits[k + 1])
             h == HighBitSet(size)
  <1>8. h \in 0 .. M /\ Fits(h)
    <2>1. \E k \in 0 .. M : Fits(k)
      BY <1>4, <1>6, <1>7
    <2>2. h = CHOOSE k \in 0 .. M : Fits(k)
      BY DEF HighBitSet
    <2> HIDE DEF Fits, h
    <2> QED
      BY <2>1, <2>2
  <1> HIDE DEF h
  <1>9. h < M
    <2>1. h # M
      BY <1>1, <1>8, UnitsDouble
    <2> QED
      BY <1>1, <1>8, <2>1
  <1> QED
    <2>1. h \in PoolIndices
      BY <1>1, <1>8, <1>9 DEF PoolIndices
    <2> QED
      BY <1>8, <1>9, <2>1 DEF h

\* The index of a block's own size.
LEMMA HighBitOfBlock ==
  ASSUME NEW k \in PoolIndices
  PROVE  HighBitSet(PoolUnits[k]) = k
  <1> DEFINE h == HighBitSet(PoolUnits[k])
  <1>1. k \in 0 .. MAX_POOL_INDEX /\ k < MAX_POOL_INDEX /\ MAX_POOL_INDEX \in 0 .. MAX_POOL_INDEX
    BY UnitsDouble DEF PoolIndices
  <1>2. PoolUnits[k] \in Nat \ {0} /\ PoolUnits[k] < PAGE_UNITS
    <2>1. k <= k
      BY <1>1
    <2>2. PoolUnits[k] \in Nat /\ PoolUnits[k] > 0
      BY <1>1, <2>1, UnitsGrow
    <2>3. PoolUnits[k] < PoolUnits[MAX_POOL_INDEX]
      BY <1>1, UnitsOrder
    <2> QED
      BY <2>2, <2>3, UnitsDouble
  <1>3. h \in PoolIndices /\ PoolUnits[h] <= PoolUnits[k] /\ PoolUnits[k] < PoolUnits[h + 1]
    BY <1>2, HighBitFinds
  <1> HIDE DEF h
  <1>4. h \in 0 .. MAX_POOL_INDEX /\ h + 1 \in 0 .. MAX_POOL_INDEX
    BY <1>3, UnitsDouble
  <1>5. ~(k < h)
    <2> SUFFICES ASSUME k < h PROVE FALSE
      OBVIOUS
    <2>1. PoolUnits[k] < PoolUnits[h] /\ PoolUnits[h] \in Nat
      BY <1>1, <1>4, UnitsOrder, UnitsDouble
    <2> QED
      BY <1>2, <1>3, <2>1
  <1>6. k < h + 1
    BY <1>1, <1>3, <1>4, UnitsOrder
  <1> QED
    BY <1>1, <1>4, <1>5, <1>6 DEF h

\* The block chosen for a request is the smallest that is large enough.
LEMMA PoolIndexIs ==
  ASSUME NEW size \in Nat \ {0}, size <= MAX_POOL_SIZE
  PROVE  LET i == PoolIndex(size)
         IN /\ i \in PoolIndices /\ size <= PoolUnits[i]
            /\ \A k \in PoolIndices : k < i => PoolUnits[k] < size
  <1> DEFINE M == MAX_POOL_INDEX
             h == HighBitSet(size)
  <1>1. M \in Nat \ {0} /\ \A n \in 0 .. M : PoolUnits[n] \in Nat
    BY UnitsDouble
  <1>2. M - 1 \in 0 .. M /\ M \in 0 .. M /\ M - 1 < M
    BY <1>1
  <1>3. size < PAGE_UNITS
    BY <1>1, <1>2, UnitsOrder, UnitsDouble
  <1>4. h \in PoolIndices /\ PoolUnits[h] <= size /\ size < PoolUnits[h + 1]
    BY <1>3, HighBitFinds
  <1>5. PoolIndex(size) = IF PoolUnits[h] = size THEN h ELSE h + 1
    BY DEF PoolIndex
  <1> HIDE DEF h
  <1>6. h \in 0 .. M /\ h + 1 \in 0 .. M
    BY <1>4, UnitsDouble
  <1>7. ASSUME NEW k \in PoolIndices, k < h PROVE PoolUnits[k] < size
    <2>1. k \in 0 .. M
      BY UnitsDouble
    <2>2. PoolUnits[k] < PoolUnits[h]
      BY <1>6, <1>7, <2>1, UnitsOrder
    <2> QED
      BY <1>1, <1>4, <1>6, <2>1, <2>2
  <1>8. CASE PoolUnits[h] = size
    BY <1>1, <1>4, <1>5, <1>6, <1>7, <1>8
  <1>9. CASE PoolUnits[h] # size
    <2>1. PoolUnits[h] < PoolUnits[M - 1]
      BY <1>1, <1>2, <1>4, <1>6, <1>9, UnitsDouble
    <2>2. h < M - 1
      BY <1>2, <1>6, <2>1, UnitsOrder
    <2>3. h + 1 \in PoolIndices
      BY <1>1, <1>6, <2>2 DEF PoolIndices
    <2>4. ASSUME NEW k \in PoolIndices, k < h + 1 PROVE PoolUnits[k] < size
      <3>1. k < h \/ k = h
        BY <1>6, <2>4 DEF PoolIndices
      <3> QED
        BY <1>1, <1>4, <1>6, <1>7, <1>9, <3>1
    <2>5. PoolIndex(size) = h + 1
      BY <1>5, <1>9
    <2>6. size <= PoolUnits[h + 1]
      BY <1>1, <1>4, <1>6
    <2> QED
      BY <2>3, <2>4, <2>5, <2>6
  <1> QED
    BY <1>8, <1>9

-----------------------------------------------------------------------------
(***************************************************************************)
(* Pieces of memory.                                                       *)
(***************************************************************************)

Span(x) == Units(x.at, x.size)

\* The pieces of S do not overlap and make up U.
Partition(S, U) ==
  /\ \A x, y \in S : x # y => Span(x) \cap Span(y) = {}
  /\ UNION {Span(x) : x \in S} = U

\* A unit of U is in a piece.
LEMMA PartitionIs ==
  ASSUME NEW S, NEW U, Partition(S, U), NEW u
  PROVE  u \in U <=> \E x \in S : u \in Span(x)
BY DEF Partition

\* A set of pieces, unit by unit.
LEMMA PartitionFrom ==
  ASSUME NEW S, NEW U,
         \A x, y \in S : x # y => Span(x) \cap Span(y) = {},
         \A u : u \in U <=> \E x \in S : u \in Span(x)
  PROVE  Partition(S, U)
BY DEF Partition

\* One piece.
LEMMA OnePiece ==
  ASSUME NEW x
  PROVE  Partition({x}, Span(x))
BY DEF Partition

\* No piece.
LEMMA NoPiece == Partition({}, {})
BY DEF Partition

\* Some pieces are exchanged for others that fill their place, or a place nobody had.
LEMMA Exchange ==
  ASSUME NEW S, NEW U, Partition(S, U), NEW Old \in SUBSET S, NEW V, Partition(Old, V),
         NEW New, NEW W, Partition(New, W), W \cap (U \ V) = {}
  PROVE  Partition((S \ Old) \cup New, (U \ V) \cup W)
  <1>1. ASSUME NEW x \in S \ Old
        PROVE  Span(x) \subseteq U \ V
    <2> SUFFICES ASSUME NEW u \in Span(x) PROVE u \in U /\ u \notin V
      OBVIOUS
    <2>1. u \in U
      BY PartitionIs
    <2>2. ASSUME u \in V PROVE FALSE
      <3>1. PICK y \in Old : u \in Span(y)
        BY <2>2, PartitionIs
      <3>2. y # x /\ y \in S
        OBVIOUS
      <3>3. Span(x) \cap Span(y) = {}
        BY <3>2 DEF Partition
      <3> QED
        BY <3>1, <3>3
    <2> QED
      BY <2>1, <2>2
  <1>2. ASSUME NEW x \in New PROVE Span(x) \subseteq W
    BY PartitionIs
  <1>3. ASSUME NEW u
        PROVE  u \in (U \ V) \cup W <=> \E x \in (S \ Old) \cup New : u \in Span(x)
    <2>1. ASSUME u \in U, u \notin V
          PROVE  \E x \in S \ Old : u \in Span(x)
      <3>1. PICK x \in S : u \in Span(x)
        BY <2>1, PartitionIs
      <3>2. x \notin Old
        BY <2>1, <3>1, PartitionIs
      <3> QED
        BY <3>1, <3>2
    <2>2. ASSUME u \in W
          PROVE  \E x \in New : u \in Span(x)
      BY <2>2, PartitionIs
    <2> QED
      BY <1>1, <1>2, <2>1, <2>2
  <1>4. ASSUME NEW x \in (S \ Old) \cup New, NEW y \in (S \ Old) \cup New, x # y
        PROVE  Span(x) \cap Span(y) = {}
    <2>1. CASE x \in S \ Old /\ y \in S \ Old
      BY <1>4, <2>1 DEF Partition
    <2>2. CASE x \in New /\ y \in New
      BY <1>4, <2>2 DEF Partition
    <2>3. CASE x \in S \ Old /\ y \in New
      BY <1>1, <1>2, <2>3
    <2>4. CASE x \in New /\ y \in S \ Old
      BY <1>1, <1>2, <2>4
    <2> QED
      BY <2>1, <2>2, <2>3, <2>4
  <1> QED
    BY <1>3, <1>4, PartitionFrom

\* The units of a piece.
LEMMA UnitsIs ==
  ASSUME NEW at \in Int, NEW size \in Int, NEW u
  PROVE  u \in Units(at, size) <=> u \in Int /\ at <= u /\ u < at + size
BY DEF Units

\* Multiples keep the order.
LEMMA ScaledOrder ==
  ASSUME NEW a \in Nat, NEW b \in Nat, NEW d \in Nat, a <= b
  PROVE  a * d \in Nat /\ b * d \in Nat /\ a * d <= b * d
  <1> DEFINE c == b - a
  <1>1. c \in Nat /\ b = a + c
    OBVIOUS
  <1> HIDE DEF c
  <1>2. b * d = a * d + c * d
    BY <1>1
  <1>3. a * d \in Nat /\ c * d \in Nat
    BY <1>1
  <1> QED
    BY <1>2, <1>3

\* The page of a unit.
LEMMA PageOfUnit ==
  ASSUME NEW u \in Nat, NEW d \in Nat \ {0}
  PROVE  /\ u \div d \in Nat
         /\ (u \div d) * d <= u /\ u < (u \div d) * d + d
         /\ \A p \in Nat : p * d <= u /\ u < p * d + d => p = u \div d
  <1> DEFINE q == u \div d
             r == u % d
  <1>1. q \in Nat /\ r \in 0 .. (d - 1) /\ u = d * q + r
    OBVIOUS
  <1> HIDE DEF q, r
  <1>2. d * q = q * d /\ q * d \in Nat
    BY <1>1
  <1>3. q * d <= u /\ u < q * d + d
    BY <1>1, <1>2
  <1>4. ASSUME NEW p \in Nat, p * d <= u, u < p * d + d
        PROVE  p = q
    <2>1. p * d \in Nat /\ (p + 1) * d = p * d + d /\ (q + 1) * d = q * d + d
      BY <1>1
    <2>2. CASE p < q
      <3>1. p + 1 <= q /\ p + 1 \in Nat
        BY <1>1, <2>2
      <3>2. (p + 1) * d <= q * d
        BY <1>1, <3>1, ScaledOrder
      <3> QED
        BY <1>2, <1>3, <1>4, <2>1, <3>2
    <2>3. CASE q < p
      <3>1. q + 1 <= p /\ q + 1 \in Nat
        BY <1>1, <2>3
      <3>2. (q + 1) * d <= p * d
        BY <1>1, <3>1, ScaledOrder
      <3> QED
        BY <1>2, <1>3, <1>4, <2>1, <3>2
    <2> QED
      BY <1>1, <2>2, <2>3
  <1> QED
    BY <1>1, <1>3, <1>4 DEF q

\* A page has units.
LEMMA PageUnitsType == PAGE_UNITS \in Nat \ {0}
  <1>1. MAX_POOL_INDEX \in 0 .. MAX_POOL_INDEX /\ MAX_POOL_INDEX <= MAX_POOL_INDEX
    BY UnitsDouble
  <1>2. PoolUnits[MAX_POOL_INDEX] \in Nat /\ PoolUnits[MAX_POOL_INDEX] > 0
    BY <1>1, UnitsGrow
  <1> QED
    BY <1>2, UnitsDouble

\* The units of a set of pages.
PageUnits(S) == UNION {Units(p * PAGE_UNITS, PAGE_UNITS) : p \in S}

\* They are the units whose page is in the set.
LEMMA PageUnitsIs ==
  ASSUME NEW S \in SUBSET Nat, NEW u
  PROVE  u \in PageUnits(S) <=> u \in Nat /\ u \div PAGE_UNITS \in S
  <1> DEFINE d == PAGE_UNITS
  <1>1. d \in Nat \ {0}
    BY PageUnitsType
  <1>2. u \in PageUnits(S) <=> \E p \in S : u \in Units(p * d, d)
    BY DEF PageUnits
  <1> HIDE DEF d
  <1>3. ASSUME NEW p \in S, u \in Units(p * d, d)
        PROVE  u \in Nat /\ u \div d \in S
    <2>1. p \in Nat /\ p * d \in Nat
      BY <1>1
    <2>2. u \in Nat /\ p * d <= u /\ u < p * d + d
      BY <1>1, <1>3, <2>1, UnitsIs
    <2>3. p = u \div d
      BY <1>1, <2>1, <2>2, PageOfUnit
    <2> QED
      BY <2>2, <2>3
  <1>4. ASSUME u \in Nat, u \div d \in S
        PROVE  \E p \in S : u \in Units(p * d, d)
    <2> DEFINE p == u \div d
    <2>1. p \in Nat /\ p * d <= u /\ u < p * d + d
      BY <1>1, <1>4, PageOfUnit
    <2>2. p \in S
      BY <1>4
    <2> HIDE DEF p
    <2>3. u \in Units(p * d, d)
      BY <1>1, <1>4, <2>1, UnitsIs
    <2> QED
      BY <2>2, <2>3
  <1> QED
    BY <1>2, <1>3, <1>4 DEF d

\* The units of pages in a row.
LEMMA RunUnits ==
  ASSUME NEW p \in Nat, NEW n \in Nat
  PROVE  Units(p * PAGE_UNITS, n * PAGE_UNITS) = PageUnits(Run(p, n))
  <1> DEFINE d == PAGE_UNITS
  <1>1. d \in Nat \ {0}
    BY PageUnitsType
  <1>2. Run(p, n) \in SUBSET Nat
    BY DEF Run
  <1> HIDE DEF d
  <1>3. p * d \in Nat /\ n * d \in Nat /\ (p + n) * d = p * d + n * d
    BY <1>1
  <1>4. ASSUME NEW u
        PROVE  u \in Units(p * d, n * d) <=> u \in Nat /\ u \div d \in Run(p, n)
    <2>1. u \in Units(p * d, n * d) <=> u \in Nat /\ p * d <= u /\ u < (p + n) * d
      BY <1>3, UnitsIs
    <2>2. ASSUME u \in Nat
          PROVE  p * d <= u /\ u < (p + n) * d <=> u \div d \in Run(p, n)
      <3> DEFINE q == u \div d
      <3>1. q \in Nat /\ q * d <= u /\ u < q * d + d
        BY <1>1, <2>2, PageOfUnit
      <3> HIDE DEF q
      <3>2. (q + 1) * d = q * d + d /\ q * d \in Nat
        BY <1>1, <3>1
      <3>3. q \in Run(p, n) <=> p <= q /\ q < p + n
        BY <3>1 DEF Run
      <3>4. ASSUME p <= q PROVE p * d <= u
        <4>1. p * d <= q * d
          BY <1>1, <3>1, <3>4, ScaledOrder
        <4> QED
          BY <1>3, <2>2, <3>1, <3>2, <4>1
      <3>5. ASSUME q < p + n PROVE u < (p + n) * d
        <4>1. q + 1 <= p + n /\ q + 1 \in Nat /\ p + n \in Nat
          BY <3>1, <3>5
        <4>2. (q + 1) * d <= (p + n) * d
          BY <1>1, <4>1, ScaledOrder
        <4> QED
          BY <1>1, <1>3, <2>2, <3>1, <3>2, <4>2
      <3>6. ASSUME q < p PROVE ~(p * d <= u)
        <4>1. q + 1 <= p /\ q + 1 \in Nat
          BY <3>1, <3>6
        <4>2. (q + 1) * d <= p * d
          BY <1>1, <4>1, ScaledOrder
        <4> QED
          BY <1>1, <1>3, <2>2, <3>1, <3>2, <4>2
      <3>7. ASSUME p + n <= q PROVE ~(u < (p + n) * d)
        <4>1. (p + n) * d <= q * d
          BY <1>1, <3>1, <3>7, ScaledOrder
        <4> QED
          BY <1>1, <1>3, <2>2, <3>1, <3>2, <4>1
      <3>8. (p <= q \/ q < p) /\ (q < p + n \/ p + n <= q)
        BY <3>1
      <3> QED
        BY <3>3, <3>4, <3>5, <3>6, <3>7, <3>8 DEF q
    <2> QED
      BY <2>1, <2>2
  <1>5. ASSUME NEW u
        PROVE  u \in Units(p * d, n * d) <=> u \in PageUnits(Run(p, n))
    <2>1. u \in PageUnits(Run(p, n)) <=> u \in Nat /\ u \div d \in Run(p, n)
      BY <1>2, PageUnitsIs DEF d
    <2> QED
      BY <1>4, <2>1
  <1> QED
    BY <1>5 DEF d

\* Sets of pages and their units.
LEMMA PageUnitsSets ==
  ASSUME NEW S \in SUBSET Nat, NEW T \in SUBSET Nat
  PROVE  /\ PageUnits(S \cup T) = PageUnits(S) \cup PageUnits(T)
         /\ PageUnits(S \ T) = PageUnits(S) \ PageUnits(T)
         /\ S \cap T = {} => PageUnits(S) \cap PageUnits(T) = {}
  <1>1. S \cup T \in SUBSET Nat /\ S \ T \in SUBSET Nat
    OBVIOUS
  <1>2. ASSUME NEW u
        PROVE  /\ u \in PageUnits(S) <=> u \in Nat /\ u \div PAGE_UNITS \in S
               /\ u \in PageUnits(T) <=> u \in Nat /\ u \div PAGE_UNITS \in T
               /\ u \in PageUnits(S \cup T) <=> u \in Nat /\ u \div PAGE_UNITS \in S \cup T
               /\ u \in PageUnits(S \ T) <=> u \in Nat /\ u \div PAGE_UNITS \in S \ T
    BY <1>1, PageUnitsIs
  <1>3. PageUnits(S \cup T) = PageUnits(S) \cup PageUnits(T)
    BY <1>2
  <1>4. PageUnits(S \ T) = PageUnits(S) \ PageUnits(T)
    BY <1>2
  <1>5. S \cap T = {} => PageUnits(S) \cap PageUnits(T) = {}
    BY <1>2
  <1> QED
    BY <1>3, <1>4, <1>5

-----------------------------------------------------------------------------
(***************************************************************************)
(* The pool lists.                                                         *)
(***************************************************************************)

Multiple(x, d) == \E q \in Nat : x = q * d

\* What divides a multiple, and sums and differences of multiples.
LEMMA MultipleRules ==
  ASSUME NEW x \in Nat, NEW y \in Nat, NEW d \in Nat
  PROVE  /\ Multiple(x, d) /\ d # 0 => x % d = 0
         /\ Multiple(x, d) /\ Multiple(y, d) => Multiple(x + y, d)
         /\ Multiple(x, d) /\ Multiple(y, d) /\ y <= x /\ d # 0 => Multiple(x - y, d)
         /\ Multiple(x, y) /\ Multiple(y, d) => Multiple(x, d)
  <1>1. ASSUME Multiple(x, d), d # 0 PROVE x % d = 0
    <2>1. PICK q \in Nat : x = q * d
      BY <1>1 DEF Multiple
    <2>2. (q * d) % d = 0
      BY <1>1
    <2> QED
      BY <2>1, <2>2
  <1>2. ASSUME Multiple(x, d), Multiple(y, d) PROVE Multiple(x + y, d)
    <2>1. PICK q \in Nat : x = q * d
      BY <1>2 DEF Multiple
    <2>2. PICK r \in Nat : y = r * d
      BY <1>2 DEF Multiple
    <2>3. x + y = (q + r) * d /\ q + r \in Nat
      BY <2>1, <2>2
    <2> QED
      BY <2>3 DEF Multiple
  <1>3. ASSUME Multiple(x, d), Multiple(y, d), y <= x, d # 0 PROVE Multiple(x - y, d)
    <2>1. PICK q \in Nat : x = q * d
      BY <1>3 DEF Multiple
    <2>2. PICK r \in Nat : y = r * d
      BY <1>3 DEF Multiple
    <2>3. CASE r <= q
      <3>1. x - y = (q - r) * d /\ q - r \in Nat
        BY <2>1, <2>2, <2>3
      <3> QED
        BY <3>1 DEF Multiple
    <2>4. CASE q < r
      <3>1. q + 1 <= r /\ q + 1 \in Nat /\ (q + 1) * d = q * d + d /\ q * d \in Nat
        BY <2>4
      <3>2. (q + 1) * d <= r * d
        BY <3>1, ScaledOrder
      <3> QED
        BY <1>3, <2>1, <2>2, <3>1, <3>2
    <2> QED
      BY <2>3, <2>4
  <1>4. ASSUME Multiple(x, y), Multiple(y, d) PROVE Multiple(x, d)
    <2>1. PICK q \in Nat : x = q * y
      BY <1>4 DEF Multiple
    <2>2. PICK r \in Nat : y = r * d
      BY <1>4 DEF Multiple
    <2>3. x = (q * r) * d /\ q * r \in Nat
      BY <2>1, <2>2
    <2> QED
      BY <2>3 DEF Multiple
  <1> QED
    BY <1>1, <1>2, <1>3, <1>4

Members(s) == {s[i] : i \in DOMAIN s}

\* A list of blocks of d units: none is in it twice, and all are aligned to their size.
ListOK(s, d) ==
  /\ s \in Seq(Nat)
  /\ \A i, j \in DOMAIN s : i # j => s[i] # s[j]
  /\ \A a \in Members(s) : Multiple(a, d)

\* The empty list.
LEMMA EmptyList ==
  ASSUME NEW d
  PROVE  ListOK(<< >>, d) /\ Members(<< >>) = {}
  <1> DEFINE e == << >>
  <1>1. e \in Seq(Nat) /\ DOMAIN e = {}
    OBVIOUS
  <1> HIDE DEF e
  <1>2. Members(e) = {}
    BY <1>1 DEF Members
  <1>3. ListOK(e, d)
    BY <1>1, <1>2 DEF ListOK
  <1> QED
    BY <1>2, <1>3 DEF e

\* A list without its head.
LEMMA TailList ==
  ASSUME NEW d, NEW s, ListOK(s, d), s # << >>
  PROVE  /\ ListOK(Tail(s), d) /\ Head(s) \in Members(s)
         /\ Members(Tail(s)) = Members(s) \ {Head(s)}
  <1> DEFINE n == Len(s)
             t == Tail(s)
  <1>1. s \in Seq(Nat)
    BY DEF ListOK
  <1>2. n \in Nat \ {0} /\ DOMAIN s = 1 .. n
    BY <1>1, EmptySeq, LenProperties
  <1>3. t \in Seq(Nat) /\ Len(t) = n - 1 /\ \A i \in 1 .. Len(t) : t[i] = s[i + 1]
    BY <1>1, HeadTailProperties
  <1>4. DOMAIN t = 1 .. (n - 1)
    BY <1>3, LenProperties
  <1>5. Head(s) = s[1]
    OBVIOUS
  <1> HIDE DEF n, t
  <1>6. ASSUME NEW i \in DOMAIN t
        PROVE  t[i] = s[i + 1] /\ i + 1 \in DOMAIN s /\ i + 1 # 1
    BY <1>2, <1>3, <1>4
  <1>7. 1 \in DOMAIN s
    BY <1>2
  <1>8. ASSUME NEW a
        PROVE  a \in Members(t) <=> a \in Members(s) /\ a # s[1]
    <2>1. ASSUME NEW i \in DOMAIN t, a = t[i]
          PROVE  a \in Members(s) /\ a # s[1]
      BY <1>6, <1>7, <2>1 DEF Members, ListOK
    <2>2. ASSUME NEW i \in DOMAIN s, a = s[i], a # s[1]
          PROVE  a \in Members(t)
      <3>1. i # 1 /\ i \in 1 .. n
        BY <1>2, <2>2
      <3>2. i - 1 \in DOMAIN t /\ (i - 1) + 1 = i
        BY <1>2, <1>4, <3>1
      <3>3. t[i - 1] = a
        BY <1>6, <2>2, <3>2
      <3> QED
        BY <3>2, <3>3 DEF Members
    <2> QED
      BY <2>1, <2>2 DEF Members
  <1>9. ASSUME NEW i \in DOMAIN t, NEW j \in DOMAIN t, i # j PROVE t[i] # t[j]
    <2>1. i + 1 # j + 1
      BY <1>4, <1>9
    <2> QED
      BY <1>6, <2>1 DEF ListOK
  <1>10. Members(t) = Members(s) \ {s[1]} /\ s[1] \in Members(s)
    BY <1>7, <1>8 DEF Members
  <1>11. ListOK(t, d)
    BY <1>3, <1>8, <1>9 DEF ListOK
  <1> QED
    BY <1>5, <1>10, <1>11 DEF t

\* A list with a new head.
LEMMA ConsList ==
  ASSUME NEW d, NEW s, ListOK(s, d), NEW x \in Nat, x \notin Members(s), Multiple(x, d)
  PROVE  ListOK(<<x>> \o s, d) /\ Members(<<x>> \o s) = Members(s) \cup {x}
  <1> DEFINE h == <<x>>
             t == h \o s
             n == Len(s)
  <1>1. s \in Seq(Nat)
    BY DEF ListOK
  <1>2. n \in Nat /\ DOMAIN s = 1 .. n
    BY <1>1, LenProperties
  <1>3. h \in Seq(Nat) /\ Len(h) = 1 /\ h[1] = x
    OBVIOUS
  <1> HIDE DEF h
  <1>3a. /\ t \in Seq(Nat) /\ Len(t) = Len(h) + Len(s)
         /\ \A i \in 1 .. Len(h) + Len(s) :
              t[i] = IF i <= Len(h) THEN h[i] ELSE s[i - Len(h)]
    BY <1>1, <1>3, ConcatProperties, Zenon
  <1> HIDE DEF t
  <1>4. t \in Seq(Nat) /\ Len(t) = 1 + n
        /\ \A i \in 1 .. 1 + n : t[i] = IF i <= 1 THEN h[i] ELSE s[i - 1]
    BY <1>3, <1>3a
  <1>5. DOMAIN t = 1 .. 1 + n
    BY <1>4, LenProperties
  <1> HIDE DEF t, n
  <1>6. 1 \in DOMAIN t /\ t[1] = x
    BY <1>2, <1>3, <1>4, <1>5
  <1>7. ASSUME NEW i \in DOMAIN t, i # 1
        PROVE  i - 1 \in DOMAIN s /\ t[i] = s[i - 1]
    BY <1>2, <1>4, <1>5, <1>7
  <1>8. ASSUME NEW i \in DOMAIN s
        PROVE  i + 1 \in DOMAIN t /\ t[i + 1] = s[i]
    <2>1. i + 1 \in 1 .. 1 + n /\ ~(i + 1 <= 1) /\ (i + 1) - 1 = i
      BY <1>2
    <2> QED
      BY <1>4, <1>5, <2>1
  <1>9. ASSUME NEW a
        PROVE  a \in Members(t) <=> a \in Members(s) \/ a = x
    <2>1. ASSUME NEW i \in DOMAIN t, a = t[i] PROVE a \in Members(s) \/ a = x
      BY <1>6, <1>7, <2>1 DEF Members
    <2>2. ASSUME NEW i \in DOMAIN s, a = s[i] PROVE a \in Members(t)
      BY <1>8, <2>2 DEF Members
    <2>3. x \in Members(t)
      BY <1>6 DEF Members
    <2> QED
      BY <2>1, <2>2, <2>3 DEF Members
  <1>10. ASSUME NEW i \in DOMAIN t, NEW j \in DOMAIN t, i # j PROVE t[i] # t[j]
    <2>1. CASE i = 1
      <3>1. j # 1
        BY <1>10, <2>1
      <3> QED
        BY <1>6, <1>7, <2>1, <3>1 DEF Members
    <2>2. CASE j = 1
      <3>1. i # 1
        BY <1>10, <2>2
      <3> QED
        BY <1>6, <1>7, <2>2, <3>1 DEF Members
    <2>3. CASE i # 1 /\ j # 1
      <3>1. i - 1 # j - 1
        BY <1>5, <1>10
      <3> QED
        BY <1>7, <2>3, <3>1 DEF ListOK
    <2> QED
      BY <2>1, <2>2, <2>3
  <1>11. Members(t) = Members(s) \cup {x}
    BY <1>9
  <1>12. ListOK(t, d)
    BY <1>4, <1>9, <1>10 DEF ListOK
  <1> QED
    BY <1>11, <1>12 DEF t, h

-----------------------------------------------------------------------------
(***************************************************************************)
(* The pieces the pool allocator deals in: free blocks and buffers.        *)
(***************************************************************************)

Block(k, a) == [kind |-> "block", at |-> a, size |-> PoolUnits[k]]
Buffer(b) == [kind |-> "buffer", at |-> b.at, size |-> b.size]

\* Where pieces are, and when two are the same.
LEMMA PieceShape ==
  /\ \A k, a : Block(k, a).at = a /\ Block(k, a).size = PoolUnits[k]
  /\ \A b : Buffer(b).at = b.at /\ Buffer(b).size = b.size
  /\ \A k, a, b : Block(k, a) # Buffer(b)
  /\ \A k, j \in 0 .. MAX_POOL_INDEX : \A a, c : Block(k, a) = Block(j, c) => k = j /\ a = c
  /\ \A b, c \in Extent : Buffer(b) = Buffer(c) => b = c
  <1>1. /\ \A k, a : Block(k, a).at = a /\ Block(k, a).size = PoolUnits[k]
        /\ \A b : Buffer(b).at = b.at /\ Buffer(b).size = b.size
    BY DEF Block, Buffer
  <1>2. ASSUME NEW k, NEW a, NEW b PROVE Block(k, a) # Buffer(b)
    <2>1. Block(k, a).kind = "block" /\ Buffer(b).kind = "buffer"
      BY DEF Block, Buffer
    <2> QED
      BY <2>1
  <1>3. ASSUME NEW k \in 0 .. MAX_POOL_INDEX, NEW j \in 0 .. MAX_POOL_INDEX, NEW a, NEW c,
               Block(k, a) = Block(j, c)
        PROVE  k = j /\ a = c
    <2>1. a = c /\ PoolUnits[k] = PoolUnits[j]
      BY <1>1, <1>3
    <2> QED
      BY <2>1, UnitsOrder
  <1>4. ASSUME NEW b \in Extent, NEW c \in Extent, Buffer(b) = Buffer(c) PROVE b = c
    <2>1. b.at = c.at /\ b.size = c.size
      BY <1>1, <1>4
    <2> QED
      BY <2>1 DEF Extent
  <1> QED
    BY <1>1, <1>2, <1>3, <1>4

\* The free blocks of the lists and the buffers in use.
PoolPieces(pools, bufs) ==
  (UNION {{Block(k, a) : a \in Members(pools[k])} : k \in PoolIndices})
  \cup {Buffer(b) : b \in bufs}

\* What the pieces are.
LEMMA PoolPiecesIs ==
  ASSUME NEW pools, NEW bufs, NEW x
  PROVE  x \in PoolPieces(pools, bufs) <=>
           \/ \E k \in PoolIndices : \E a \in Members(pools[k]) : x = Block(k, a)
           \/ \E b \in bufs : x = Buffer(b)
  <1> DEFINE B(k) == {Block(k, a) : a \in Members(pools[k])}
             C == {Buffer(b) : b \in bufs}
  <1>1. x \in PoolPieces(pools, bufs) <=>
          (\E k \in PoolIndices : x \in B(k)) \/ x \in C
    <2>1. PoolPieces(pools, bufs) = (UNION {B(k) : k \in PoolIndices}) \cup C
      BY DEF PoolPieces
    <2> HIDE DEF B, C
    <2>2. x \in UNION {B(k) : k \in PoolIndices} <=> \E k \in PoolIndices : x \in B(k)
      OBVIOUS
    <2> QED
      BY <2>1, <2>2
  <1>2. \A k : x \in B(k) <=> \E a \in Members(pools[k]) : x = Block(k, a)
    OBVIOUS
  <1> HIDE DEF B
  <1> QED
    BY <1>1, <1>2

\* A change of the lists and of the buffers that takes the pieces Old and adds New.
Changed(pools, bufs, pools2, bufs2, Old, New) ==
  /\ \A x \in New : \/ \E k \in PoolIndices : \E a : x = Block(k, a)
                    \/ \E b \in bufs2 : x = Buffer(b)
  /\ \A k \in PoolIndices : \A a :
       a \in Members(pools2[k]) <=> \/ a \in Members(pools[k]) /\ Block(k, a) \notin Old
                                    \/ Block(k, a) \in New
  /\ \A b \in bufs2 : (b \in bufs /\ Buffer(b) \notin Old) \/ Buffer(b) \in New
  /\ \A b \in bufs : Buffer(b) \notin Old => b \in bufs2

\* The pieces after it.
LEMMA PiecesChange ==
  ASSUME NEW pools, NEW pools2, NEW bufs, NEW bufs2, NEW Old, NEW New,
         Changed(pools, bufs, pools2, bufs2, Old, New)
  PROVE  PoolPieces(pools2, bufs2) = (PoolPieces(pools, bufs) \ Old) \cup New
  <1> USE DEF Changed
  <1>1. ASSUME NEW x \in PoolPieces(pools2, bufs2)
        PROVE  x \in (PoolPieces(pools, bufs) \ Old) \cup New
    <2>1. CASE \E k \in PoolIndices : \E a \in Members(pools2[k]) : x = Block(k, a)
      <3>0. PICK k \in PoolIndices : \E a \in Members(pools2[k]) : x = Block(k, a)
        BY <2>1
      <3>1. PICK a \in Members(pools2[k]) : x = Block(k, a)
        BY <3>0
      <3>2. (a \in Members(pools[k]) /\ x \notin Old) \/ x \in New
        BY <3>1
      <3>3. a \in Members(pools[k]) => x \in PoolPieces(pools, bufs)
        BY <3>1, PoolPiecesIs
      <3> QED
        BY <3>2, <3>3
    <2>2. CASE \E b \in bufs2 : x = Buffer(b)
      <3>1. PICK b \in bufs2 : x = Buffer(b)
        BY <2>2
      <3>2. b \in bufs => x \in PoolPieces(pools, bufs)
        BY <3>1, PoolPiecesIs
      <3> QED
        BY <3>1, <3>2
    <2> QED
      BY <2>1, <2>2, PoolPiecesIs
  <1>2. ASSUME NEW x \in PoolPieces(pools, bufs), x \notin Old
        PROVE  x \in PoolPieces(pools2, bufs2)
    <2>1. CASE \E k \in PoolIndices : \E a \in Members(pools[k]) : x = Block(k, a)
      <3>0. PICK k \in PoolIndices : \E a \in Members(pools[k]) : x = Block(k, a)
        BY <2>1
      <3>1. PICK a \in Members(pools[k]) : x = Block(k, a)
        BY <3>0
      <3>2. a \in Members(pools2[k])
        BY <1>2, <3>1
      <3> QED
        BY <3>1, <3>2, PoolPiecesIs
    <2>2. CASE \E b \in bufs : x = Buffer(b)
      BY <1>2, <2>2, PoolPiecesIs
    <2> QED
      BY <2>1, <2>2, PoolPiecesIs
  <1>3. ASSUME NEW x \in New PROVE x \in PoolPieces(pools2, bufs2)
    <2>1. CASE \E k \in PoolIndices : \E a : x = Block(k, a)
      <3>1. PICK k \in PoolIndices : \E a : x = Block(k, a)
        BY <2>1
      <3>2. PICK a : x = Block(k, a)
        BY <3>1
      <3>3. a \in Members(pools2[k])
        BY <3>2
      <3> QED
        BY <3>2, <3>3, PoolPiecesIs
    <2>2. CASE \E b \in bufs2 : x = Buffer(b)
      BY <2>2, PoolPiecesIs
    <2> QED
      BY <2>1, <2>2
  <1> QED
    BY <1>1, <1>2, <1>3

\* A block of the size from at address at, split down to the size index: what remains of
\* it in the lists, and the buffer, its last part.
Lower(at, from, k) == at + PoolUnits[from] - PoolUnits[k + 1]
LastPart(at, from, index) ==
  [at |-> at + PoolUnits[from] - PoolUnits[index], size |-> PoolUnits[index]]
SplitPieces(at, from, index) ==
  {Block(k, Lower(at, from, k)) : k \in index .. (from - 1)}
  \cup {Buffer(LastPart(at, from, index))}

\* The units of the parts of a split block.
LEMMA SplitSpans ==
  ASSUME NEW at \in Nat, NEW from \in 0 .. MAX_POOL_INDEX, NEW index \in 0 .. from, NEW u
  PROVE  /\ \A k \in index .. (from - 1) :
              u \in Span(Block(k, Lower(at, from, k))) <=>
                /\ u \in Int /\ (at + PoolUnits[from]) - PoolUnits[k + 1] <= u
                /\ u < (at + PoolUnits[from]) - PoolUnits[k]
         /\ u \in Span(Buffer(LastPart(at, from, index))) <=>
              u \in Int /\ (at + PoolUnits[from]) - PoolUnits[index] <= u
                        /\ u < at + PoolUnits[from]
  <1>1. ASSUME NEW k \in index .. (from - 1)
        PROVE  u \in Span(Block(k, Lower(at, from, k))) <=>
                 /\ u \in Int /\ (at + PoolUnits[from]) - PoolUnits[k + 1] <= u
                 /\ u < (at + PoolUnits[from]) - PoolUnits[k]
    <2> DEFINE a == Lower(at, from, k)
    <2>1. k \in PoolIndices
      BY UnitsDouble DEF PoolIndices
    <2>2. /\ PoolUnits[k] \in Nat /\ PoolUnits[k + 1] \in Nat /\ PoolUnits[from] \in Nat
          /\ PoolUnits[k + 1] = 2 * PoolUnits[k]
      BY <2>1, UnitsDouble
    <2>3. a = (at + PoolUnits[from]) - PoolUnits[k + 1] /\ a \in Int
      BY <2>2 DEF Lower
    <2>4. Span(Block(k, a)) = Units(a, PoolUnits[k])
      BY PieceShape, Zenon DEF Span
    <2> HIDE DEF a
    <2>5. u \in Span(Block(k, a)) <=> u \in Int /\ a <= u /\ u < a + PoolUnits[k]
      BY <2>2, <2>3, <2>4, UnitsIs
    <2>6. a + PoolUnits[k] = (at + PoolUnits[from]) - PoolUnits[k]
      BY <2>2, <2>3
    <2> QED
      BY <2>3, <2>5, <2>6 DEF a
  <1>2. u \in Span(Buffer(LastPart(at, from, index))) <=>
          u \in Int /\ (at + PoolUnits[from]) - PoolUnits[index] <= u
                    /\ u < at + PoolUnits[from]
    <2> DEFINE b == LastPart(at, from, index)
    <2>1. PoolUnits[index] \in Nat /\ PoolUnits[from] \in Nat
      BY UnitsDouble
    <2>2. b.at = (at + PoolUnits[from]) - PoolUnits[index] /\ b.size = PoolUnits[index]
      BY <2>1 DEF LastPart
    <2> HIDE DEF b
    <2>3. Span(Buffer(b)) = Units(b.at, b.size)
      BY PieceShape, Zenon DEF Span
    <2>4. u \in Span(Buffer(b)) <=> u \in Int /\ b.at <= u /\ u < b.at + b.size
      BY <2>1, <2>2, <2>3, UnitsIs
    <2>5. b.at + b.size = at + PoolUnits[from]
      BY <2>1, <2>2
    <2> QED
      BY <2>2, <2>4, <2>5 DEF b
  <1> QED
    BY <1>1, <1>2

\* The parts of a split block make it up.
LEMMA SplitPartition ==
  ASSUME NEW at \in Nat, NEW from \in 0 .. MAX_POOL_INDEX, NEW index \in 0 .. from
  PROVE  Partition(SplitPieces(at, from, index), Units(at, PoolUnits[from]))
  <1> DEFINE T == at + PoolUnits[from]
             part(k) == Block(k, Lower(at, from, k))
             rest == Buffer(LastPart(at, from, index))
  <1>1. MAX_POOL_INDEX \in Nat
    BY UnitsDouble
  <1>2. \A k \in 0 .. MAX_POOL_INDEX : PoolUnits[k] \in Nat
    BY UnitsDouble
  <1>3. /\ from \in Nat /\ index \in Nat /\ index <= from /\ index \in 0 .. MAX_POOL_INDEX
        /\ \A k \in index .. (from - 1) : k \in 0 .. MAX_POOL_INDEX /\ k + 1 \in 0 .. MAX_POOL_INDEX
    BY <1>1
  <1>4. T \in Nat
    BY <1>2
  <1>4a. ASSUME NEW u
         PROVE  /\ \A k \in index .. (from - 1) :
                     u \in Span(part(k)) <=>
                       u \in Int /\ T - PoolUnits[k + 1] <= u /\ u < T - PoolUnits[k]
                /\ u \in Span(rest) <=> u \in Int /\ T - PoolUnits[index] <= u /\ u < T
    BY SplitSpans, Zenon
  <1> HIDE DEF part, rest
  <1>5. ASSUME NEW j \in index .. (from - 1), NEW k \in index .. (from - 1), j < k
        PROVE  Span(part(j)) \cap Span(part(k)) = {}
    <2>1. j + 1 <= k /\ j + 1 \in 0 .. MAX_POOL_INDEX /\ k \in 0 .. MAX_POOL_INDEX
      BY <1>3, <1>5
    <2>2. PoolUnits[j + 1] <= PoolUnits[k]
      <3>1. CASE j + 1 = k
        BY <1>2, <2>1, <3>1
      <3>2. CASE j + 1 < k
        <4>1. PoolUnits[j + 1] < PoolUnits[k]
          BY <2>1, <3>2, UnitsOrder
        <4> QED
          BY <1>2, <2>1, <4>1
      <3> QED
        BY <1>3, <2>1, <3>1, <3>2
    <2>3. ASSUME NEW u, u \in Span(part(j)), u \in Span(part(k)) PROVE FALSE
      <3>1. u \in Int /\ T - PoolUnits[j + 1] <= u
        BY <2>3, <1>4a
      <3>2. u < T - PoolUnits[k]
        BY <2>3, <1>4a
      <3> HIDE DEF T
      <3> QED
        BY <1>2, <1>4, <2>1, <2>2, <3>1, <3>2
    <2> QED
      BY <2>3
  <1>6. ASSUME NEW k \in index .. (from - 1)
        PROVE  Span(part(k)) \cap Span(rest) = {}
    <2>1. PoolUnits[index] <= PoolUnits[k] /\ PoolUnits[index] \in Nat /\ PoolUnits[k] \in Nat
      <3>1. CASE index = k
        BY <1>2, <1>3, <3>1
      <3>2. CASE index # k
        <4>1. index < k
          BY <1>3, <3>2
        <4> QED
          BY <1>2, <1>3, <4>1, UnitsOrder
      <3> QED
        BY <3>1, <3>2
    <2>2. ASSUME NEW u, u \in Span(part(k)), u \in Span(rest) PROVE FALSE
      <3>1. u \in Int /\ T - PoolUnits[index] <= u
        BY <2>2, <1>4a
      <3>2. u < T - PoolUnits[k]
        BY <2>2, <1>4a
      <3> HIDE DEF T
      <3> QED
        BY <1>4, <2>1, <3>1, <3>2
    <2> QED
      BY <2>2
  <1>7. SplitPieces(at, from, index) = {part(k) : k \in index .. (from - 1)} \cup {rest}
    BY DEF SplitPieces, part, rest
  <1>8. ASSUME NEW k \in index .. (from - 1), NEW u \in Span(part(k))
        PROVE  u \in Int /\ at <= u /\ u < T
    <2>1. u \in Int /\ T - PoolUnits[k + 1] <= u /\ u < T - PoolUnits[k]
      BY <1>4a
    <2>2. PoolUnits[k + 1] <= PoolUnits[from]
      <3>1. k + 1 \in 0 .. MAX_POOL_INDEX /\ (k + 1 < from \/ k + 1 = from)
        BY <1>3
      <3>2. k + 1 < from => PoolUnits[k + 1] < PoolUnits[from]
        BY <3>1, UnitsOrder
      <3> QED
        BY <1>2, <3>1, <3>2
    <2> QED
      BY <1>2, <1>3, <2>1, <2>2
  <1>9. ASSUME NEW u \in Span(rest)
        PROVE  u \in Int /\ at <= u /\ u < T
    <2>1. u \in Int /\ T - PoolUnits[index] <= u /\ u < T
      BY <1>4a
    <2>2. PoolUnits[index] <= PoolUnits[from]
      <3>1. index < from => PoolUnits[index] < PoolUnits[from]
        BY <1>3, UnitsOrder
      <3> QED
        BY <1>2, <1>3, <3>1
    <2> QED
      BY <1>2, <1>3, <2>1, <2>2
  <1>10. ASSUME NEW u \in Int, at <= u, u < T
         PROVE  u \in Span(rest) \/ \E k \in index .. (from - 1) : u \in Span(part(k))
    <2> DEFINE R == {n \in index .. from : T - u <= PoolUnits[n]}
    <2>1. from \in R
      BY <1>2, <1>3, <1>10
    <2>2. R \in SUBSET Nat
      BY <1>3
    <2>3. PICK n \in R : \A m \in R : n <= m
      <3> HIDE DEF R
      <3> QED
        BY <2>1, <2>2, LeastExists
    <2>4. n \in index .. from /\ n \in 0 .. MAX_POOL_INDEX /\ T - u <= PoolUnits[n]
      BY <1>3
    <2>5. CASE n = index
      <3>1. T - PoolUnits[index] <= u
        <4> HIDE DEF T
        <4> QED
          BY <1>2, <1>3, <1>4, <1>10, <2>4, <2>5
      <3> QED
        BY <1>10, <3>1, <1>4a
    <2>6. CASE n # index
      <3>1. n - 1 \in index .. (from - 1) /\ n - 1 \in index .. from /\ (n - 1) + 1 = n
            /\ n - 1 \in 0 .. MAX_POOL_INDEX
        BY <1>3, <2>4, <2>6
      <3>2. n - 1 \notin R
        <4> HIDE DEF R
        <4> QED
          BY <2>3, <2>4, <3>1
      <3>3. ~(T - u <= PoolUnits[n - 1])
        BY <3>1, <3>2
      <3>4. T - PoolUnits[n] <= u /\ u < T - PoolUnits[n - 1]
        <4> HIDE DEF T, R
        <4> QED
          BY <1>2, <1>4, <1>10, <2>4, <3>1, <3>3
      <3>5. u \in Span(part(n - 1))
        BY <1>10, <3>1, <3>4, <1>4a
      <3> QED
        BY <3>1, <3>5
    <2> QED
      BY <2>5, <2>6
  <1>11. \A u : u \in Units(at, PoolUnits[from]) <=> u \in Int /\ at <= u /\ u < T
    BY <1>2, UnitsIs
  <1> HIDE DEF T
  <1>12. ASSUME NEW x \in SplitPieces(at, from, index), NEW y \in SplitPieces(at, from, index),
                x # y
         PROVE  Span(x) \cap Span(y) = {}
    <2>1. x = rest \/ \E j \in index .. (from - 1) : x = part(j)
      BY <1>7
    <2>2. y = rest \/ \E j \in index .. (from - 1) : y = part(j)
      BY <1>7
    <2>3. CASE x = rest
      BY <1>6, <1>12, <2>2, <2>3
    <2>4. CASE y = rest
      BY <1>6, <1>12, <2>1, <2>4
    <2>5. CASE x # rest /\ y # rest
      <3>1. PICK j \in index .. (from - 1) : x = part(j)
        BY <2>1, <2>5
      <3>2. PICK k \in index .. (from - 1) : y = part(k)
        BY <2>2, <2>5
      <3>3. j < k \/ k < j
        <4>1. j # k
          BY <1>12, <3>1, <3>2
        <4> QED
          BY <1>3, <4>1
      <3>4. /\ j < k => Span(part(j)) \cap Span(part(k)) = {}
            /\ k < j => Span(part(k)) \cap Span(part(j)) = {}
        BY <1>5
      <3> QED
        BY <3>1, <3>2, <3>3, <3>4
    <2> QED
      BY <2>3, <2>4, <2>5
  <1>13. ASSUME NEW u
         PROVE  u \in Units(at, PoolUnits[from]) <=>
                  \E x \in SplitPieces(at, from, index) : u \in Span(x)
    <2>1. ASSUME u \in Units(at, PoolUnits[from])
          PROVE  \E x \in SplitPieces(at, from, index) : u \in Span(x)
      <3>1. u \in Span(rest) \/ \E k \in index .. (from - 1) : u \in Span(part(k))
        BY <1>10, <1>11, <2>1
      <3>2. rest \in SplitPieces(at, from, index)
            /\ \A k \in index .. (from - 1) : part(k) \in SplitPieces(at, from, index)
        BY <1>7
      <3> QED
        BY <3>1, <3>2
    <2>2. ASSUME NEW x \in SplitPieces(at, from, index), u \in Span(x)
          PROVE  u \in Units(at, PoolUnits[from])
      <3>1. x = rest \/ \E j \in index .. (from - 1) : x = part(j)
        BY <1>7
      <3> QED
        BY <1>8, <1>9, <1>11, <2>2, <3>1
    <2> QED
      BY <2>1, <2>2
  <1> QED
    BY <1>12, <1>13, PartitionFrom

\* They are aligned to their sizes when the block is.
LEMMA SplitAligned ==
  ASSUME NEW at \in Nat, NEW from \in 0 .. MAX_POOL_INDEX, NEW index \in 0 .. from,
         Multiple(at, PoolUnits[from])
  PROVE  /\ \A k \in index .. (from - 1) :
              Lower(at, from, k) \in Nat /\ Multiple(Lower(at, from, k), PoolUnits[k])
         /\ LastPart(at, from, index) \in Extent
         /\ LastPart(at, from, index).size = PoolUnits[index]
         /\ Multiple(LastPart(at, from, index).at, PoolUnits[index])
  <1>1. MAX_POOL_INDEX \in Nat
    BY UnitsDouble
  <1>2. ASSUME NEW j \in 0 .. from, NEW k \in 0 .. j
        PROVE  LET a == at + PoolUnits[from] - PoolUnits[j]
               IN a \in Nat /\ Multiple(a, PoolUnits[k]) /\ PoolUnits[k] \in Nat \ {0}
    <2> DEFINE F == PoolUnits[from]
               J == PoolUnits[j]
               d == PoolUnits[k]
    <2>1. /\ j \in 0 .. MAX_POOL_INDEX /\ k \in 0 .. MAX_POOL_INDEX
          /\ k <= j /\ j <= from /\ k <= from
      BY <1>1
    <2>2. d \in Nat /\ J \in Nat /\ d > 0 /\ Multiple(J, d)
      <3>1. d \in Nat /\ J \in Nat /\ d > 0 /\ \E q \in Nat : J = q * d
        BY <2>1, UnitsGrow, Zenon
      <3> QED
        BY <3>1 DEF Multiple
    <2>3. F \in Nat /\ Multiple(F, d)
      <3>1. F \in Nat /\ \E q \in Nat : F = q * d
        BY <2>1, UnitsGrow, Zenon
      <3> QED
        BY <3>1 DEF Multiple
    <2>4. J <= F
      <3>1. j < from => J < F
        BY <2>1, UnitsOrder
      <3>2. j = from => J = F
        OBVIOUS
      <3> HIDE DEF J, F, d
      <3> QED
        BY <1>1, <2>1, <2>2, <2>3, <3>1, <3>2
    <2> HIDE DEF F, J, d
    <2>5. Multiple(at, d)
      BY <2>2, <2>3, MultipleRules DEF F
    <2>6. at + F \in Nat /\ J <= at + F /\ d # 0
      BY <2>2, <2>3, <2>4
    <2>7. Multiple(at + F, d)
      BY <2>2, <2>3, <2>5, MultipleRules
    <2> DEFINE c == at + F
    <2>8. at + F - J = c - J /\ c - J \in Nat
      BY <2>2, <2>3, <2>6
    <2>9. Multiple(c - J, d)
      <3> HIDE DEF c
      <3>1. c \in Nat /\ J <= c /\ Multiple(c, d)
        BY <2>6, <2>7 DEF c
      <3> QED
        BY <2>2, <2>6, <3>1, MultipleRules
    <2> QED
      BY <2>2, <2>8, <2>9 DEF F, J, d
  <1>3. ASSUME NEW k \in index .. (from - 1)
        PROVE  Lower(at, from, k) \in Nat /\ Multiple(Lower(at, from, k), PoolUnits[k])
    <2>1. k + 1 \in 0 .. from /\ k \in 0 .. (k + 1)
      BY <1>1
    <2> QED
      BY <1>2, <2>1 DEF Lower
  <1>4. index \in 0 .. index
    BY <1>1
  <1>5. LET a == at + PoolUnits[from] - PoolUnits[index]
        IN a \in Nat /\ Multiple(a, PoolUnits[index]) /\ PoolUnits[index] \in Nat \ {0}
    BY <1>2, <1>4
  <1> QED
    BY <1>3, <1>5 DEF LastPart, Extent

-----------------------------------------------------------------------------
(***************************************************************************)
(* What the operations do to the lists and the buffers.                    *)
(***************************************************************************)

ListsOK(pools) ==
  /\ pools \in [PoolIndices -> Seq(Nat)]
  /\ \A k \in PoolIndices : ListOK(pools[k], PoolUnits[k])

\* The first list that is not empty, or a new page.
LEMMA SourceFinds ==
  ASSUME NEW pools, NEW index \in PoolIndices
  PROVE  LET k == SourceIndex(pools, index)
         IN /\ k \in 0 .. MAX_POOL_INDEX /\ index \in 0 .. k
            /\ k # MAX_POOL_INDEX => k \in PoolIndices /\ pools[k] # << >>
            /\ \A j \in index .. (k - 1) : pools[j] = << >>
  <1> DEFINE R == {k \in index .. MAX_POOL_INDEX : k = MAX_POOL_INDEX \/ pools[k] # << >>}
             Found(k) == /\ k = MAX_POOL_INDEX \/ pools[k] # << >>
                         /\ \A j \in index .. (k - 1) : pools[j] = << >>
  <1>1. MAX_POOL_INDEX \in Nat /\ index \in Nat /\ index <= MAX_POOL_INDEX
    BY UnitsDouble DEF PoolIndices
  <1>2. R \in SUBSET Nat /\ MAX_POOL_INDEX \in R
    BY <1>1
  <1>3. PICK k \in R : \A m \in R : k <= m
    <2> HIDE DEF R
    <2> QED
      BY <1>2, LeastExists
  <1>4. k \in index .. MAX_POOL_INDEX /\ (k = MAX_POOL_INDEX \/ pools[k] # << >>)
    OBVIOUS
  <1>5. ASSUME NEW j \in index .. (k - 1) PROVE pools[j] = << >>
    <2>1. j \in index .. MAX_POOL_INDEX /\ ~(k <= j)
      BY <1>1, <1>4
    <2>2. j \notin R
      BY <1>3, <2>1
    <2> QED
      BY <2>1, <2>2
  <1>6. Found(k)
    BY <1>4, <1>5
  <1> DEFINE f == SourceIndex(pools, index)
  <1>7. f \in index .. MAX_POOL_INDEX /\ Found(f)
    <2>1. f = CHOOSE x \in index .. MAX_POOL_INDEX : Found(x)
      BY DEF SourceIndex
    <2> HIDE DEF Found, f
    <2> QED
      BY <1>4, <1>6, <2>1, Zenon
  <1> HIDE DEF f
  <1>8. f \in 0 .. MAX_POOL_INDEX /\ index \in 0 .. f
        /\ (f # MAX_POOL_INDEX => f \in PoolIndices)
    BY <1>1, <1>7 DEF PoolIndices
  <1> QED
    BY <1>7, <1>8 DEF f

\* The lists after a block of the size from at address at was split down to index, and
\* the block itself, when it came from a list.
SplitLists(pools, at, from, index) ==
  [k \in PoolIndices |->
     IF k = from THEN Tail(pools[k])
     ELSE IF k \in index .. (from - 1) THEN <<Lower(at, from, k)>> \o pools[k]
     ELSE pools[k]]
SplitBlock(at, from) == IF from \in PoolIndices THEN {Block(from, at)} ELSE {}

\* The lists and the buffers after a split.
LEMMA SplitEffect ==
  ASSUME NEW pools, ListsOK(pools), NEW bufs, NEW at \in Nat,
         NEW from \in 0 .. MAX_POOL_INDEX, NEW index \in 0 .. from,
         \A j \in index .. (from - 1) : pools[j] = << >>,
         Multiple(at, PoolUnits[from]),
         from \in PoolIndices => pools[from] # << >> /\ at = Head(pools[from])
  PROVE  LET pools2 == SplitLists(pools, at, from, index)
         IN /\ ListsOK(pools2)
            /\ PoolPieces(pools2, bufs \cup {LastPart(at, from, index)}) =
                 (PoolPieces(pools, bufs) \ SplitBlock(at, from)) \cup SplitPieces(at, from, index)
            /\ SplitBlock(at, from) \subseteq PoolPieces(pools, bufs)
  <1> DEFINE pools2 == SplitLists(pools, at, from, index)
             Old == SplitBlock(at, from)
             New == SplitPieces(at, from, index)
             last1 == LastPart(at, from, index)
  <1>1. /\ MAX_POOL_INDEX \in Nat /\ index \in Nat /\ from \in Nat
        /\ from \notin index .. (from - 1)
        /\ \A k \in index .. (from - 1) : k \in PoolIndices /\ k # from /\ k \in 0 .. MAX_POOL_INDEX
        /\ \A k \in PoolIndices : k \in 0 .. MAX_POOL_INDEX
    BY UnitsDouble DEF PoolIndices
  <1>2. ASSUME NEW k \in PoolIndices, NEW a
        PROVE  Block(k, a) \in Old <=> k = from /\ a = at
    <2>1. k \in 0 .. MAX_POOL_INDEX
      BY <1>1
    <2>2. Block(k, a) = Block(from, at) <=> k = from /\ a = at
      BY <2>1, PieceShape
    <2> QED
      BY <2>2 DEF SplitBlock
  <1>3. ASSUME NEW k \in PoolIndices, NEW a
        PROVE  Block(k, a) \in New <=> k \in index .. (from - 1) /\ a = Lower(at, from, k)
    <2>1. Block(k, a) \in New <=>
            \/ \E j \in index .. (from - 1) : Block(k, a) = Block(j, Lower(at, from, j))
            \/ Block(k, a) = Buffer(last1)
      BY DEF SplitPieces
    <2> HIDE DEF New, last1
    <2>2. Block(k, a) # Buffer(last1)
      BY PieceShape
    <2>3. \A j \in index .. (from - 1) :
            Block(k, a) = Block(j, Lower(at, from, j)) <=> k = j /\ a = Lower(at, from, j)
      BY <1>1, PieceShape
    <2> QED
      BY <2>1, <2>2, <2>3, Zenon
  <1>4. \A k \in index .. (from - 1) :
          Lower(at, from, k) \in Nat /\ Multiple(Lower(at, from, k), PoolUnits[k])
    BY SplitAligned
  <1>5. \A k \in PoolIndices : ListOK(pools[k], PoolUnits[k])
    BY DEF ListsOK
  <1>6. ASSUME NEW k \in PoolIndices
        PROVE  /\ ListOK(pools2[k], PoolUnits[k])
               /\ \A a : a \in Members(pools2[k]) <=>
                           \/ a \in Members(pools[k]) /\ Block(k, a) \notin Old
                           \/ Block(k, a) \in New
    <2>1. CASE k = from
      <3>1. pools2[k] = Tail(pools[k])
        BY <2>1 DEF SplitLists
      <3>2. pools[k] # << >> /\ at = Head(pools[k]) /\ ListOK(pools[k], PoolUnits[k])
        BY <1>5, <2>1
      <3> HIDE DEF pools2, Old, New
      <3>3. /\ ListOK(Tail(pools[k]), PoolUnits[k])
            /\ Members(Tail(pools[k])) = Members(pools[k]) \ {at}
        BY <3>2, TailList
      <3>4. \A a : /\ Block(k, a) \in Old <=> a = at
                   /\ Block(k, a) \notin New
        BY <1>1, <1>2, <1>3, <2>1
      <3> QED
        BY <3>1, <3>3, <3>4
    <2>2. CASE k \in index .. (from - 1)
      <3> DEFINE x == Lower(at, from, k)
                 s == pools[k]
      <3>0. k # from
        BY <1>1, <2>2
      <3>1. pools2[k] = <<x>> \o s
        BY <2>2, <3>0 DEF SplitLists
      <3>2. ListOK(s, PoolUnits[k]) /\ x \in Nat /\ Multiple(x, PoolUnits[k])
        BY <1>4, <1>5, <2>2
      <3>3. Members(s) = {}
        <4>1. s = << >>
          BY <2>2
        <4> QED
          BY <4>1, EmptyList
      <3> HIDE DEF x, s, pools2, Old, New
      <3>4. ListOK(<<x>> \o s, PoolUnits[k]) /\ Members(<<x>> \o s) = Members(s) \cup {x}
        BY <3>2, <3>3, ConsList
      <3>5. \A a : Block(k, a) \in New <=> a = x
        BY <1>3, <2>2 DEF x
      <3>6. Members(pools[k]) = {}
        BY <3>3 DEF s
      <3> QED
        BY <3>1, <3>3, <3>4, <3>5, <3>6
    <2>3. CASE k # from /\ k \notin index .. (from - 1)
      <3>1. pools2[k] = pools[k]
        BY <2>3 DEF SplitLists
      <3> HIDE DEF pools2, Old, New
      <3>2. \A a : Block(k, a) \notin Old /\ Block(k, a) \notin New
        BY <1>2, <1>3, <2>3
      <3> QED
        BY <1>5, <3>1, <3>2
    <2> QED
      BY <2>1, <2>2, <2>3
  <1>7. ListsOK(pools2)
    <2>1. pools2 = [k \in PoolIndices |-> pools2[k]]
      BY DEF SplitLists
    <2> HIDE DEF pools2
    <2>2. \A k \in PoolIndices : pools2[k] \in Seq(Nat)
      BY <1>6 DEF ListOK
    <2>3. pools2 \in [PoolIndices -> Seq(Nat)]
      BY <2>1, <2>2
    <2> QED
      BY <1>6, <2>3 DEF ListsOK
  <1>8. \A x \in New : \/ \E k \in PoolIndices : \E a : x = Block(k, a)
                       \/ \E b \in bufs \cup {last1} : x = Buffer(b)
    <2> DEFINE L(k) == Block(k, Lower(at, from, k))
    <2>1. New = {L(k) : k \in index .. (from - 1)} \cup {Buffer(last1)}
      BY DEF SplitPieces
    <2>2. \A k : \E a : L(k) = Block(k, a)
      OBVIOUS
    <2> HIDE DEF New, L, last1
    <2>3. ASSUME NEW x \in New, x # Buffer(last1)
          PROVE  \E k \in PoolIndices : \E a : x = Block(k, a)
      <3>1. PICK k \in index .. (from - 1) : x = L(k)
        BY <2>1, <2>3
      <3>2. k \in PoolIndices
        BY <1>1
      <3> QED
        BY <2>2, <3>1, <3>2
    <2> QED
      BY <2>3
  <1>9. \A b : Buffer(b) \notin Old
    BY PieceShape, Zenon DEF SplitBlock
  <1>10. Buffer(last1) \in New
    BY DEF SplitPieces
  <1>11. Old \subseteq PoolPieces(pools, bufs)
    <2>1. ASSUME from \in PoolIndices PROVE Block(from, at) \in PoolPieces(pools, bufs)
      <3>1. at \in Members(pools[from])
        BY <1>5, <2>1, TailList
      <3> QED
        BY <2>1, <3>1, PoolPiecesIs
    <2> QED
      BY <2>1 DEF SplitBlock
  <1> HIDE DEF pools2, Old, New, last1
  <1>12. PoolPieces(pools2, bufs \cup {last1}) = (PoolPieces(pools, bufs) \ Old) \cup New
    <2> DEFINE bufs2 == bufs \cup {last1}
    <2>1. /\ \A b \in bufs2 : (b \in bufs /\ Buffer(b) \notin Old) \/ Buffer(b) \in New
          /\ \A b \in bufs : Buffer(b) \notin Old => b \in bufs2
      BY <1>9, <1>10
    <2>2. \A x \in New : \/ \E k \in PoolIndices : \E a : x = Block(k, a)
                         \/ \E b \in bufs2 : x = Buffer(b)
      BY <1>8
    <2>3. \A k \in PoolIndices : \A a :
            a \in Members(pools2[k]) <=> \/ a \in Members(pools[k]) /\ Block(k, a) \notin Old
                                         \/ Block(k, a) \in New
      BY <1>6
    <2> HIDE DEF bufs2
    <2>4. Changed(pools, bufs, pools2, bufs2, Old, New)
      BY <2>1, <2>2, <2>3, Zenon DEF Changed
    <2>5. PoolPieces(pools2, bufs2) = (PoolPieces(pools, bufs) \ Old) \cup New
      BY <2>4, PiecesChange
    <2> QED
      BY <2>5 DEF bufs2
  <1> QED
    BY <1>7, <1>11, <1>12 DEF pools2, Old, New, last1

\* A buffer of the pool lists, and one of whole pages.
PoolBuffer(b) == \E k \in PoolIndices : b.size = PoolUnits[k] /\ Multiple(b.at, PoolUnits[k])
PageBuffer(b) ==
  \E p \in Nat, n \in Nat \ {0} : b.at = p * PAGE_UNITS /\ b.size = n * PAGE_UNITS
BufferOK(b) == b \in Extent /\ (PoolBuffer(b) \/ PageBuffer(b))

\* The pages that belong to the allocators (ours) are the free ones and those that the
\* free blocks and the buffers make up.
Good(pages, pools, bufs, ours) ==
  /\ ours \in SUBSET (1 .. (ADDRESS_PAGES - 1))
  /\ IsList(pages) /\ FreePagesOf(pages) \subseteq ours
  /\ ListsOK(pools)
  /\ \A b \in bufs : BufferOK(b)
  /\ Partition(PoolPieces(pools, bufs), PageUnits(ours \ FreePagesOf(pages)))

\* The allocators' pages have numbers.
LEMMA OursType ==
  ASSUME NEW pages, NEW pools, NEW bufs, NEW ours, Good(pages, pools, bufs, ours)
  PROVE  /\ ours \subseteq Nat /\ 0 \notin ours
         /\ \A p \in ours : p \in Nat /\ p < ADDRESS_PAGES
         /\ FreePagesOf(pages) \subseteq Nat /\ ours \ FreePagesOf(pages) \subseteq Nat
  <1>1. ours \in SUBSET (1 .. (ADDRESS_PAGES - 1)) /\ FreePagesOf(pages) \subseteq ours
    BY DEF Good
  <1>2. ADDRESS_PAGES \in Nat
    BY HeapAssumption
  <1>3. \A p \in 1 .. (ADDRESS_PAGES - 1) : p \in Nat /\ p < ADDRESS_PAGES /\ p # 0
    BY <1>2
  <1> QED
    BY <1>1, <1>3

\* Free pages become pieces of the pool allocator.
LEMMA AdoptPages ==
  ASSUME NEW pages, NEW pools, NEW bufs, NEW ours, Good(pages, pools, bufs, ours),
         NEW n \in Nat \ {0}, NEW result, Granted(pages, n, result),
         NEW New, Partition(New, PageUnits(Run(result.memory, n))),
         NEW pools2, ListsOK(pools2), NEW bufs2, \A b \in bufs2 : BufferOK(b),
         PoolPieces(pools2, bufs2) = PoolPieces(pools, bufs) \cup New
  PROVE  Good(result.list, pools2, bufs2, ours)
  <1> DEFINE R == Run(result.memory, n)
             free == FreePagesOf(pages)
             left == FreePagesOf(result.list)
             S == PoolPieces(pools, bufs)
             U == PageUnits(ours \ free)
             W == PageUnits(R)
  <1>1. /\ R \subseteq free /\ left = free \ R /\ IsList(result.list) /\ free \subseteq ours
        /\ Partition(S, U) /\ ours \in SUBSET (1 .. (ADDRESS_PAGES - 1))
    BY DEF Granted, Good
  <1>2. ours \subseteq Nat /\ R \in SUBSET Nat /\ ours \ free \in SUBSET Nat
    BY <1>1, OursType
  <1> HIDE DEF R, free, left, S
  <1>3. W \cap U = {}
    <2>1. R \cap (ours \ free) = {}
      BY <1>1
    <2> QED
      BY <1>2, <2>1, PageUnitsSets
  <1>4. PageUnits(ours \ left) = U \cup W
    <2>1. ours \ left = (ours \ free) \cup R
      BY <1>1
    <2>2. PageUnits((ours \ free) \cup R) = PageUnits(ours \ free) \cup PageUnits(R)
      BY <1>2, PageUnitsSets, Zenon
    <2> QED
      BY <2>1, <2>2
  <1>5. Partition(New, W)
    BY DEF R
  <1> HIDE DEF U, W
  <1>6. Partition((S \ {}) \cup New, (U \ {}) \cup W)
    <2>1. W \cap (U \ {}) = {} /\ {} \in SUBSET S
      BY <1>3
    <2> QED
      BY <1>1, <1>5, <2>1, NoPiece, Exchange
  <1>7. Partition(S \cup New, U \cup W)
    <2>1. (S \ {}) \cup New = S \cup New /\ (U \ {}) \cup W = U \cup W
      OBVIOUS
    <2> QED
      BY <1>6, <2>1
  <1>8. Partition(PoolPieces(pools2, bufs2), PageUnits(ours \ left))
    BY <1>4, <1>7 DEF S
  <1>9. left \subseteq ours
    BY <1>1
  <1> QED
    BY <1>1, <1>8, <1>9 DEF Good, left

\* Pieces are exchanged for others in the same place.
LEMMA SwapPieces ==
  ASSUME NEW pages, NEW pools, NEW bufs, NEW ours, Good(pages, pools, bufs, ours),
         NEW Old \in SUBSET PoolPieces(pools, bufs), NEW New, NEW V,
         Partition(Old, V), Partition(New, V),
         NEW pools2, ListsOK(pools2), NEW bufs2, \A b \in bufs2 : BufferOK(b),
         PoolPieces(pools2, bufs2) = (PoolPieces(pools, bufs) \ Old) \cup New
  PROVE  Good(pages, pools2, bufs2, ours)
  <1> DEFINE S == PoolPieces(pools, bufs)
             U == PageUnits(ours \ FreePagesOf(pages))
  <1>1. Partition(S, U)
    BY DEF Good
  <1>2. V \subseteq U
    BY <1>1 DEF Partition
  <1> HIDE DEF S, U
  <1>3. Partition((S \ Old) \cup New, (U \ V) \cup V)
    <2>1. V \cap (U \ V) = {} /\ Old \in SUBSET S
      BY DEF S
    <2> QED
      BY <1>1, <2>1, Exchange
  <1>4. (U \ V) \cup V = U
    BY <1>2
  <1>5. Partition(PoolPieces(pools2, bufs2), U)
    BY <1>3, <1>4 DEF S
  <1> QED
    BY <1>5 DEF Good, U

\* No block of the lists from index on is free, and no page.
NoBlock(pages, pools, index) ==
  FreePagesOf(pages) = {} /\ \A k \in PoolIndices : index <= k => pools[k] = << >>

\* A block is found and split, or there is none and no page.
LEMMA AllocByIndexEffect ==
  ASSUME NEW pages, NEW pools, NEW bufs, NEW ours, Good(pages, pools, bufs, ours),
         NEW index \in PoolIndices
  PROVE  LET r == InternalAllocPoolByIndex(pages, pools, index)
         IN \/ /\ r.buffer \in Extent /\ r.buffer.size = PoolUnits[index]
               /\ Good(r.pages, r.pools, bufs \cup {r.buffer}, ours)
            \/ r = NoMemory(pages, pools) /\ NoBlock(pages, pools, index)
  <1> DEFINE from == SourceIndex(pools, index)
             page == InternalAllocMaxAddress(pages, 1, ADDRESS_PAGES)
             at == IF from = MAX_POOL_INDEX THEN page.memory * PAGE_UNITS ELSE Head(pools[from])
             pages2 == IF from = MAX_POOL_INDEX THEN page.list ELSE pages
             pools2 == SplitLists(pools, at, from, index)
             b == LastPart(at, from, index)
             r == InternalAllocPoolByIndex(pages, pools, index)
             Old == SplitBlock(at, from)
             New == SplitPieces(at, from, index)
  <1>1. r = IF from = MAX_POOL_INDEX /\ page.memory = NULL THEN NoMemory(pages, pools)
            ELSE [pages |-> pages2, pools |-> pools2, buffer |-> b]
    BY DEF InternalAllocPoolByIndex, SplitLists, LastPart, Lower
  <1>2. /\ from \in 0 .. MAX_POOL_INDEX /\ index \in 0 .. from
        /\ from # MAX_POOL_INDEX => from \in PoolIndices /\ pools[from] # << >>
        /\ \A j \in index .. (from - 1) : pools[j] = << >>
    BY SourceFinds
  <1>3. /\ IsList(pages) /\ ListsOK(pools) /\ \A c \in bufs : BufferOK(c)
        /\ FreePagesOf(pages) \subseteq ours
    BY DEF Good
  <1>4. \/ Granted(pages, 1, page)
        \/ /\ page = Failed(pages)
           /\ ~ \E p \in Nat : Run(p, 1) \subseteq FreePagesOf(pages) /\ p + 1 <= ADDRESS_PAGES
    <2>1. 1 \in Nat \ {0} /\ ADDRESS_PAGES \in Nat
      BY HeapAssumption
    <2> QED
      BY <1>3, <2>1, MaxAddressEffect
  <1>5. MAX_POOL_INDEX \in Nat \ {0} /\ PAGE_UNITS = PoolUnits[MAX_POOL_INDEX]
        /\ MAX_POOL_INDEX \notin PoolIndices /\ PAGE_UNITS \in Nat
    BY UnitsDouble DEF PoolIndices
  <1> HIDE DEF from, page, r
  <1>6. CASE from = MAX_POOL_INDEX /\ page.memory = NULL
    <2>1. r = NoMemory(pages, pools)
      BY <1>1, <1>6
    <2>2. ~ \E p \in Nat : Run(p, 1) \subseteq FreePagesOf(pages) /\ p + 1 <= ADDRESS_PAGES
      BY <1>4, <1>6 DEF Granted
    <2>3. ASSUME NEW p \in FreePagesOf(pages) PROVE FALSE
      <3>1. p \in Nat /\ p < ADDRESS_PAGES /\ ADDRESS_PAGES \in Nat
        BY <1>3, OursType, HeapAssumption
      <3>2. p + 1 <= ADDRESS_PAGES /\ Run(p, 1) = {p}
        BY <3>1 DEF Run
      <3> QED
        BY <2>2, <3>1, <3>2
    <2>4. ASSUME NEW k \in PoolIndices, index <= k PROVE pools[k] = << >>
      <3>1. k \in index .. (from - 1)
        BY <1>5, <1>6, <2>4 DEF PoolIndices
      <3> QED
        BY <1>2, <3>1
    <2>5. NoBlock(pages, pools, index)
      BY <2>3, <2>4 DEF NoBlock
    <2> QED
      BY <2>1, <2>5 DEF r
  <1>7. CASE ~(from = MAX_POOL_INDEX /\ page.memory = NULL)
    <2>1. r.pages = pages2 /\ r.pools = pools2 /\ r.buffer = b
      BY <1>1, <1>7
    <2>2. from = MAX_POOL_INDEX => Granted(pages, 1, page)
      BY <1>4, <1>7 DEF Failed
    <2>3. at \in Nat /\ Multiple(at, PoolUnits[from])
      <3>1. CASE from = MAX_POOL_INDEX
        <4>1. page.memory \in Nat /\ at = page.memory * PAGE_UNITS
          BY <2>2, <3>1 DEF Granted
        <4>2. at \in Nat
          BY <1>5, <4>1
        <4> HIDE DEF at
        <4>3. at = page.memory * PoolUnits[from]
          BY <1>5, <3>1, <4>1
        <4> QED
          BY <4>1, <4>2, <4>3 DEF Multiple
      <3>2. CASE from # MAX_POOL_INDEX
        <4>1. /\ from \in PoolIndices /\ pools[from] # << >> /\ at = Head(pools[from])
              /\ ListOK(pools[from], PoolUnits[from])
          BY <1>2, <1>3, <3>2 DEF ListsOK
        <4> HIDE DEF at
        <4>2. at \in Members(pools[from])
          BY <4>1, TailList
        <4>3. at \in Nat
          <5>1. pools[from] \in Seq(Nat)
            BY <4>1 DEF ListOK
          <5>2. \A i \in DOMAIN pools[from] : pools[from][i] \in Nat
            BY <5>1
          <5> QED
            BY <4>2, <5>2 DEF Members
        <4> QED
          BY <4>1, <4>2, <4>3 DEF ListOK
      <3> QED
        BY <3>1, <3>2
    <2>4. from \in PoolIndices => pools[from] # << >> /\ at = Head(pools[from])
      BY <1>2, <1>5
    <2> DEFINE bufs2 == bufs \cup {b}
    <2> HIDE DEF at
    <2>5. /\ ListsOK(pools2)
          /\ PoolPieces(pools2, bufs2) = (PoolPieces(pools, bufs) \ Old) \cup New
          /\ Old \subseteq PoolPieces(pools, bufs)
      BY <1>2, <1>3, <2>3, <2>4, SplitEffect
    <2>6. b \in Extent /\ b.size = PoolUnits[index] /\ Multiple(b.at, PoolUnits[index])
      BY <1>2, <2>3, SplitAligned
    <2>7. Partition(New, Units(at, PoolUnits[from]))
      BY <1>2, <2>3, SplitPartition
    <2> HIDE DEF b, pools2, New
    <2>8. \A c \in bufs2 : BufferOK(c)
      BY <1>3, <2>6 DEF BufferOK, PoolBuffer
    <2> HIDE DEF bufs2
    <2>9. Good(pages2, pools2, bufs2, ours)
      <3>1. CASE from = MAX_POOL_INDEX
        <4>1. pages2 = page.list /\ at = page.memory * PAGE_UNITS
          BY <3>1 DEF at
        <4>2. Granted(pages, 1, page) /\ page.memory \in Nat
          BY <2>2, <3>1 DEF Granted
        <4>3. Units(at, PoolUnits[from]) = PageUnits(Run(page.memory, 1))
          <5>1. 1 * PAGE_UNITS = PoolUnits[from]
            BY <1>5, <3>1
          <5> QED
            BY <4>1, <4>2, <5>1, RunUnits
        <4>4. Old = {}
          BY <1>5, <3>1 DEF SplitBlock
        <4> HIDE DEF Old, pages2
        <4>5. PoolPieces(pools2, bufs2) = PoolPieces(pools, bufs) \cup New
          BY <2>5, <4>4
        <4>6. Partition(New, PageUnits(Run(page.memory, 1))) /\ 1 \in Nat \ {0}
          BY <2>7, <4>3
        <4>7. Good(page.list, pools2, bufs2, ours)
          BY <2>5, <2>8, <4>2, <4>5, <4>6, AdoptPages
        <4> QED
          BY <4>1, <4>7
      <3>2. CASE from # MAX_POOL_INDEX
        <4>1. pages2 = pages /\ Old = {Block(from, at)}
          BY <1>2, <3>2 DEF SplitBlock
        <4>2. Span(Block(from, at)) = Units(at, PoolUnits[from])
          BY PieceShape, Zenon DEF Span
        <4> HIDE DEF Old, pages2
        <4>3. Partition(Old, Units(at, PoolUnits[from]))
          BY <4>1, <4>2, OnePiece
        <4>4. Good(pages, pools2, bufs2, ours)
          BY <2>5, <2>7, <2>8, <4>3, SwapPieces
        <4> QED
          BY <4>1, <4>4
      <3> QED
        BY <3>1, <3>2
    <2> QED
      BY <2>1, <2>6, <2>9 DEF bufs2, r
  <1> QED
    BY <1>6, <1>7

\* The pages that hold size units, and no more of them than it takes.
LEMMA PagesForIs ==
  ASSUME NEW size \in Nat \ {0}
  PROVE  LET n == PagesFor(size)
         IN /\ n \in Nat \ {0} /\ size <= n * PAGE_UNITS
            /\ \A m \in Nat : m < n => m * PAGE_UNITS < size
            /\ \A m \in Nat : size = m * PAGE_UNITS => n = m
  <1> DEFINE d == PAGE_UNITS
             u == size + d - 1
             n == PagesFor(size)
  <1>1. d \in Nat \ {0}
    BY PageUnitsType
  <1>2. u \in Nat /\ n = u \div d
    BY <1>1 DEF PagesFor
  <1> HIDE DEF d, n
  <1>3. u = (size - 1) + d
    BY <1>1
  <1> HIDE DEF u
  <1>4. /\ n \in Nat /\ n * d <= u /\ u < n * d + d
        /\ \A m \in Nat : m * d <= u /\ u < m * d + d => m = n
    BY <1>1, <1>2, PageOfUnit
  <1> DEFINE p == n * d
  <1>5. p \in Nat
    BY <1>1, <1>4
  <1>6. p <= u /\ u < p + d
    BY <1>4
  <1>7. n = 0 => p = 0
    BY <1>1, <1>4
  <1> HIDE DEF p
  <1>8. size <= p /\ p - d < size /\ n # 0
    BY <1>1, <1>3, <1>5, <1>6, <1>7
  <1>9. ASSUME NEW m \in Nat, m < n PROVE m * d < size
    <2>1. m + 1 <= n /\ m + 1 \in Nat
      BY <1>4, <1>9
    <2>2. (m + 1) * d <= p
      BY <1>1, <1>4, <2>1, ScaledOrder DEF p
    <2>3. (m + 1) * d = m * d + d /\ m * d \in Nat
      BY <1>1
    <2> QED
      BY <1>1, <1>5, <1>8, <2>2, <2>3
  <1>10. ASSUME NEW m \in Nat, size = m * d PROVE n = m
    <2> DEFINE c == m * d
    <2>1. c <= u /\ u < c + d
      <3>1. size = c
        BY <1>10
      <3> HIDE DEF c
      <3> QED
        BY <1>1, <1>3, <3>1
    <2> QED
      BY <1>4, <2>1
  <1> QED
    BY <1>4, <1>8, <1>9, <1>10 DEF d, n, p

\* Nothing free is large enough for size units.
NothingFits(pages, pools, size) ==
  /\ \A k \in PoolIndices : pools[k] # << >> => PoolUnits[k] < size
  /\ \A i \in 1 .. Len(pages) : pages[i].pages * PAGE_UNITS < size

\* The request was served, with a buffer large enough and of no memory that was in use.
Served(r, bufs, ours, size) ==
  /\ r.buffer \in Extent /\ size <= r.buffer.size
  /\ Good(r.pages, r.pools, bufs \cup {r.buffer}, ours)

\* A request above the largest block takes whole pages, if there is a run of enough.
LEMMA AllocLargeEffect ==
  ASSUME NEW pages, NEW pools, NEW bufs, NEW ours, Good(pages, pools, bufs, ours),
         NEW size \in Nat \ {0}, size > MAX_POOL_SIZE
  PROVE  LET r == AllocateUnits(pages, pools, size)
         IN \/ Served(r, bufs, ours, size)
            \/ r = NoMemory(pages, pools) /\ NothingFits(pages, pools, size)
  <1> DEFINE n == PagesFor(size)
             got == InternalAllocMaxAddress(pages, n, ADDRESS_PAGES)
             b == [at |-> got.memory * PAGE_UNITS, size |-> n * PAGE_UNITS]
             r == AllocateUnits(pages, pools, size)
  <1>1. r = IF got.memory = NULL THEN NoMemory(pages, pools)
            ELSE [pages |-> got.list, pools |-> pools, buffer |-> b]
    BY DEF AllocateUnits
  <1>2. /\ n \in Nat \ {0} /\ size <= n * PAGE_UNITS
        /\ \A m \in Nat : m < n => m * PAGE_UNITS < size
    BY PagesForIs
  <1>3. /\ IsList(pages) /\ ListsOK(pools) /\ \A c \in bufs : BufferOK(c)
        /\ FreePagesOf(pages) \subseteq ours
    BY DEF Good
  <1>4. ADDRESS_PAGES \in Nat /\ PAGE_UNITS \in Nat \ {0}
    BY HeapAssumption, PageUnitsType
  <1> HIDE DEF n
  <1>5. \/ Granted(pages, n, got)
        \/ /\ got = Failed(pages)
           /\ ~ \E p \in Nat : Run(p, n) \subseteq FreePagesOf(pages) /\ p + n <= ADDRESS_PAGES
    BY <1>2, <1>3, <1>4, MaxAddressEffect
  <1> HIDE DEF got, r
  <1>6. CASE got.memory = NULL
    <2>1. r = NoMemory(pages, pools)
      BY <1>1, <1>6
    <2>2. ~ \E p \in Nat : Run(p, n) \subseteq FreePagesOf(pages) /\ p + n <= ADDRESS_PAGES
      BY <1>5, <1>6 DEF Granted
    <2>3. ASSUME NEW i \in 1 .. Len(pages) PROVE pages[i].pages * PAGE_UNITS < size
      <3> DEFINE node == pages[i]
      <3>1. Sorted(pages, {}) /\ pages \in Seq(FreeNode) /\ node.pages > 0
        BY <1>3 DEF IsList, Sorted
      <3>2. node.page \in Nat /\ node.pages \in Nat
        BY <3>1, NodeType
      <3>3. Run(node.page, node.pages) \subseteq FreePagesOf(pages)
        <4>1. DOMAIN pages = 1 .. Len(pages)
          BY <3>1, LenProperties
        <4> QED
          BY <4>1 DEF FreePagesOf
      <3> HIDE DEF node
      <3>4. node.page + node.pages <= ADDRESS_PAGES
        <4>1. node.page + node.pages - 1 \in Run(node.page, node.pages)
          BY <3>1, <3>2 DEF Run
        <4>2. node.page + node.pages - 1 < ADDRESS_PAGES
          BY <1>3, <3>3, <4>1, OursType
        <4> QED
          BY <1>4, <3>2, <4>2
      <3>5. node.pages < n
        <4>1. CASE n <= node.pages
          <5>1. node.page + n <= node.page + node.pages /\ node.page + n <= ADDRESS_PAGES
            BY <1>2, <1>4, <3>2, <3>4, <4>1
          <5>2. Run(node.page, n) \subseteq Run(node.page, node.pages)
            BY <1>2, <3>2, <5>1, RunWithin
          <5> QED
            BY <2>2, <3>2, <3>3, <5>1, <5>2
        <4> QED
          BY <1>2, <3>2, <4>1
      <3> QED
        BY <1>2, <3>2, <3>5 DEF node
    <2>4. ASSUME NEW k \in PoolIndices PROVE PoolUnits[k] < size
      <3>1. /\ MAX_POOL_INDEX \in Nat \ {0} /\ k \in 0 .. MAX_POOL_INDEX
            /\ MAX_POOL_INDEX - 1 \in 0 .. MAX_POOL_INDEX /\ k <= MAX_POOL_INDEX - 1
        BY UnitsDouble DEF PoolIndices
      <3>2. MAX_POOL_SIZE = PoolUnits[MAX_POOL_INDEX - 1]
        BY UnitsDouble
      <3>3. PoolUnits[k] \in Nat /\ PoolUnits[MAX_POOL_INDEX - 1] \in Nat
        BY <3>1, UnitsDouble
      <3>4. k < MAX_POOL_INDEX - 1 => PoolUnits[k] < PoolUnits[MAX_POOL_INDEX - 1]
        BY <3>1, UnitsOrder
      <3>5. k < MAX_POOL_INDEX - 1 \/ k = MAX_POOL_INDEX - 1
        BY <3>1
      <3>6. PoolUnits[k] <= MAX_POOL_SIZE
        BY <3>2, <3>3, <3>4, <3>5
      <3> QED
        BY <3>2, <3>3, <3>6
    <2> QED
      BY <2>1, <2>3, <2>4 DEF NothingFits, r
  <1>7. CASE got.memory # NULL
    <2>1. r.pages = got.list /\ r.pools = pools /\ r.buffer = b
      BY <1>1, <1>7
    <2>2. Granted(pages, n, got) /\ got.memory \in Nat
      BY <1>5, <1>7 DEF Granted, Failed
    <2>3. b.at = got.memory * PAGE_UNITS /\ b.size = n * PAGE_UNITS
      OBVIOUS
    <2>4. b \in Extent
      <3>1. got.memory * PAGE_UNITS \in Nat
        BY <1>4, <2>2
      <3>2. n * PAGE_UNITS \in Nat
        BY <1>2, <1>4
      <3>3. n * PAGE_UNITS # 0
        BY <1>2, <3>2
      <3> QED
        BY <3>1, <3>2, <3>3, Zenon DEF Extent
    <2> HIDE DEF b
    <2> DEFINE bufs2 == bufs \cup {b}
               New == {Buffer(b)}
    <2>5. \A c \in bufs2 : BufferOK(c)
      <3>1. PageBuffer(b)
        BY <1>2, <2>2, <2>3 DEF PageBuffer
      <3> QED
        BY <1>3, <2>4, <3>1 DEF BufferOK
    <2>6. Partition(New, PageUnits(Run(got.memory, n)))
      <3>1. Span(Buffer(b)) = Units(got.memory * PAGE_UNITS, n * PAGE_UNITS)
        BY <2>3, PieceShape, Zenon DEF Span
      <3>2. Span(Buffer(b)) = PageUnits(Run(got.memory, n))
        BY <1>2, <2>2, <3>1, RunUnits
      <3> QED
        BY <3>2, OnePiece
    <2>7. PoolPieces(pools, bufs2) = PoolPieces(pools, bufs) \cup New
      BY DEF PoolPieces
    <2> HIDE DEF bufs2, New
    <2>8. Good(got.list, pools, bufs2, ours)
      BY <1>2, <1>3, <2>2, <2>5, <2>6, <2>7, AdoptPages
    <2>9. Good(r.pages, r.pools, bufs \cup {r.buffer}, ours)
      BY <2>1, <2>8 DEF bufs2
    <2>10. r.buffer \in Extent /\ size <= r.buffer.size
      BY <1>2, <2>1, <2>3, <2>4
    <2> QED
      BY <2>9, <2>10 DEF Served, r
  <1> QED
    BY <1>6, <1>7

\* A request is served, or nothing that is free would do.
LEMMA AllocateEffect ==
  ASSUME NEW pages, NEW pools, NEW bufs, NEW ours, Good(pages, pools, bufs, ours),
         NEW size \in Nat \ {0}
  PROVE  LET r == AllocateUnits(pages, pools, size)
         IN \/ Served(r, bufs, ours, size)
            \/ r = NoMemory(pages, pools) /\ NothingFits(pages, pools, size)
  <1>1. CASE size > MAX_POOL_SIZE
    BY <1>1, AllocLargeEffect
  <1>2. CASE ~(size > MAX_POOL_SIZE)
    <2> DEFINE index == PoolIndex(size)
               r == InternalAllocPoolByIndex(pages, pools, index)
    <2>1. AllocateUnits(pages, pools, size) = r
      BY <1>2 DEF AllocateUnits
    <2>2. MAX_POOL_SIZE \in Nat
      <3>1. MAX_POOL_INDEX \in Nat \ {0} /\ MAX_POOL_INDEX - 1 \in 0 .. MAX_POOL_INDEX
        BY UnitsDouble
      <3> QED
        BY <3>1, UnitsDouble
    <2>3. /\ index \in PoolIndices /\ size <= PoolUnits[index]
          /\ \A k \in PoolIndices : k < index => PoolUnits[k] < size
      <3>1. size <= MAX_POOL_SIZE
        BY <1>2, <2>2
      <3> QED
        BY <3>1, PoolIndexIs
    <2> HIDE DEF index
    <2>4. \/ /\ r.buffer \in Extent /\ r.buffer.size = PoolUnits[index]
             /\ Good(r.pages, r.pools, bufs \cup {r.buffer}, ours)
          \/ r = NoMemory(pages, pools) /\ NoBlock(pages, pools, index)
      BY <2>3, AllocByIndexEffect
    <2> HIDE DEF r
    <2>5. ASSUME NoBlock(pages, pools, index) PROVE NothingFits(pages, pools, size)
      <3>1. ASSUME NEW k \in PoolIndices, pools[k] # << >> PROVE PoolUnits[k] < size
        <4>1. ~(index <= k)
          BY <2>5, <3>1 DEF NoBlock
        <4>2. k < index
          BY <2>3, <4>1, UnitsDouble DEF PoolIndices
        <4> QED
          BY <2>3, <4>2
      <3>2. ASSUME NEW i \in 1 .. Len(pages) PROVE FALSE
        <4>1. pages \in Seq(FreeNode) /\ pages[i].pages > 0
          BY DEF Good, IsList, Sorted
        <4>2. pages[i].page \in Nat /\ pages[i].pages \in Nat
          BY <4>1, NodeType
        <4>3. pages[i].page \in FreePagesOf(pages)
          <5>1. pages[i].page < EndOf(pages[i])
            BY <4>1, <4>2 DEF EndOf
          <5> QED
            BY <4>1, <4>2, <5>1, FreePagesIs
        <4> QED
          BY <2>5, <4>3 DEF NoBlock
      <3> QED
        BY <3>1, <3>2 DEF NothingFits
    <2>6. r.buffer.size = PoolUnits[index] => size <= r.buffer.size
      BY <2>3
    <2> QED
      BY <2>1, <2>4, <2>5, <2>6 DEF Served
  <1> QED
    BY <1>1, <1>2

\* A block freed goes to its list.
LEMMA FreeBlockEffect ==
  ASSUME NEW pages, NEW pools, NEW bufs, NEW ours, Good(pages, pools, bufs, ours),
         NEW b \in bufs, NEW k \in PoolIndices,
         b.size = PoolUnits[k], Multiple(b.at, PoolUnits[k])
  PROVE  Good(pages, [pools EXCEPT ![k] = <<b.at>> \o @], bufs \ {b}, ours)
  <1> DEFINE at == b.at
             s == pools[k]
             pools2 == [pools EXCEPT ![k] = <<at>> \o @]
             bufs2 == bufs \ {b}
             Old == {Buffer(b)}
             New == {Block(k, at)}
  <1>1. /\ ListsOK(pools) /\ \A c \in bufs : BufferOK(c)
        /\ Partition(PoolPieces(pools, bufs), PageUnits(ours \ FreePagesOf(pages)))
    BY DEF Good
  <1>2. b \in Extent /\ at \in Nat
    BY <1>1 DEF BufferOK, Extent
  <1>3. /\ pools \in [PoolIndices -> Seq(Nat)] /\ ListOK(s, PoolUnits[k])
        /\ \A j \in PoolIndices : ListOK(pools[j], PoolUnits[j])
    BY <1>1 DEF ListsOK
  <1>4. /\ k \in 0 .. MAX_POOL_INDEX /\ PoolUnits[k] \in Nat /\ PoolUnits[k] > 0
        /\ \A j \in PoolIndices : j \in 0 .. MAX_POOL_INDEX
    <2>1. \A j \in PoolIndices : j \in 0 .. MAX_POOL_INDEX
      BY UnitsDouble
    <2>2. k \in Nat /\ k <= k
      BY UnitsDouble
    <2> QED
      BY <2>1, <2>2, UnitsGrow
  <1>5. Span(Buffer(b)) = Units(at, PoolUnits[k]) /\ Span(Block(k, at)) = Units(at, PoolUnits[k])
    BY PieceShape, Zenon DEF Span
  <1>6. Buffer(b) \in PoolPieces(pools, bufs)
    BY PoolPiecesIs
  <1>7. Block(k, at) # Buffer(b)
    BY PieceShape
  <1> HIDE DEF at
  <1>8. at \notin Members(s)
    <2>1. ASSUME at \in Members(s) PROVE FALSE
      <3>1. Block(k, at) \in PoolPieces(pools, bufs)
        BY <2>1, PoolPiecesIs
      <3>2. Units(at, PoolUnits[k]) \cap Units(at, PoolUnits[k]) = {}
        BY <1>1, <1>5, <1>6, <1>7, <3>1 DEF Partition
      <3>3. at \in Units(at, PoolUnits[k])
        BY <1>2, <1>4, UnitsIs
      <3> QED
        BY <3>2, <3>3
    <2> QED
      BY <2>1
  <1>9. ListOK(<<at>> \o s, PoolUnits[k]) /\ Members(<<at>> \o s) = Members(s) \cup {at}
    <2>1. Multiple(at, PoolUnits[k])
      BY DEF at
    <2> HIDE DEF s
    <2> QED
      BY <1>2, <1>3, <1>8, <2>1, ConsList
  <1>10. pools2[k] = <<at>> \o s /\ \A j \in PoolIndices : j # k => pools2[j] = pools[j]
    BY <1>3
  <1>11. DOMAIN pools2 = PoolIndices /\ pools2 = [j \in PoolIndices |-> pools2[j]]
    BY <1>3
  <1> HIDE DEF pools2
  <1>12. ListsOK(pools2)
    <2>1. \A j \in PoolIndices : ListOK(pools2[j], PoolUnits[j])
      BY <1>3, <1>9, <1>10
    <2>2. \A j \in PoolIndices : pools2[j] \in Seq(Nat)
      BY <2>1 DEF ListOK
    <2>3. pools2 \in [PoolIndices -> Seq(Nat)]
      BY <1>11, <2>2
    <2> QED
      BY <2>1, <2>3 DEF ListsOK
  <1>13. Changed(pools, bufs, pools2, bufs2, Old, New)
    <2>1. ASSUME NEW j \in PoolIndices, NEW a
          PROVE  a \in Members(pools2[j]) <=>
                   \/ a \in Members(pools[j]) /\ Block(j, a) \notin Old
                   \/ Block(j, a) \in New
      <3>1. Block(j, a) # Buffer(b)
        BY PieceShape
      <3>2. Block(j, a) = Block(k, at) <=> j = k /\ a = at
        BY <1>4, PieceShape
      <3>3. a \in Members(pools2[j]) <=> a \in Members(pools[j]) \/ (j = k /\ a = at)
        BY <1>9, <1>10
      <3> QED
        BY <3>1, <3>2, <3>3
    <2>2. \A x \in New : \E j \in PoolIndices : \E a : x = Block(j, a)
      OBVIOUS
    <2>3. ASSUME NEW c \in bufs PROVE Buffer(c) = Buffer(b) <=> c = b
      <3>1. c \in Extent
        BY <1>1 DEF BufferOK
      <3> QED
        BY <1>2, <3>1, PieceShape
    <2>4. /\ \A c \in bufs2 : c \in bufs /\ Buffer(c) \notin Old
          /\ \A c \in bufs : Buffer(c) \notin Old => c \in bufs2
      BY <2>3
    <2> HIDE DEF Old, New, bufs2
    <2> QED
      BY <2>1, <2>2, <2>4, Zenon DEF Changed
  <1>14. Partition(Old, Units(at, PoolUnits[k])) /\ Partition(New, Units(at, PoolUnits[k]))
    BY <1>5, OnePiece
  <1>15. Old \in SUBSET PoolPieces(pools, bufs) /\ \A c \in bufs2 : BufferOK(c)
    BY <1>1, <1>6
  <1> HIDE DEF Old, New, bufs2
  <1>16. PoolPieces(pools2, bufs2) = (PoolPieces(pools, bufs) \ Old) \cup New
    BY <1>13, PiecesChange
  <1>17. Good(pages, pools2, bufs2, ours)
    BY <1>12, <1>14, <1>15, <1>16, SwapPieces
  <1> QED
    BY <1>17 DEF pools2, bufs2, at

\* Pages whose units are all among those of a set of pages are in the set.
LEMMA PagesWithin ==
  ASSUME NEW R \in SUBSET Nat, NEW T \in SUBSET Nat, PageUnits(R) \subseteq PageUnits(T)
  PROVE  R \subseteq T
  <1>1. ASSUME NEW p \in R PROVE p \in T
    <2> DEFINE u == p * PAGE_UNITS
    <2>1. PAGE_UNITS \in Nat \ {0} /\ p \in Nat
      BY PageUnitsType
    <2>2. u \in Nat /\ p * PAGE_UNITS <= u /\ u < p * PAGE_UNITS + PAGE_UNITS
      BY <2>1
    <2>3. p = u \div PAGE_UNITS
      <3> HIDE DEF u
      <3> QED
        BY <2>1, <2>2, PageOfUnit
    <2> HIDE DEF u
    <2>4. u \in PageUnits(T)
      BY <2>2, <2>3, PageUnitsIs
    <2> QED
      BY <2>3, <2>4, PageUnitsIs
  <1> QED
    BY <1>1

\* A buffer of pages freed goes to the page allocator, which takes it.
LEMMA FreePagesEffect ==
  ASSUME NEW pages, NEW pools, NEW bufs, NEW ours, Good(pages, pools, bufs, ours),
         NEW b \in bufs, NEW p \in Nat, NEW n \in Nat \ {0},
         b.at = p * PAGE_UNITS, b.size = n * PAGE_UNITS
  PROVE  Good(MmInternalFreePages(pages, p, n).list, pools, bufs \ {b}, ours)
  <1> DEFINE R == Run(p, n)
             free == FreePagesOf(pages)
             list == MmInternalFreePages(pages, p, n).list
             S == PoolPieces(pools, bufs)
             U == PageUnits(ours \ free)
             V == PageUnits(R)
             bufs2 == bufs \ {b}
             Old == {Buffer(b)}
  <1>1. /\ ListsOK(pools) /\ \A c \in bufs : BufferOK(c)
        /\ IsList(pages) /\ free \subseteq ours
        /\ Partition(S, U) /\ ours \in SUBSET (1 .. (ADDRESS_PAGES - 1))
    BY DEF Good
  <1>2. ours \subseteq Nat /\ 0 \notin ours /\ ours \ free \in SUBSET Nat
    BY OursType
  <1>3. R \in SUBSET Nat
    BY DEF Run
  <1>4. Span(Buffer(b)) = V
    <2>1. Span(Buffer(b)) = Units(p * PAGE_UNITS, n * PAGE_UNITS)
      BY PieceShape, Zenon DEF Span
    <2> QED
      BY <2>1, RunUnits
  <1>5. Partition(Old, V)
    BY <1>4, OnePiece
  <1>6. Old \in SUBSET S
    BY PoolPiecesIs
  <1>7. PoolPieces(pools, bufs2) = S \ Old
    <2>1. ASSUME NEW c \in bufs PROVE Buffer(c) = Buffer(b) <=> c = b
      <3>1. c \in Extent /\ b \in Extent
        BY <1>1 DEF BufferOK
      <3> QED
        BY <3>1, PieceShape
    <2>2. \A k, a : Block(k, a) # Buffer(b)
      BY PieceShape
    <2>3. /\ \A c \in bufs2 : c \in bufs /\ Buffer(c) \notin Old
          /\ \A c \in bufs : Buffer(c) \notin Old => c \in bufs2
          /\ \A k, a : Block(k, a) \notin Old
      BY <2>1, <2>2
    <2> HIDE DEF Old, bufs2
    <2>4. Changed(pools, bufs, pools, bufs2, Old, {})
      BY <2>3 DEF Changed
    <2>5. PoolPieces(pools, bufs2) = (PoolPieces(pools, bufs) \ Old) \cup {}
      BY <2>4, PiecesChange
    <2> QED
      BY <2>5
  <1> HIDE DEF R, free, S, Old
  <1>8. V \subseteq U
    BY <1>1, <1>5, <1>6 DEF Partition
  <1>9. R \subseteq ours \ free
    BY <1>2, <1>3, <1>8, PagesWithin
  <1>10. Sorted(list, {}) /\ FreePagesOf(list) = free \cup R
    <2>1. Sorted(pages, {}) /\ R \cap free = {}
      BY <1>1, <1>9 DEF IsList
    <2> QED
      BY <2>1, FreeEffect DEF R, free
  <1> HIDE DEF list
  <1>11. IsList(list) /\ FreePagesOf(list) \subseteq ours
    BY <1>1, <1>2, <1>9, <1>10 DEF IsList, NULL
  <1>12. PageUnits(ours \ FreePagesOf(list)) = U \ V
    <2>1. ours \ FreePagesOf(list) = (ours \ free) \ R
      BY <1>10
    <2>2. PageUnits((ours \ free) \ R) = PageUnits(ours \ free) \ PageUnits(R)
      BY <1>2, <1>3, PageUnitsSets, Zenon
    <2> QED
      BY <2>1, <2>2
  <1> HIDE DEF U, V
  <1>13. Partition((S \ Old) \cup {}, (U \ V) \cup {})
    <2>1. {} \cap (U \ V) = {}
      OBVIOUS
    <2> QED
      BY <1>1, <1>5, <1>6, <2>1, NoPiece, Exchange
  <1>14. Partition(PoolPieces(pools, bufs2), PageUnits(ours \ FreePagesOf(list)))
    <2>1. (S \ Old) \cup {} = S \ Old /\ (U \ V) \cup {} = U \ V
      OBVIOUS
    <2> QED
      BY <1>7, <1>12, <1>13, <2>1
  <1>15. \A c \in bufs2 : BufferOK(c)
    BY <1>1
  <1> QED
    BY <1>1, <1>11, <1>14, <1>15 DEF Good, list

\* A buffer freed goes where it came from.
LEMMA FreeBufferEffect ==
  ASSUME NEW pages, NEW pools, NEW bufs, NEW ours, Good(pages, pools, bufs, ours),
         NEW b \in bufs
  PROVE  LET r == MmInternalFreePool(pages, pools, b)
         IN Good(r.pages, r.pools, bufs \ {b}, ours)
  <1> DEFINE r == MmInternalFreePool(pages, pools, b)
  <1>1. b \in Extent /\ (PoolBuffer(b) \/ PageBuffer(b))
    BY DEF Good, BufferOK
  <1>2. /\ MAX_POOL_INDEX \in Nat \ {0} /\ MAX_POOL_INDEX - 1 \in PoolIndices
        /\ MAX_POOL_INDEX - 1 \in 0 .. MAX_POOL_INDEX
        /\ \A k \in PoolIndices : k \in 0 .. MAX_POOL_INDEX /\ ~(MAX_POOL_INDEX - 1 < k)
    BY UnitsDouble DEF PoolIndices
  <1>3. /\ MAX_POOL_SIZE \in Nat /\ MAX_POOL_SIZE = PoolUnits[MAX_POOL_INDEX - 1]
        /\ PAGE_UNITS = 2 * MAX_POOL_SIZE
    <2>1. (MAX_POOL_INDEX - 1) + 1 = MAX_POOL_INDEX
      BY <1>2
    <2> QED
      BY <1>2, <2>1, UnitsDouble
  <1>4. CASE PoolBuffer(b)
    <2>1. PICK k \in PoolIndices : b.size = PoolUnits[k] /\ Multiple(b.at, PoolUnits[k])
      BY <1>4 DEF PoolBuffer
    <2>2. ~(b.size > MAX_POOL_SIZE)
      <3>1. ~(PoolUnits[MAX_POOL_INDEX - 1] < PoolUnits[k])
        BY <1>2, UnitsOrder
      <3>2. PoolUnits[k] \in Nat
        BY <1>2, UnitsDouble
      <3> QED
        BY <1>3, <2>1, <3>1, <3>2
    <2>3. HighBitSet(b.size) = k
      BY <2>1, HighBitOfBlock
    <2>4. r.pages = pages /\ r.pools = [pools EXCEPT ![k] = <<b.at>> \o @]
      BY <2>2, <2>3 DEF MmInternalFreePool
    <2> HIDE DEF r
    <2>5. Good(pages, [pools EXCEPT ![k] = <<b.at>> \o @], bufs \ {b}, ours)
      BY <2>1, FreeBlockEffect
    <2> QED
      BY <2>4, <2>5 DEF r
  <1>5. CASE PageBuffer(b)
    <2>1. PICK p \in Nat, n \in Nat \ {0} : b.at = p * PAGE_UNITS /\ b.size = n * PAGE_UNITS
      BY <1>5 DEF PageBuffer
    <2>2. PAGE_UNITS \in Nat \ {0}
      BY PageUnitsType
    <2>3. b.size > MAX_POOL_SIZE
      <3>1. 1 * PAGE_UNITS <= n * PAGE_UNITS
        BY <2>2, ScaledOrder
      <3>2. n * PAGE_UNITS \in Nat /\ 1 * PAGE_UNITS = PAGE_UNITS
        BY <2>2
      <3> DEFINE m == n * PAGE_UNITS
      <3>3. b.size = m
        BY <2>1
      <3> HIDE DEF m
      <3> QED
        BY <1>3, <2>2, <3>1, <3>2, <3>3 DEF m
    <2>4. b.at \div PAGE_UNITS = p
      <3> DEFINE u == p * PAGE_UNITS
      <3>1. u \in Nat /\ p * PAGE_UNITS <= u /\ u < p * PAGE_UNITS + PAGE_UNITS
        BY <2>2
      <3>2. b.at = u
        BY <2>1
      <3> HIDE DEF u
      <3> QED
        BY <2>2, <3>1, <3>2, PageOfUnit
    <2>5. PagesFor(b.size) = n
      <3>1. b.size \in Nat \ {0}
        BY <1>1 DEF Extent
      <3> QED
        BY <2>1, <3>1, PagesForIs
    <2>6. r.pages = MmInternalFreePages(pages, p, n).list /\ r.pools = pools
      BY <2>3, <2>4, <2>5 DEF MmInternalFreePool
    <2> HIDE DEF r
    <2>7. Good(MmInternalFreePages(pages, p, n).list, pools, bufs \ {b}, ours)
      BY <2>1, FreePagesEffect
    <2> QED
      BY <2>6, <2>7 DEF r
  <1> QED
    BY <1>1, <1>4, <1>5

\* Pages handed to or taken back from a caller of the page allocator are not the pools'.
LEMMA PagesLeave ==
  ASSUME NEW pages, NEW pools, NEW bufs, NEW ours, Good(pages, pools, bufs, ours),
         NEW list, IsList(list), NEW ours2 \in SUBSET (1 .. (ADDRESS_PAGES - 1)),
         FreePagesOf(list) \subseteq ours2,
         ours2 \ FreePagesOf(list) = ours \ FreePagesOf(pages)
  PROVE  Good(list, pools, bufs, ours2)
BY DEF Good

-----------------------------------------------------------------------------
(***************************************************************************)
(* The invariant.                                                          *)
(***************************************************************************)

\* The units that MmInternalAllocatePool looks for.
UnitsFor(request) == UnitsOf(WithHeader(request))

\* The last request, in units, as a predicate of the lists: also one that wrapped around
\* got what the code looked for.
Answered(l, pages, pools) ==
  \/ l = NoRequest
  \/ /\ l \in [request : Requests, size : Nat]
     /\ IF l.size # 0 THEN UnitsFor(l.request) <= l.size
        ELSE NothingFits(pages, pools, UnitsFor(l.request))

\* The allocators' pages are those of the region that no caller of the page allocator
\* holds; they are well kept, and the last request was answered as it should be.
PInv ==
  /\ region \in {{}, Heap}
  /\ held \subseteq region
  /\ Good(mMmMemoryMap, mMmPoolLists, buffers, region \ held)
  /\ Answered(last, mMmMemoryMap, mMmPoolLists)

\* The heap lies within the address space and does not begin at NULL.
LEMMA HeapWithin == Heap \subseteq 1 .. (ADDRESS_PAGES - 1)
BY HeapAssumption DEF Heap

\* The lists are well kept after MmInitializeMemoryServices.
LEMMA PoolInit == Init => PInv
  <1> SUFFICES ASSUME Init PROVE PInv
    OBVIOUS
  <1>1. /\ region \in {{}, Heap} /\ mMmMemoryMap = MmAddMemoryRegion(region)
        /\ mMmPoolLists = [k \in PoolIndices |-> << >>] /\ buffers = {} /\ held = {}
        /\ last = NoRequest
    BY DEF Init
  <1>2. Sorted(mMmMemoryMap, {}) /\ FreePagesOf(mMmMemoryMap) = region
    BY <1>1, RegionEffect
  <1>3. region \ held = region /\ region \in SUBSET (1 .. (ADDRESS_PAGES - 1))
    BY <1>1, HeapWithin
  <1>4. 0 \notin region
    <2>1. 0 \notin 1 .. (ADDRESS_PAGES - 1)
      BY HeapAssumption
    <2> QED
      BY <1>3, <2>1
  <1>5. IsList(mMmMemoryMap)
    BY <1>2, <1>4 DEF IsList, NULL
  <1>6. \A k \in PoolIndices : mMmPoolLists[k] = << >>
    BY <1>1
  <1>7. ListsOK(mMmPoolLists)
    <2>1. \A k \in PoolIndices : ListOK(mMmPoolLists[k], PoolUnits[k])
      BY <1>6, EmptyList
    <2>2. mMmPoolLists \in [PoolIndices -> Seq(Nat)]
      BY <1>1
    <2> QED
      BY <2>1, <2>2 DEF ListsOK
  <1>8. PoolPieces(mMmPoolLists, buffers) = {}
    <2>1. \A k \in PoolIndices : Members(mMmPoolLists[k]) = {}
      BY <1>6, EmptyList
    <2>2. ASSUME NEW x PROVE x \notin PoolPieces(mMmPoolLists, buffers)
      BY <1>1, <2>1, PoolPiecesIs
    <2> QED
      BY <2>2
  <1>9. PageUnits(region \ FreePagesOf(mMmMemoryMap)) = {}
    BY <1>2 DEF PageUnits
  <1>10. Good(mMmMemoryMap, mMmPoolLists, buffers, region \ held)
    BY <1>1, <1>2, <1>3, <1>5, <1>7, <1>8, <1>9, NoPiece DEF Good
  <1>11. Answered(last, mMmMemoryMap, mMmPoolLists)
    BY <1>1 DEF Answered
  <1> QED
    BY <1>1, <1>10, <1>11 DEF PInv

\* A buffer handed out has a size.
LEMMA ServedBuffer ==
  ASSUME NEW r, NEW bufs, NEW ours, NEW size \in Nat, Served(r, bufs, ours, size)
  PROVE  /\ r.buffer # NoBuffer /\ {r.buffer} \ {NoBuffer} = {r.buffer}
         /\ r.buffer.size \in Nat \ {0} /\ size <= r.buffer.size
  <1>1. r.buffer.size \in Nat \ {0}
    BY DEF Served, Extent
  <1>2. NoBuffer.size = 0
    BY DEF NoBuffer
  <1>3. r.buffer # NoBuffer
    BY <1>1, <1>2
  <1> QED
    BY <1>1, <1>3 DEF Served

\* What fits is not cut.
LEMMA SmallRemainder ==
  ASSUME NEW a \in Nat, NEW d \in Nat \ {0}, a < d
  PROVE  a % d = a
  <1> DEFINE q == a \div d
             r == a % d
  <1>1. q \in Nat /\ r \in 0 .. (d - 1) /\ a = d * q + r
    OBVIOUS
  <1>2. q = 0
    <2>1. 0 * d <= a /\ a < 0 * d + d
      OBVIOUS
    <2> QED
      BY <2>1, PageOfUnit
  <1> HIDE DEF q, r
  <1>3. d * q = 0
    BY <1>2
  <1>4. a = r
    BY <1>1, <1>3
  <1> QED
    BY <1>4 DEF r

\* UnitsOf is the least number of units that hold so many bytes.
LEMMA UnitsOfIs ==
  ASSUME NEW bytes \in Nat \ {0}
  PROVE  /\ UnitsOf(bytes) \in Nat \ {0}
         /\ bytes <= UnitsOf(bytes) * MIN_POOL_SIZE
         /\ \A m \in Nat : m < UnitsOf(bytes) => m * MIN_POOL_SIZE < bytes
  <1> DEFINE d == MIN_POOL_SIZE
             u == bytes + d - 1
             n == UnitsOf(bytes)
             c == n * d
  <1>1. d \in Nat \ {0}
    BY PoolAssumption
  <1>2. u \in Nat /\ n = u \div d
    BY <1>1 DEF UnitsOf
  <1> HIDE DEF d, u, n
  <1>3. n \in Nat /\ n * d <= u /\ u < n * d + d
    BY <1>1, <1>2, PageOfUnit
  <1>4. c \in Nat /\ c <= u /\ u < c + d /\ u = bytes + d - 1
    BY <1>1, <1>3 DEF u, d
  <1>5. n # 0
    <2>1. n = 0 => c = 0
      BY <1>1
    <2> HIDE DEF c
    <2> QED
      BY <1>1, <1>4, <2>1
  <1>6. bytes <= c
    <2> HIDE DEF c
    <2> QED
      BY <1>1, <1>4
  <1>7. ASSUME NEW m \in Nat, m < n PROVE m * d < bytes
    <2> DEFINE e == m * d
    <2>1. m + 1 <= n
      BY <1>3, <1>7
    <2>2. (m + 1) * d <= c
      BY <1>1, <1>3, <2>1, ScaledOrder
    <2>3. (m + 1) * d = e + d /\ e \in Nat
      BY <1>1
    <2> HIDE DEF c, e
    <2>4. e < bytes
      BY <1>1, <1>4, <2>2, <2>3
    <2> QED
      BY <2>4 DEF e
  <1> QED
    BY <1>3, <1>5, <1>6, <1>7 DEF n, d

\* A size that does not wrap around to nothing needs at least one unit.
LEMMA UnitsForType ==
  ASSUME NEW size \in Requests, Allocatable(size)
  PROVE  UnitsFor(size) \in Nat \ {0}
  <1>1. size + POOL_HEADER_SIZE \in Nat /\ UINTN_SPAN \in Nat \ {0}
    BY PoolAssumption
  <1>2. WithHeader(size) \in Nat
    BY <1>1 DEF WithHeader
  <1>3. WithHeader(size) # 0
    BY DEF Allocatable
  <1> QED
    BY <1>2, <1>3, UnitsOfIs DEF UnitsFor

\* The record of a request.
LEMMA RequestRecord ==
  ASSUME NEW x \in Requests, NEW y \in Nat, NEW pages, NEW pools,
         IF y # 0 THEN UnitsFor(x) <= y ELSE NothingFits(pages, pools, UnitsFor(x))
  PROVE  Answered([request |-> x, size |-> y], pages, pools)
  <1> DEFINE l == [request |-> x, size |-> y]
  <1>1. l \in [request : Requests, size : Nat] /\ l.request = x /\ l.size = y
    OBVIOUS
  <1> HIDE DEF l
  <1>2. Answered(l, pages, pools)
    BY <1>1 DEF Answered
  <1> QED
    BY <1>2 DEF l

\* Without a request there is nothing to answer.
LEMMA NoRequestAnswered == \A pages, pools : Answered(NoRequest, pages, pools)
BY DEF Answered

\* AllocatePool.
LEMMA AllocatePoolStep ==
  ASSUME PInv, NEW size \in Requests, AllocatePool(size)
  PROVE  PInv'
  <1> DEFINE r == MmInternalAllocatePool(mMmMemoryMap, mMmPoolLists, size)
             ours == region \ held
             units == UnitsFor(size)
  <1>1. /\ mMmMemoryMap' = r.pages /\ mMmPoolLists' = r.pools
        /\ buffers' = buffers \cup ({r.buffer} \ {NoBuffer})
        /\ last' = [request |-> size, size |-> r.buffer.size]
        /\ region' = region /\ held' = held
    BY DEF AllocatePool
  <1>2. Good(mMmMemoryMap, mMmPoolLists, buffers, ours)
    BY DEF PInv
  <1>5. units \in Nat \ {0}
    BY UnitsForType DEF AllocatePool
  <1>3. \/ Served(r, buffers, ours, units)
        \/ /\ r = NoMemory(mMmMemoryMap, mMmPoolLists)
           /\ NothingFits(mMmMemoryMap, mMmPoolLists, units)
    BY <1>2, <1>5, AllocateEffect DEF MmInternalAllocatePool, UnitsFor
  <1> HIDE DEF r, units
  <1>4. Good(r.pages, r.pools, buffers', ours) /\ Answered(last', r.pages, r.pools)
    <2>1. CASE Served(r, buffers, ours, units)
      <3>1. /\ {r.buffer} \ {NoBuffer} = {r.buffer}
            /\ r.buffer.size \in Nat \ {0} /\ units <= r.buffer.size
        BY <1>5, <2>1, ServedBuffer
      <3>2. Good(r.pages, r.pools, buffers', ours)
        BY <1>1, <2>1, <3>1 DEF Served
      <3>3. Answered(last', r.pages, r.pools)
        BY <1>1, <3>1, RequestRecord DEF units
      <3> QED
        BY <3>2, <3>3
    <2>2. CASE /\ r = NoMemory(mMmMemoryMap, mMmPoolLists)
               /\ NothingFits(mMmMemoryMap, mMmPoolLists, units)
      <3>1. /\ r.pages = mMmMemoryMap /\ r.pools = mMmPoolLists /\ r.buffer = NoBuffer
            /\ r.buffer.size = 0
        BY <2>2 DEF NoMemory, NoBuffer
      <3>2. buffers' = buffers
        BY <1>1, <3>1
      <3>3. Answered(last', r.pages, r.pools)
        BY <1>1, <2>2, <3>1, RequestRecord DEF units
      <3> QED
        BY <1>2, <3>1, <3>2, <3>3
    <2> QED
      BY <1>3, <2>1, <2>2
  <1> QED
    BY <1>1, <1>4 DEF PInv

\* FreePool.
LEMMA FreePoolStep ==
  ASSUME PInv, NEW b \in buffers, FreePool(b)
  PROVE  PInv'
  <1> DEFINE r == MmInternalFreePool(mMmMemoryMap, mMmPoolLists, b)
  <1>1. /\ mMmMemoryMap' = r.pages /\ mMmPoolLists' = r.pools /\ buffers' = buffers \ {b}
        /\ last' = NoRequest /\ region' = region /\ held' = held
    BY DEF FreePool
  <1>2. Good(mMmMemoryMap, mMmPoolLists, buffers, region \ held)
    BY DEF PInv
  <1>3. Good(r.pages, r.pools, buffers \ {b}, region \ held)
    BY <1>2, FreeBufferEffect
  <1> HIDE DEF r
  <1> QED
    BY <1>1, <1>3, NoRequestAnswered DEF PInv

\* ReallocatePool: the new buffer is allocated before the old one is freed.
LEMMA ReallocatePoolStep ==
  ASSUME PInv, NEW b \in buffers, NEW size \in Requests, ReallocatePool(b, size)
  PROVE  PInv'
  <1> DEFINE new == MmInternalAllocatePool(mMmMemoryMap, mMmPoolLists, size)
             freed == MmInternalFreePool(new.pages, new.pools, b)
             r == IF new.buffer = NoBuffer THEN new ELSE freed
             ours == region \ held
             units == UnitsFor(size)
  <1>1. /\ mMmMemoryMap' = r.pages /\ mMmPoolLists' = r.pools
        /\ buffers' = IF new.buffer = NoBuffer THEN buffers
                      ELSE (buffers \cup {new.buffer}) \ {b}
        /\ last' = [request |-> size, size |-> new.buffer.size]
        /\ region' = region /\ held' = held
    BY DEF ReallocatePool
  <1>2. Good(mMmMemoryMap, mMmPoolLists, buffers, ours)
    BY DEF PInv
  <1>6. units \in Nat \ {0}
    BY UnitsForType DEF ReallocatePool
  <1>3. \/ Served(new, buffers, ours, units)
        \/ /\ new = NoMemory(mMmMemoryMap, mMmPoolLists)
           /\ NothingFits(mMmMemoryMap, mMmPoolLists, units)
    BY <1>2, <1>6, AllocateEffect DEF MmInternalAllocatePool, UnitsFor
  <1> HIDE DEF new, units
  <1>4. CASE Served(new, buffers, ours, units)
    <2>1. /\ new.buffer # NoBuffer /\ new.buffer.size \in Nat \ {0}
          /\ units <= new.buffer.size
      BY <1>4, <1>6, ServedBuffer
    <2>2. Good(new.pages, new.pools, buffers \cup {new.buffer}, ours)
      BY <1>4 DEF Served
    <2> DEFINE bufs == buffers \cup {new.buffer}
    <2>3. b \in bufs
      OBVIOUS
    <2> HIDE DEF bufs
    <2>4. Good(freed.pages, freed.pools, bufs \ {b}, ours)
      BY <2>2, <2>3, FreeBufferEffect DEF bufs
    <2>5. r = freed
      BY <2>1
    <2> HIDE DEF freed, r
    <2>6. Good(mMmMemoryMap', mMmPoolLists', buffers', ours)
      BY <1>1, <2>1, <2>4, <2>5 DEF bufs
    <2>7. Answered(last', mMmMemoryMap', mMmPoolLists')
      BY <1>1, <2>1, RequestRecord DEF units
    <2> QED
      BY <1>1, <2>6, <2>7 DEF PInv
  <1>5. CASE /\ new = NoMemory(mMmMemoryMap, mMmPoolLists)
             /\ NothingFits(mMmMemoryMap, mMmPoolLists, units)
    <2>1. /\ new.pages = mMmMemoryMap /\ new.pools = mMmPoolLists
          /\ new.buffer = NoBuffer /\ new.buffer.size = 0
      BY <1>5 DEF NoMemory, NoBuffer
    <2>2. r = new
      BY <2>1
    <2> HIDE DEF freed, r
    <2>3. mMmMemoryMap' = mMmMemoryMap /\ mMmPoolLists' = mMmPoolLists /\ buffers' = buffers
      BY <1>1, <2>1, <2>2
    <2>4. Answered(last', mMmMemoryMap', mMmPoolLists')
      BY <1>1, <1>5, <2>1, <2>3, RequestRecord DEF units
    <2> QED
      BY <1>1, <1>2, <2>3, <2>4 DEF PInv
  <1> QED
    BY <1>3, <1>4, <1>5

\* AllocatePages.
LEMMA AllocatePagesStep ==
  ASSUME PInv, NEW n \in Nat \ {0}, AllocatePages(n)
  PROVE  PInv'
  <1> DEFINE list == mMmMemoryMap
             r == InternalAllocMaxAddress(list, n, ADDRESS_PAGES)
             R == Run(r.memory, n)
             ours == region \ held
             free == FreePagesOf(list)
  <1>1. InternalAllocatePages(list, n) = r
    BY DEF InternalAllocatePages
  <1>2. /\ mMmMemoryMap' = r.list /\ held' = IF r.memory = NULL THEN held ELSE held \cup R
        /\ last' = NoRequest /\ mMmPoolLists' = mMmPoolLists /\ buffers' = buffers
        /\ region' = region
    BY <1>1 DEF AllocatePages
  <1>3. Good(list, mMmPoolLists, buffers, ours) /\ held \subseteq region
    BY DEF PInv
  <1>4. IsList(list) /\ free \subseteq ours /\ ours \in SUBSET (1 .. (ADDRESS_PAGES - 1))
    BY <1>3 DEF Good
  <1>5. \/ Granted(list, n, r)
        \/ r = Failed(list)
    BY <1>4, MaxAddressEffect, HeapAssumption
  <1> HIDE DEF r
  <1>6. CASE Granted(list, n, r)
    <2>1. /\ r.memory # NULL /\ R \subseteq free /\ IsList(r.list)
          /\ FreePagesOf(r.list) = free \ R
      BY <1>6 DEF Granted
    <2>2. held' = held \cup R
      BY <1>2, <2>1
    <2> HIDE DEF R
    <2>3. region' \ held' = ours \ R
      BY <1>2, <2>2
    <2>4. (ours \ R) \ FreePagesOf(r.list) = ours \ free
      BY <1>4, <2>1
    <2>5. ours \ R \in SUBSET (1 .. (ADDRESS_PAGES - 1)) /\ FreePagesOf(r.list) \subseteq ours \ R
      BY <1>4, <2>1
    <2> HIDE DEF free, ours
    <2>6. Good(r.list, mMmPoolLists, buffers, ours \ R)
      BY <1>3, <2>1, <2>4, <2>5, PagesLeave DEF free
    <2>7. held' \subseteq region
      BY <1>3, <1>4, <2>1, <2>2 DEF ours
    <2> QED
      BY <1>2, <2>3, <2>6, <2>7, NoRequestAnswered DEF PInv
  <1>7. CASE r = Failed(list)
    <2>1. r.list = list /\ r.memory = NULL
      BY <1>7 DEF Failed
    <2> QED
      BY <1>2, <1>3, <2>1, NoRequestAnswered DEF PInv
  <1> QED
    BY <1>5, <1>6, <1>7

\* FreePages.
LEMMA FreePagesStep ==
  ASSUME PInv, NEW n \in Nat \ {0}, NEW memory \in Nat, FreePages(memory, n)
  PROVE  PInv'
  <1> DEFINE list == mMmMemoryMap
             r == MmInternalFreePages(list, memory, n)
             R == Run(memory, n)
             ours == region \ held
             free == FreePagesOf(list)
  <1>1. /\ R \subseteq held
        /\ mMmMemoryMap' = r.list /\ held' = held \ R
        /\ last' = NoRequest /\ mMmPoolLists' = mMmPoolLists /\ buffers' = buffers
        /\ region' = region
    BY DEF FreePages
  <1>2. /\ Good(list, mMmPoolLists, buffers, ours) /\ held \subseteq region
        /\ region \in {{}, Heap}
    BY DEF PInv
  <1>3. IsList(list) /\ free \subseteq ours /\ ours \in SUBSET (1 .. (ADDRESS_PAGES - 1))
    BY <1>2 DEF Good
  <1>4. Sorted(r.list, {}) /\ FreePagesOf(r.list) = free \cup R
    <2>1. Sorted(list, {}) /\ R \cap free = {}
      BY <1>1, <1>3 DEF IsList
    <2> QED
      BY <2>1, FreeEffect
  <1>5. region \in SUBSET (1 .. (ADDRESS_PAGES - 1)) /\ 0 \notin region
    <2>1. 0 \notin 1 .. (ADDRESS_PAGES - 1)
      BY HeapAssumption
    <2> QED
      BY <1>2, <2>1, HeapWithin
  <1> HIDE DEF r, R
  <1>6. region' \ held' = ours \cup R
    BY <1>1, <1>2
  <1>7. IsList(r.list)
    BY <1>1, <1>2, <1>3, <1>4, <1>5 DEF IsList, NULL
  <1>8. /\ (ours \cup R) \ FreePagesOf(r.list) = ours \ free
        /\ FreePagesOf(r.list) \subseteq ours \cup R
        /\ ours \cup R \in SUBSET (1 .. (ADDRESS_PAGES - 1))
    BY <1>1, <1>2, <1>3, <1>4, <1>5
  <1> HIDE DEF ours
  <1>9. Good(r.list, mMmPoolLists, buffers, ours \cup R)
    BY <1>2, <1>7, <1>8, PagesLeave
  <1>10. held' \subseteq region
    BY <1>1, <1>2
  <1> QED
    BY <1>1, <1>2, <1>6, <1>9, <1>10, NoRequestAnswered DEF PInv

\* Every step keeps the invariant.
LEMMA PoolStep == PInv /\ [Next]_vars => PInv'
  <1> SUFFICES ASSUME PInv, [Next]_vars PROVE PInv'
    OBVIOUS
  <1>1. 1 .. HEAP_PAGES \subseteq Nat \ {0} /\ Heap \subseteq Nat
    BY HeapAssumption DEF Heap
  <1>2. ASSUME NEW size \in Requests, AllocatePool(size) PROVE PInv'
    BY <1>2, AllocatePoolStep
  <1>3. ASSUME NEW b \in buffers, FreePool(b) PROVE PInv'
    BY <1>3, FreePoolStep
  <1>4. ASSUME NEW b \in buffers, NEW size \in Requests, ReallocatePool(b, size) PROVE PInv'
    BY <1>4, ReallocatePoolStep
  <1>5. ASSUME NEW n \in 1 .. HEAP_PAGES, AllocatePages(n) PROVE PInv'
    BY <1>1, <1>5, AllocatePagesStep
  <1>6. ASSUME NEW n \in 1 .. HEAP_PAGES, NEW memory \in Heap, FreePages(memory, n) PROVE PInv'
    BY <1>1, <1>6, FreePagesStep
  <1>7. CASE UNCHANGED vars
    BY <1>7 DEF vars, PInv
  <1> QED
    BY <1>2, <1>3, <1>4, <1>5, <1>6, <1>7 DEF Next

\* The invariant.
LEMMA PoolInvariant == Spec => []PInv
  BY PoolInit, PoolStep, PTL DEF Spec

-----------------------------------------------------------------------------
(***************************************************************************)
(* The theorems.                                                           *)
(***************************************************************************)

\* The lists, the buffers and the pages held have their types in every reachable state.
THEOREM PoolTypeCorrect == Spec => []TypeOK
  <1>1. PInv => TypeOK
    <2> SUFFICES ASSUME PInv PROVE TypeOK
      OBVIOUS
    <2>1. Good(mMmMemoryMap, mMmPoolLists, buffers, region \ held)
      BY DEF PInv
    <2>2. mMmMemoryMap \in Seq(FreeNode)
      BY <2>1 DEF Good, IsList, Sorted
    <2>3. mMmPoolLists \in [PoolIndices -> Seq(Nat)]
      BY <2>1 DEF Good, ListsOK
    <2>4. buffers \subseteq Extent
      BY <2>1 DEF Good, BufferOK
    <2>5. last \in [request : Requests, size : Nat] \cup {NoRequest}
      BY DEF PInv, Answered
    <2> QED
      BY <2>2, <2>3, <2>4, <2>5 DEF PInv, TypeOK
  <1> QED
    BY <1>1, PoolInvariant, PTL

\* What MmInternalAllocatePool answers to a request that does not wrap around: a buffer of
\* at least so many bytes, or none, and then nothing that is free would have done.
THEOREM RequestsServedOrFull == Spec => []ServedOrFull
  <1>1. PInv => ServedOrFull
    <2> DEFINE bytes == last.request + POOL_HEADER_SIZE
               units == UnitsFor(last.request)
               d == MIN_POOL_SIZE
    <2> SUFFICES ASSUME PInv, last # NoRequest, bytes < UINTN_SPAN
                 PROVE  IF last.size # 0 THEN last.size * d >= bytes
                        ELSE /\ \A e \in FreeBlocks : PoolUnits[e[1]] * d < bytes
                             /\ \A i \in DOMAIN mMmMemoryMap :
                                  mMmMemoryMap[i].pages * PAGE_UNITS * d < bytes
      BY DEF ServedOrFull
    <2>1. /\ last.request \in Requests /\ last.size \in Nat
          /\ IF last.size # 0 THEN units <= last.size
             ELSE NothingFits(mMmMemoryMap, mMmPoolLists, units)
      BY DEF PInv, Answered
    <2>2. bytes \in Nat \ {0} /\ WithHeader(last.request) = bytes
      <3>1. bytes \in Nat \ {0} /\ UINTN_SPAN \in Nat \ {0}
        <4>1. last.request \in Requests
          BY <2>1
        <4>2. /\ POOL_HEADER_SIZE \in Nat \ {0} /\ UINTN_SPAN \in Nat \ {0}
              /\ Requests \subseteq Nat
          BY PoolAssumption
        <4>3. last.request \in Nat
          BY <4>1, <4>2
        <4> QED
          BY <4>2, <4>3
      <3>2. WithHeader(last.request) = bytes % UINTN_SPAN
        BY DEF WithHeader
      <3> HIDE DEF bytes
      <3> QED
        BY <3>1, <3>2, SmallRemainder
    <2>3. d \in Nat \ {0} /\ PAGE_UNITS \in Nat \ {0}
      BY PoolAssumption, PageUnitsType
    <2> HIDE DEF bytes, d
    <2>4. /\ units \in Nat \ {0} /\ bytes <= units * d
          /\ \A m \in Nat : m < units => m * d < bytes
      BY <2>2, UnitsOfIs DEF UnitsFor, d
    <2> HIDE DEF units
    <2>5. ASSUME last.size # 0 PROVE last.size * d >= bytes
      <3>1. units * d <= last.size * d
        BY <2>1, <2>3, <2>4, <2>5, ScaledOrder
      <3>2. units * d \in Nat /\ last.size * d \in Nat
        BY <2>1, <2>3, <2>4
      <3> QED
        BY <2>2, <2>4, <3>1, <3>2
    <2>6. ASSUME ~(last.size # 0)
          PROVE  /\ \A e \in FreeBlocks : PoolUnits[e[1]] * d < bytes
                 /\ \A i \in DOMAIN mMmMemoryMap :
                      mMmMemoryMap[i].pages * PAGE_UNITS * d < bytes
      <3>1. NothingFits(mMmMemoryMap, mMmPoolLists, units)
        BY <2>1, <2>6
      <3>2. ASSUME NEW e \in FreeBlocks PROVE PoolUnits[e[1]] * d < bytes
        <4>1. PICK k \in PoolIndices : e \in {k} \X DOMAIN mMmPoolLists[k]
          BY DEF FreeBlocks
        <4>2. e[1] = k /\ e[2] \in DOMAIN mMmPoolLists[k]
          BY <4>1
        <4>3. mMmPoolLists[k] # << >>
          BY <4>2
        <4>4. PoolUnits[k] < units
          BY <3>1, <4>3 DEF NothingFits
        <4>5. PoolUnits[k] \in Nat
          BY UnitsDouble DEF PoolIndices
        <4> QED
          BY <2>4, <4>2, <4>4, <4>5
      <3>3. ASSUME NEW i \in DOMAIN mMmMemoryMap
            PROVE  mMmMemoryMap[i].pages * PAGE_UNITS * d < bytes
        <4>1. mMmMemoryMap \in Seq(FreeNode)
          BY DEF PInv, Good, IsList, Sorted
        <4>2. i \in 1 .. Len(mMmMemoryMap)
          BY <4>1, LenProperties
        <4>3. mMmMemoryMap[i].pages \in Nat
          BY <4>1, <4>2, NodeType
        <4>4. mMmMemoryMap[i].pages * PAGE_UNITS < units
          BY <3>1, <4>2 DEF NothingFits
        <4>5. mMmMemoryMap[i].pages * PAGE_UNITS \in Nat
          BY <2>3, <4>3
        <4> QED
          BY <2>4, <4>4, <4>5
      <3> QED
        BY <3>2, <3>3
    <2> QED
      BY <2>5, <2>6
  <1> QED
    BY <1>1, PoolInvariant, PTL

\* The header in front of a buffer passes the assertions of InternalFreePoolByIndex and
\* MmInternalFreePool.
THEOREM HeadersCorrect == Spec => []HeadersAsAsserted
  <1>1. PInv => HeadersAsAsserted
    <2> SUFFICES ASSUME PInv, NEW b \in buffers
                 PROVE  /\ b.size <= MAX_POOL_SIZE => /\ PoolUnits[HighBitSet(b.size)] = b.size
                                                      /\ HighBitSet(b.size) < MAX_POOL_INDEX
                                                      /\ b.at % b.size = 0
                        /\ b.size > MAX_POOL_SIZE =>
                             b.size % PAGE_UNITS = 0 /\ b.at % PAGE_UNITS = 0
      BY DEF HeadersAsAsserted
    <2>1. b \in Extent /\ (PoolBuffer(b) \/ PageBuffer(b))
      BY DEF PInv, Good, BufferOK
    <2>2. b.at \in Nat /\ b.size \in Nat \ {0}
      BY <2>1 DEF Extent
    <2>3. /\ MAX_POOL_INDEX \in Nat \ {0} /\ MAX_POOL_INDEX - 1 \in PoolIndices
          /\ MAX_POOL_INDEX - 1 \in 0 .. MAX_POOL_INDEX
          /\ \A k \in PoolIndices : /\ k \in 0 .. MAX_POOL_INDEX /\ k < MAX_POOL_INDEX
                                    /\ ~(MAX_POOL_INDEX - 1 < k)
      BY UnitsDouble DEF PoolIndices
    <2>4. /\ MAX_POOL_SIZE \in Nat /\ MAX_POOL_SIZE = PoolUnits[MAX_POOL_INDEX - 1]
          /\ PAGE_UNITS = 2 * MAX_POOL_SIZE
      <3>1. (MAX_POOL_INDEX - 1) + 1 = MAX_POOL_INDEX
        BY <2>3
      <3> QED
        BY <2>3, <3>1, UnitsDouble
    <2>5. PAGE_UNITS \in Nat \ {0}
      BY PageUnitsType
    <2>6. CASE PoolBuffer(b)
      <3>1. PICK k \in PoolIndices : b.size = PoolUnits[k] /\ Multiple(b.at, PoolUnits[k])
        BY <2>6 DEF PoolBuffer
      <3>2. ~(b.size > MAX_POOL_SIZE)
        <4>1. ~(PoolUnits[MAX_POOL_INDEX - 1] < PoolUnits[k])
          BY <2>3, UnitsOrder
        <4> QED
          BY <2>2, <2>4, <3>1, <4>1
      <3>3. HighBitSet(b.size) = k
        BY <3>1, HighBitOfBlock
      <3>4. b.at % b.size = 0
        <4>1. Multiple(b.at, b.size)
          BY <3>1
        <4> QED
          BY <2>2, <4>1, MultipleRules
      <3> QED
        BY <2>3, <3>1, <3>2, <3>3, <3>4
    <2>7. CASE PageBuffer(b)
      <3>1. PICK p \in Nat, n \in Nat \ {0} :
              b.at = p * PAGE_UNITS /\ b.size = n * PAGE_UNITS
        BY <2>7 DEF PageBuffer
      <3>2. Multiple(b.at, PAGE_UNITS) /\ Multiple(b.size, PAGE_UNITS)
        BY <3>1 DEF Multiple
      <3>3. b.at % PAGE_UNITS = 0 /\ b.size % PAGE_UNITS = 0
        BY <2>2, <2>5, <3>2, MultipleRules
      <3>4. b.size > MAX_POOL_SIZE
        <4>1. 1 * PAGE_UNITS <= n * PAGE_UNITS /\ 1 * PAGE_UNITS = PAGE_UNITS
          BY <2>5, ScaledOrder
        <4>2. PAGE_UNITS <= b.size
          BY <3>1, <4>1
        <4> QED
          BY <2>2, <2>4, <2>5, <4>2
      <3>5. ~(b.size <= MAX_POOL_SIZE)
        BY <2>2, <2>4, <3>4
      <3> QED
        BY <3>3, <3>5
    <2> QED
      BY <2>1, <2>6, <2>7
  <1> QED
    BY <1>1, PoolInvariant, PTL

\* The pieces of the model by owner: a free run, a page of a caller, or a piece of the
\* pools.
FreePiece(i) ==
  [owner |-> <<"free page", i>>,
   units |-> Units(mMmMemoryMap[i].page * PAGE_UNITS, mMmMemoryMap[i].pages * PAGE_UNITS)]
HeldPiece(p) == [owner |-> <<"page", p>>, units |-> Units(p * PAGE_UNITS, PAGE_UNITS)]
BufferPiece(b) == [owner |-> <<"buffer", b>>, units |-> Units(b.at, b.size)]
BlockPiece(e) == [owner |-> <<"block", e>>, units |-> Units(BlockAt(e), PoolUnits[e[1]])]

\* Every piece has one of these owners.
LEMMA PiecesAre ==
  ASSUME NEW x
  PROVE  x \in Pieces <=> \/ \E i \in DOMAIN mMmMemoryMap : x = FreePiece(i)
                          \/ \E p \in held : x = HeldPiece(p)
                          \/ \E b \in buffers : x = BufferPiece(b)
                          \/ \E e \in FreeBlocks : x = BlockPiece(e)
  BY DEF Pieces, FreePiece, HeldPiece, BufferPiece, BlockPiece

\* The pages of the free runs.
LEMMA FreePieceUnits ==
  ASSUME PInv, NEW i \in DOMAIN mMmMemoryMap
  PROVE  /\ FreePiece(i).units = PageUnits(Run(mMmMemoryMap[i].page, mMmMemoryMap[i].pages))
         /\ Run(mMmMemoryMap[i].page, mMmMemoryMap[i].pages) \subseteq FreePagesOf(mMmMemoryMap)
         /\ Run(mMmMemoryMap[i].page, mMmMemoryMap[i].pages) \in SUBSET Nat
         /\ \A j \in DOMAIN mMmMemoryMap : j # i =>
              Run(mMmMemoryMap[i].page, mMmMemoryMap[i].pages)
                \cap Run(mMmMemoryMap[j].page, mMmMemoryMap[j].pages) = {}
  <1> DEFINE list == mMmMemoryMap
             node == list[i]
  <1>1. Sorted(list, {}) /\ list \in Seq(FreeNode)
    BY DEF PInv, Good, IsList, Sorted
  <1>2. DOMAIN list = 1 .. Len(list) /\ Len(list) \in Nat
    BY <1>1, LenProperties
  <1>3. \A j \in DOMAIN list :
          /\ list[j].page \in Nat /\ list[j].pages \in Nat
          /\ \A p : p \in Run(list[j].page, list[j].pages) <=>
                      p \in Int /\ list[j].page <= p /\ p < EndOf(list[j])
    <2>1. ASSUME NEW j \in DOMAIN list PROVE list[j].page \in Nat /\ list[j].pages \in Nat
      BY <1>1, <1>2, NodeType
    <2>2. ASSUME NEW j \in DOMAIN list, NEW p
          PROVE  p \in Run(list[j].page, list[j].pages) <=>
                   p \in Int /\ list[j].page <= p /\ p < EndOf(list[j])
      BY <2>1 DEF Run, EndOf
    <2> QED
      BY <2>1, <2>2
  <1>4. FreePiece(i).units = PageUnits(Run(node.page, node.pages))
    <2>1. FreePiece(i).units = Units(node.page * PAGE_UNITS, node.pages * PAGE_UNITS)
      BY DEF FreePiece
    <2> QED
      BY <1>3, <2>1, RunUnits
  <1>5. Run(node.page, node.pages) \subseteq FreePagesOf(list)
    BY DEF FreePagesOf
  <1>6. Run(node.page, node.pages) \in SUBSET Nat
    BY <1>3
  <1>7. ASSUME NEW j \in DOMAIN list, j # i
        PROVE  Run(node.page, node.pages) \cap Run(list[j].page, list[j].pages) = {}
    <2>1. /\ i < j => EndOf(list[i]) < list[j].page
          /\ j < i => EndOf(list[j]) < list[i].page
      BY <1>1, <1>2, Apart
    <2>2. i < j \/ j < i
      BY <1>2, <1>7
    <2>3. EndOf(list[i]) \in Nat /\ EndOf(list[j]) \in Nat
      BY <1>1, <1>2, NodeType
    <2>4. ASSUME NEW p, p \in Run(list[i].page, list[i].pages), p \in Run(list[j].page, list[j].pages)
          PROVE  FALSE
      <3>1. /\ p \in Int /\ list[i].page <= p /\ p < EndOf(list[i])
            /\ list[j].page <= p /\ p < EndOf(list[j])
        BY <1>3, <2>4
      <3> QED
        BY <1>3, <2>1, <2>2, <2>3, <3>1
    <2> QED
      BY <2>4
  <1> QED
    BY <1>4, <1>5, <1>6, <1>7

\* The pages of the callers.
LEMMA HeldPieceUnits ==
  ASSUME NEW p \in Nat
  PROVE  HeldPiece(p).units = PageUnits({p})
  BY DEF HeldPiece, PageUnits

\* The pieces of the pools as pieces of the partition.
LEMMA BlockPieceUnits ==
  ASSUME PInv, NEW e \in FreeBlocks
  PROVE  /\ e[1] \in PoolIndices /\ e[2] \in DOMAIN mMmPoolLists[e[1]]
         /\ Block(e[1], BlockAt(e)) \in PoolPieces(mMmPoolLists, buffers)
         /\ BlockPiece(e).units = Span(Block(e[1], BlockAt(e)))
         /\ \A f \in FreeBlocks : Block(e[1], BlockAt(e)) = Block(f[1], BlockAt(f)) => e = f
  <1>1. ASSUME NEW f \in FreeBlocks
        PROVE  f[1] \in PoolIndices /\ f[2] \in DOMAIN mMmPoolLists[f[1]] /\ f = <<f[1], f[2]>>
    <2>1. PICK k \in PoolIndices : f \in {k} \X DOMAIN mMmPoolLists[k]
      BY DEF FreeBlocks
    <2> QED
      BY <2>1
  <1>2. Block(e[1], BlockAt(e)) \in PoolPieces(mMmPoolLists, buffers)
    <2>1. BlockAt(e) \in Members(mMmPoolLists[e[1]])
      BY <1>1 DEF BlockAt, Members
    <2> QED
      BY <1>1, <2>1, PoolPiecesIs
  <1>3. BlockPiece(e).units = Span(Block(e[1], BlockAt(e)))
    BY PieceShape, Zenon DEF BlockPiece, Span
  <1>4. ASSUME NEW f \in FreeBlocks, Block(e[1], BlockAt(e)) = Block(f[1], BlockAt(f))
        PROVE  e = f
    <2>1. e[1] \in 0 .. MAX_POOL_INDEX /\ f[1] \in 0 .. MAX_POOL_INDEX
      BY <1>1, UnitsDouble
    <2>2. e[1] = f[1] /\ BlockAt(e) = BlockAt(f)
      BY <1>4, <2>1, PieceShape
    <2>3. ListOK(mMmPoolLists[e[1]], PoolUnits[e[1]])
      BY <1>1 DEF PInv, Good, ListsOK
    <2>4. e[2] = f[2]
      BY <1>1, <2>2, <2>3 DEF ListOK, BlockAt
    <2> QED
      BY <1>1, <2>2, <2>4
  <1> QED
    BY <1>1, <1>2, <1>3, <1>4

\* The buffers as pieces of the partition.
LEMMA BufferPieceUnits ==
  ASSUME PInv, NEW b \in buffers
  PROVE  /\ Buffer(b) \in PoolPieces(mMmPoolLists, buffers)
         /\ BufferPiece(b).units = Span(Buffer(b))
         /\ \A c \in buffers : Buffer(b) = Buffer(c) => b = c
  <1>1. Buffer(b) \in PoolPieces(mMmPoolLists, buffers)
    BY PoolPiecesIs
  <1>2. BufferPiece(b).units = Span(Buffer(b))
    BY PieceShape, Zenon DEF BufferPiece, Span
  <1>3. buffers \subseteq Extent
    BY DEF PInv, Good, BufferOK
  <1>4. \A c \in buffers : Buffer(b) = Buffer(c) => b = c
    BY <1>3, PieceShape
  <1> QED
    BY <1>1, <1>2, <1>4

\* The piece of the pools that a piece of the model is.
PoolPiece(x, q) ==
  \/ \E b \in buffers : x = BufferPiece(b) /\ q = Buffer(b)
  \/ \E e \in FreeBlocks : x = BlockPiece(e) /\ q = Block(e[1], BlockAt(e))

\* Different pieces of the model are different pieces of the pools.
LEMMA PoolPieceIs ==
  ASSUME PInv, NEW x, NEW q, PoolPiece(x, q)
  PROVE  /\ q \in PoolPieces(mMmPoolLists, buffers) /\ x.units = Span(q)
         /\ \A y, r : PoolPiece(y, r) /\ x # y => q # r
  <1>1. CASE \E b \in buffers : x = BufferPiece(b) /\ q = Buffer(b)
    <2>1. PICK b \in buffers : x = BufferPiece(b) /\ q = Buffer(b)
      BY <1>1
    <2>2. ASSUME NEW y, NEW r, PoolPiece(y, r), q = r PROVE x = y
      <3>1. \A k, a : Block(k, a) # Buffer(b)
        BY PieceShape
      <3>2. PICK c \in buffers : y = BufferPiece(c) /\ r = Buffer(c)
        BY <2>1, <2>2, <3>1 DEF PoolPiece
      <3> QED
        BY <2>1, <2>2, <3>2, BufferPieceUnits
    <2> QED
      BY <2>1, <2>2, BufferPieceUnits
  <1>2. CASE \E e \in FreeBlocks : x = BlockPiece(e) /\ q = Block(e[1], BlockAt(e))
    <2>1. PICK e \in FreeBlocks : x = BlockPiece(e) /\ q = Block(e[1], BlockAt(e))
      BY <1>2
    <2>2. ASSUME NEW y, NEW r, PoolPiece(y, r), q = r PROVE x = y
      <3>1. \A b : Block(e[1], BlockAt(e)) # Buffer(b)
        BY PieceShape
      <3>2. PICK f \in FreeBlocks : y = BlockPiece(f) /\ r = Block(f[1], BlockAt(f))
        BY <2>1, <2>2, <3>1 DEF PoolPiece
      <3>3. e = f
        BY <2>1, <2>2, <3>2, BlockPieceUnits
      <3> QED
        BY <2>1, <3>2, <3>3
    <2> QED
      BY <2>1, <2>2, BlockPieceUnits
  <1> QED
    BY <1>1, <1>2 DEF PoolPiece

\* No unit of memory is lost or has two owners: the free runs, the pages of the callers,
\* the buffers and the free blocks partition the heap in every reachable state.
THEOREM MemoryStaysPartitioned == Spec => []MemoryPartitioned
  <1>1. PInv => MemoryPartitioned
    <2> SUFFICES ASSUME PInv PROVE MemoryPartitioned
      OBVIOUS
    <2> DEFINE list == mMmMemoryMap
               F == FreePagesOf(list)
               O == (region \ held) \ F
               S == PoolPieces(mMmPoolLists, buffers)
               nodeRun(i) == Run(list[i].page, list[i].pages)
               IsFree(x) == \E i \in DOMAIN list : x = FreePiece(i)
               IsHeld(x) == \E p \in held : x = HeldPiece(p)
               IsPool(x) == \E q : PoolPiece(x, q)
    <2>1. /\ Good(list, mMmPoolLists, buffers, region \ held) /\ held \subseteq region
          /\ region \in {{}, Heap}
      BY DEF PInv
    <2>2. F \subseteq region \ held /\ Partition(S, PageUnits(O))
      BY <2>1 DEF Good
    <2>3. region \in SUBSET Nat
      BY <2>1, HeapAssumption DEF Heap
    <2>4. held \in SUBSET Nat /\ F \in SUBSET Nat /\ O \in SUBSET Nat
      BY <2>1, <2>2, <2>3
    <2>5. /\ PageUnits(F) \cap PageUnits(held) = {}
          /\ PageUnits(F) \cap PageUnits(O) = {}
          /\ PageUnits(held) \cap PageUnits(O) = {}
      <3>1. F \cap held = {} /\ F \cap O = {} /\ held \cap O = {}
        BY <2>2
      <3> HIDE DEF F, O
      <3> QED
        BY <2>4, <3>1, PageUnitsSets
    <2>6. ASSUME NEW i \in DOMAIN list
          PROVE  /\ FreePiece(i).units = PageUnits(nodeRun(i))
                 /\ nodeRun(i) \subseteq F /\ nodeRun(i) \in SUBSET Nat
                 /\ \A j \in DOMAIN list : j # i => nodeRun(i) \cap nodeRun(j) = {}
      BY FreePieceUnits
    <2>7. \A p \in held : HeldPiece(p).units = PageUnits({p})
      BY <2>4, HeldPieceUnits
    <2> HIDE DEF F, O, S, nodeRun
    <2>8. ASSUME NEW x
          PROVE  x \in Pieces <=> IsFree(x) \/ IsHeld(x) \/ IsPool(x)
      <3>1. IsPool(x) <=> (\E b \in buffers : x = BufferPiece(b))
                          \/ (\E e \in FreeBlocks : x = BlockPiece(e))
        BY DEF PoolPiece
      <3> HIDE DEF IsPool
      <3> QED
        BY <3>1, PiecesAre
    <2>9. ASSUME NEW R \in SUBSET Nat, NEW T \in SUBSET Nat, R \subseteq T, NEW u \in PageUnits(R)
          PROVE  u \in PageUnits(T)
      BY <2>9, PageUnitsIs
    <2>10. ASSUME NEW x, IsFree(x) PROVE x.units \subseteq PageUnits(F)
      BY <2>4, <2>6, <2>9, <2>10
    <2>11. ASSUME NEW x, IsHeld(x) PROVE x.units \subseteq PageUnits(held)
      <3>1. PICK p \in held : x = HeldPiece(p)
        BY <2>11
      <3>2. x.units = PageUnits({p}) /\ {p} \in SUBSET Nat /\ {p} \subseteq held
        BY <2>4, <2>7, <3>1
      <3> QED
        BY <2>4, <2>9, <3>2
    <2>12. ASSUME NEW x, IsPool(x) PROVE x.units \subseteq PageUnits(O)
      <3>1. PICK q : PoolPiece(x, q)
        BY <2>12
      <3>2. q \in S /\ x.units = Span(q)
        BY <3>1, PoolPieceIs DEF S
      <3> QED
        BY <2>2, <3>2 DEF Partition
    <2>13. ASSUME NEW x, NEW y, IsFree(x), IsFree(y), x # y PROVE x.units \cap y.units = {}
      <3>1. PICK i \in DOMAIN list : x = FreePiece(i)
        BY <2>13
      <3>2. PICK j \in DOMAIN list : y = FreePiece(j)
        BY <2>13
      <3>3. i # j
        BY <2>13, <3>1, <3>2
      <3>4. /\ x.units = PageUnits(nodeRun(i)) /\ y.units = PageUnits(nodeRun(j))
            /\ nodeRun(i) \in SUBSET Nat /\ nodeRun(j) \in SUBSET Nat
            /\ nodeRun(i) \cap nodeRun(j) = {}
        BY <2>6, <3>1, <3>2, <3>3
      <3> QED
        BY <3>4, PageUnitsSets
    <2>14. ASSUME NEW x, NEW y, IsHeld(x), IsHeld(y), x # y PROVE x.units \cap y.units = {}
      <3>1. PICK p \in held : x = HeldPiece(p)
        BY <2>14
      <3>2. PICK q \in held : y = HeldPiece(q)
        BY <2>14
      <3>3. {p} \cap {q} = {}
        BY <2>14, <3>1, <3>2
      <3>4. /\ x.units = PageUnits({p}) /\ y.units = PageUnits({q})
            /\ {p} \in SUBSET Nat /\ {q} \in SUBSET Nat
        BY <2>4, <2>7, <3>1, <3>2
      <3> QED
        BY <3>3, <3>4, PageUnitsSets
    <2>15. ASSUME NEW x, NEW y, IsPool(x), IsPool(y), x # y PROVE x.units \cap y.units = {}
      <3>1. PICK q : PoolPiece(x, q)
        BY <2>15
      <3>2. PICK r : PoolPiece(y, r)
        BY <2>15
      <3>3. q \in S /\ x.units = Span(q) /\ q # r
        BY <2>15, <3>1, <3>2, PoolPieceIs DEF S
      <3>4. r \in S /\ y.units = Span(r)
        BY <3>2, PoolPieceIs DEF S
      <3> QED
        BY <2>2, <3>3, <3>4 DEF Partition
    <2> HIDE DEF IsFree, IsHeld, IsPool
    <2>16. \A x, y \in Pieces : x # y => x.units \cap y.units = {}
      <3> SUFFICES ASSUME NEW x \in Pieces, NEW y \in Pieces, x # y
                   PROVE  x.units \cap y.units = {}
        OBVIOUS
      <3>1. (IsFree(x) \/ IsHeld(x) \/ IsPool(x)) /\ (IsFree(y) \/ IsHeld(y) \/ IsPool(y))
        BY <2>8
      <3>2. /\ IsFree(x) /\ IsFree(y) => x.units \cap y.units = {}
            /\ IsHeld(x) /\ IsHeld(y) => x.units \cap y.units = {}
            /\ IsPool(x) /\ IsPool(y) => x.units \cap y.units = {}
        BY <2>13, <2>14, <2>15
      <3>3. /\ IsFree(x) => x.units \subseteq PageUnits(F)
            /\ IsHeld(x) => x.units \subseteq PageUnits(held)
            /\ IsPool(x) => x.units \subseteq PageUnits(O)
        BY <2>10, <2>11, <2>12
      <3>4. /\ IsFree(y) => y.units \subseteq PageUnits(F)
            /\ IsHeld(y) => y.units \subseteq PageUnits(held)
            /\ IsPool(y) => y.units \subseteq PageUnits(O)
        BY <2>10, <2>11, <2>12
      <3> QED
        BY <2>5, <3>1, <3>2, <3>3, <3>4
    <2>17. ASSUME NEW x \in Pieces, NEW u \in x.units PROVE u \in PageUnits(region)
      <3>1. u \in PageUnits(F) \/ u \in PageUnits(held) \/ u \in PageUnits(O)
        BY <2>8, <2>10, <2>11, <2>12
      <3>2. F \subseteq region /\ held \subseteq region /\ O \subseteq region
        BY <2>1, <2>2 DEF O
      <3> QED
        BY <2>3, <2>4, <2>9, <3>1, <3>2
    <2>18. ASSUME NEW u \in PageUnits(region) PROVE \E x \in Pieces : u \in x.units
      <3> DEFINE p == u \div PAGE_UNITS
      <3>1. u \in Nat /\ p \in region
        BY <2>3, PageUnitsIs
      <3>2. \A R \in SUBSET Nat : p \in R => u \in PageUnits(R)
        BY <3>1, PageUnitsIs
      <3> HIDE DEF p
      <3>3. CASE p \in held
        <4>1. HeldPiece(p) \in Pieces
          BY <2>8, <3>3 DEF IsHeld
        <4>2. {p} \in SUBSET Nat /\ p \in {p}
          BY <2>4, <3>3
        <4>3. u \in HeldPiece(p).units
          BY <2>7, <3>2, <3>3, <4>2
        <4> QED
          BY <4>1, <4>3
      <3>4. CASE p \in F
        <4>1. PICK i \in DOMAIN list : p \in nodeRun(i)
          BY <3>4 DEF F, FreePagesOf, nodeRun
        <4>2. FreePiece(i) \in Pieces
          BY <2>8 DEF IsFree
        <4>3. u \in FreePiece(i).units
          BY <2>6, <3>2, <4>1
        <4> QED
          BY <4>2, <4>3
      <3>5. CASE p \in O
        <4>1. u \in PageUnits(O)
          BY <2>4, <3>2, <3>5
        <4>2. PICK q \in S : u \in Span(q)
          BY <2>2, <4>1, PartitionIs
        <4>3. \E x : PoolPiece(x, q)
          <5>1. CASE \E b \in buffers : q = Buffer(b)
            BY <5>1 DEF PoolPiece
          <5>2. CASE \E k \in PoolIndices : \E a \in Members(mMmPoolLists[k]) : q = Block(k, a)
            <6>1. PICK k \in PoolIndices : \E a \in Members(mMmPoolLists[k]) : q = Block(k, a)
              BY <5>2
            <6>2. PICK i \in DOMAIN mMmPoolLists[k] : q = Block(k, mMmPoolLists[k][i])
              BY <6>1 DEF Members
            <6> DEFINE e == <<k, i>>
            <6>3. e \in {k} \X DOMAIN mMmPoolLists[k] /\ e[1] = k /\ e[2] = i
              OBVIOUS
            <6>4. e \in FreeBlocks
              BY <6>3 DEF FreeBlocks
            <6>5. q = Block(e[1], BlockAt(e))
              BY <6>2, <6>3 DEF BlockAt
            <6> QED
              BY <6>4, <6>5 DEF PoolPiece
          <5> QED
            BY <4>2, <5>1, <5>2, PoolPiecesIs DEF S
        <4>4. PICK x : PoolPiece(x, q)
          BY <4>3
        <4>5. x \in Pieces
          BY <2>8, <4>4 DEF IsPool
        <4>6. x.units = Span(q)
          BY <4>4, PoolPieceIs
        <4> QED
          BY <4>2, <4>5, <4>6
      <3> QED
        BY <3>1, <3>3, <3>4, <3>5 DEF O
    <2>19. UNION {x.units : x \in Pieces} = PageUnits(region)
      BY <2>17, <2>18
    <2> QED
      BY <2>16, <2>19 DEF MemoryPartitioned, PageUnits
  <1> QED
    BY <1>1, PoolInvariant, PTL
=============================================================================
