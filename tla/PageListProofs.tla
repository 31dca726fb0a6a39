--------------------------- MODULE PageListProofs ---------------------------
(***************************************************************************)
(* What the operators of PageList do, for lists of any length: facts that  *)
(* the proofs about both allocators rest on.                               *)
(***************************************************************************)
EXTENDS PageList, SequenceTheorems, WellFoundedInduction, TLAPS

-----------------------------------------------------------------------------
(***************************************************************************)
(* Lists and the pages in them.                                            *)
(***************************************************************************)

EndOf(node) == node.page + node.pages

\* A free list in order: its nodes are not empty and do not overlap, and those that
\* touch the next one have their position in K.
Sorted(list, K) ==
  /\ list \in Seq(FreeNode)
  /\ \A i \in 1 .. Len(list) : list[i].pages > 0
  /\ \A i, j \in 1 .. Len(list) : i < j => EndOf(list[i]) <= list[j].page
  /\ \A i \in 1 .. (Len(list) - 1) : i \notin K => EndOf(list[i]) < list[i + 1].page

\* The types of a node's fields.
LEMMA NodeType ==
  ASSUME NEW list \in Seq(FreeNode), NEW i \in 1 .. Len(list)
  PROVE  /\ list[i] \in FreeNode /\ list[i].page \in Nat /\ list[i].pages \in Nat
         /\ EndOf(list[i]) \in Nat /\ list[i].page <= EndOf(list[i])
  <1>1. list[i] \in FreeNode
    BY ElementOfSeq
  <1>2. list[i].page \in Nat /\ list[i].pages \in Nat
    BY <1>1 DEF FreeNode
  <1> QED
    BY <1>1, <1>2 DEF EndOf

\* A page is free when it lies in a node.
LEMMA FreePagesIs ==
  ASSUME NEW list \in Seq(FreeNode), NEW p
  PROVE  p \in FreePagesOf(list) <=>
           p \in Int /\ \E i \in 1 .. Len(list) : list[i].page <= p /\ p < EndOf(list[i])
  <1>1. DOMAIN list = 1 .. Len(list)
    BY LenProperties
  <1>2. ASSUME NEW i \in 1 .. Len(list)
        PROVE  p \in Run(list[i].page, list[i].pages) <=>
                 p \in Int /\ list[i].page <= p /\ p < EndOf(list[i])
    BY NodeType, SMTT(30) DEF Run, EndOf
  <1>3. p \in FreePagesOf(list) <=>
          \E i \in 1 .. Len(list) : p \in Run(list[i].page, list[i].pages)
    BY <1>1 DEF FreePagesOf
  <1> QED
    BY <1>2, <1>3

\* In a list whose nodes never touch, every two nodes are apart.
LEMMA Apart ==
  ASSUME NEW list, Sorted(list, {}), NEW i \in 1 .. Len(list), NEW j \in 1 .. Len(list), i < j
  PROVE  EndOf(list[i]) < list[j].page
  <1>1. Len(list) \in Nat /\ list \in Seq(FreeNode)
    BY LenProperties DEF Sorted
  <1>2. i + 1 \in 1 .. Len(list) /\ i \in 1 .. (Len(list) - 1)
    BY <1>1
  <1>3. EndOf(list[i]) < list[i + 1].page /\ list[i + 1].pages > 0
    BY <1>2 DEF Sorted
  <1>4. CASE j = i + 1
    BY <1>3, <1>4
  <1>5. CASE j # i + 1
    <2>1. EndOf(list[i + 1]) <= list[j].page
      BY <1>1, <1>2, <1>5 DEF Sorted
    <2>2. /\ EndOf(list[i]) \in Nat /\ list[j].page \in Nat
          /\ list[i + 1].page \in Nat /\ list[i + 1].pages \in Nat
      BY <1>1, <1>2, NodeType
    <2> QED
      BY <1>3, <2>1, <2>2 DEF EndOf
  <1> QED
    BY <1>4, <1>5

\* The lists that FreeListMerged describes are those in which no nodes touch.
LEMMA MergedIsSorted ==
  ASSUME NEW list \in Seq(FreeNode)
  PROVE  Sorted(list, {}) <=>
           /\ \A i \in DOMAIN list : list[i].pages > 0
           /\ \A i, j \in DOMAIN list : i < j => list[i].page + list[i].pages < list[j].page
  <1>1. DOMAIN list = 1 .. Len(list) /\ Len(list) \in Nat
    BY LenProperties
  <1>2. ASSUME Sorted(list, {})
        PROVE  /\ \A i \in DOMAIN list : list[i].pages > 0
               /\ \A i, j \in DOMAIN list : i < j => list[i].page + list[i].pages < list[j].page
    <2>1. \A i \in DOMAIN list : list[i].pages > 0
      BY <1>1, <1>2 DEF Sorted
    <2>2. \A i, j \in DOMAIN list : i < j => EndOf(list[i]) < list[j].page
      BY <1>1, <1>2, Apart
    <2> QED
      BY <2>1, <2>2 DEF EndOf
  <1>3. ASSUME /\ \A i \in DOMAIN list : list[i].pages > 0
               /\ \A i, j \in DOMAIN list : i < j => list[i].page + list[i].pages < list[j].page
        PROVE  Sorted(list, {})
    <2>1. \A i, j \in 1 .. Len(list) : i < j => EndOf(list[i]) < list[j].page
      BY <1>1, <1>3 DEF EndOf
    <2>2. \A i, j \in 1 .. Len(list) : i < j => EndOf(list[i]) <= list[j].page
      BY <2>1, NodeType
    <2>3. \A i \in 1 .. (Len(list) - 1) : EndOf(list[i]) < list[i + 1].page
      BY <1>1, <2>1
    <2> QED
      BY <1>1, <1>3, <2>2, <2>3 DEF Sorted
  <1> QED
    BY <1>2, <1>3

\* The first a nodes of a list, the nodes of t, and the list again from node b on.
Spliced(list, a, t, b) == SubSeq(list, 1, a) \o t \o SubSeq(list, b, Len(list))

\* What its nodes are.
IsSplice(s, list, a, t, b) ==
  LET c == a + Len(t) - b + 1
  IN /\ s \in Seq(FreeNode)
     /\ Len(s) = Len(list) + c
     /\ \A i \in 1 .. a : s[i] = list[i]
     /\ \A i \in 1 .. Len(t) : s[a + i] = t[i]
     /\ \A i \in b .. Len(list) : s[i + c] = list[i]

\* The two ends of a list around the nodes of t, node by node.
LEMMA Splice ==
  ASSUME NEW list \in Seq(FreeNode), NEW t \in Seq(FreeNode),
         NEW a \in Nat, NEW b \in Nat, a < b, b <= Len(list) + 1
  PROVE  IsSplice(Spliced(list, a, t, b), list, a, t, b)
  <1> DEFINE n == Len(list)
             l == SubSeq(list, 1, a)
             r == SubSeq(list, b, n)
             lt == l \o t
             s == lt \o r
             c == a + Len(t) - b + 1
  <1>1. n \in Nat /\ Len(t) \in Nat
    BY LenProperties
  <1>2. /\ l \in Seq(FreeNode) /\ Len(l) = a
        /\ \A i \in 1 .. a : l[i] = list[i]
    <2>1. \A i \in 1 .. a : list[i] \in FreeNode
      BY <1>1, NodeType
    <2>2. /\ l \in Seq(FreeNode)
          /\ Len(l) = IF 1 <= a THEN a - 1 + 1 ELSE 0
          /\ \A i \in 1 .. (a - 1 + 1) : l[i] = list[1 + i - 1]
      BY <2>1, SubSeqProperties
    <2> QED
      BY <2>2
  <1>3. /\ r \in Seq(FreeNode) /\ Len(r) = n - b + 1
        /\ \A i \in 1 .. (n - b + 1) : r[i] = list[b + i - 1]
    <2>1. \A i \in b .. n : list[i] \in FreeNode
      BY <1>1, NodeType
    <2>2. /\ r \in Seq(FreeNode)
          /\ Len(r) = IF b <= n THEN n - b + 1 ELSE 0
          /\ \A i \in 1 .. (n - b + 1) : r[i] = list[b + i - 1]
      BY <1>1, <2>1, SubSeqProperties
    <2> QED
      BY <1>1, <2>2
  <1> HIDE DEF l, r, n
  <1>4. /\ lt \in Seq(FreeNode) /\ Len(lt) = a + Len(t)
        /\ \A i \in 1 .. (a + Len(t)) : lt[i] = IF i <= a THEN l[i] ELSE t[i - a]
    BY <1>2, ConcatProperties
  <1> HIDE DEF lt
  <1>5. /\ s \in Seq(FreeNode) /\ Len(s) = a + Len(t) + (n - b + 1)
        /\ \A i \in 1 .. (a + Len(t) + (n - b + 1)) :
             s[i] = IF i <= a + Len(t) THEN lt[i] ELSE r[i - (a + Len(t))]
    BY <1>3, <1>4, ConcatProperties, SMTT(30)
  <1> HIDE DEF s
  <1>6. Len(s) = n + c
    BY <1>1, <1>5
  <1>7. ASSUME NEW i \in 1 .. a PROVE s[i] = list[i]
    <2>1. /\ i \in 1 .. (a + Len(t) + (n - b + 1)) /\ i <= a + Len(t)
          /\ i \in 1 .. (a + Len(t)) /\ i <= a
      BY <1>1 DEF n
    <2> QED
      BY <2>1, <1>2, <1>4, <1>5
  <1>8. ASSUME NEW i \in 1 .. Len(t) PROVE s[a + i] = t[i]
    <2>1. /\ a + i \in 1 .. (a + Len(t) + (n - b + 1)) /\ a + i <= a + Len(t)
          /\ a + i \in 1 .. (a + Len(t)) /\ ~(a + i <= a) /\ a + i - a = i
      BY <1>1 DEF n
    <2> QED
      BY <2>1, <1>4, <1>5
  <1>9. ASSUME NEW i \in b .. n PROVE s[i + c] = list[i]
    <2>1. /\ i + c \in 1 .. (a + Len(t) + (n - b + 1)) /\ ~(i + c <= a + Len(t))
          /\ i + c - (a + Len(t)) = i - b + 1
          /\ i - b + 1 \in 1 .. (n - b + 1) /\ b + (i - b + 1) - 1 = i
      BY <1>1
    <2>2. s[i + c] = r[i - b + 1]
      BY <2>1, <1>5
    <2> QED
      BY <2>1, <2>2, <1>3
  <1> QED
    BY <1>5, <1>6, <1>7, <1>8, <1>9 DEF s, lt, l, r, n, Spliced, IsSplice

\* Where each node of a spliced list comes from.
LEMMA SpliceFrom ==
  ASSUME NEW list \in Seq(FreeNode), NEW t \in Seq(FreeNode),
         NEW a \in Nat, NEW b \in Nat, a < b, b <= Len(list) + 1
  PROVE  LET s == Spliced(list, a, t, b)
             c == a + Len(t) - b + 1
         IN \A i \in 1 .. Len(s) :
              \/ i \in 1 .. a /\ s[i] = list[i]
              \/ i - a \in 1 .. Len(t) /\ s[i] = t[i - a]
              \/ i - c \in b .. Len(list) /\ s[i] = list[i - c]
  <1> DEFINE n == Len(list)
             s == Spliced(list, a, t, b)
             c == a + Len(t) - b + 1
  <1>1. n \in Nat /\ Len(t) \in Nat
    BY LenProperties
  <1>2. /\ Len(s) = n + c
        /\ \A i \in 1 .. a : s[i] = list[i]
        /\ \A i \in 1 .. Len(t) : s[a + i] = t[i]
        /\ \A i \in b .. n : s[i + c] = list[i]
    <2>1. IsSplice(s, list, a, t, b)
      BY Splice
    <2> HIDE DEF s
    <2> QED
      BY <2>1 DEF IsSplice
  <1> HIDE DEF s
  <1>3. ASSUME NEW i \in 1 .. Len(s)
        PROVE  \/ i \in 1 .. a /\ s[i] = list[i]
               \/ i - a \in 1 .. Len(t) /\ s[i] = t[i - a]
               \/ i - c \in b .. n /\ s[i] = list[i - c]
    <2>1. i \in 1 .. (n + c)
      BY <1>2
    <2>2. CASE i <= a
      BY <2>1, <2>2, <1>2
    <2>3. CASE a < i /\ i <= a + Len(t)
      <3>1. i - a \in 1 .. Len(t) /\ a + (i - a) = i
        BY <1>1, <2>1, <2>3
      <3> QED
        BY <3>1, <1>2
    <2>4. CASE a + Len(t) < i
      <3>1. i - c \in b .. n /\ (i - c) + c = i
        BY <1>1, <2>1, <2>4
      <3> QED
        BY <3>1, <1>2
    <2> QED
      BY <1>1, <2>1, <2>2, <2>3, <2>4
  <1> QED
    BY <1>3 DEF s

\* The pages of a spliced list.
LEMMA SplicePages ==
  ASSUME NEW list \in Seq(FreeNode), NEW t \in Seq(FreeNode),
         NEW a \in Nat, NEW b \in Nat, a < b, b <= Len(list) + 1, NEW p
  PROVE  LET s == Spliced(list, a, t, b)
         IN p \in FreePagesOf(s) <=>
              \/ p \in FreePagesOf(t)
              \/ p \in Int /\ \E i \in 1 .. Len(list) :
                   (i <= a \/ b <= i) /\ list[i].page <= p /\ p < EndOf(list[i])
  <1> DEFINE n == Len(list)
             s == Spliced(list, a, t, b)
             c == a + Len(t) - b + 1
             Has(node) == node.page <= p /\ p < EndOf(node)
  <1>1. n \in Nat /\ Len(t) \in Nat
    BY LenProperties
  <1>2. /\ s \in Seq(FreeNode) /\ Len(s) = n + c
        /\ \A i \in 1 .. a : s[i] = list[i]
        /\ \A i \in 1 .. Len(t) : s[a + i] = t[i]
        /\ \A i \in b .. n : s[i + c] = list[i]
    <2>1. IsSplice(s, list, a, t, b)
      BY Splice
    <2> HIDE DEF s
    <2> QED
      BY <2>1 DEF IsSplice
  <1>3. \A i \in 1 .. Len(s) :
              \/ i \in 1 .. a /\ s[i] = list[i]
              \/ i - a \in 1 .. Len(t) /\ s[i] = t[i - a]
              \/ i - c \in b .. n /\ s[i] = list[i - c]
    BY SpliceFrom
  <1> HIDE DEF s, Has
  <1>4. (\E i \in 1 .. Len(s) : Has(s[i])) <=>
          \/ \E i \in 1 .. Len(t) : Has(t[i])
          \/ \E i \in 1 .. n : (i <= a \/ b <= i) /\ Has(list[i])
    <2>1. ASSUME NEW i \in 1 .. Len(s), Has(s[i])
          PROVE  \/ \E j \in 1 .. Len(t) : Has(t[j])
                 \/ \E j \in 1 .. n : (j <= a \/ b <= j) /\ Has(list[j])
      <3>1. CASE i \in 1 .. a /\ s[i] = list[i]
        <4>1. i \in 1 .. n
          BY <1>1, <3>1 DEF n
        <4> QED
          BY <2>1, <3>1, <4>1
      <3>2. CASE i - a \in 1 .. Len(t) /\ s[i] = t[i - a]
        BY <2>1, <3>2
      <3>3. CASE i - c \in b .. n /\ s[i] = list[i - c]
        <4>1. i - c \in 1 .. n /\ b <= i - c
          BY <1>1, <3>3
        <4> QED
          BY <2>1, <3>3, <4>1
      <3> QED
        BY <1>3, <3>1, <3>2, <3>3
    <2>2. ASSUME NEW i \in 1 .. Len(t), Has(t[i])
          PROVE  \E j \in 1 .. Len(s) : Has(s[j])
      <3>1. a + i \in 1 .. Len(s)
        BY <1>1, <1>2 DEF n
      <3> QED
        BY <1>2, <2>2, <3>1
    <2>3. ASSUME NEW i \in 1 .. n, i <= a \/ b <= i, Has(list[i])
          PROVE  \E j \in 1 .. Len(s) : Has(s[j])
      <3>1. CASE i <= a
        <4>1. i \in 1 .. a /\ i \in 1 .. Len(s)
          BY <1>1, <1>2, <3>1 DEF n
        <4> QED
          BY <1>2, <2>3, <4>1
      <3>2. CASE b <= i
        <4>1. i \in b .. n /\ i + c \in 1 .. Len(s)
          BY <1>1, <1>2, <3>2 DEF n
        <4> QED
          BY <1>2, <2>3, <4>1
      <3> QED
        BY <2>3, <3>1, <3>2
    <2> QED
      BY <2>1, <2>2, <2>3
  <1>5. p \in FreePagesOf(s) <=> p \in Int /\ \E i \in 1 .. Len(s) : Has(s[i])
    BY <1>2, FreePagesIs DEF Has
  <1>6. p \in FreePagesOf(t) <=> p \in Int /\ \E i \in 1 .. Len(t) : Has(t[i])
    BY FreePagesIs DEF Has
  <1> QED
    BY <1>4, <1>5, <1>6 DEF s, Has

\* Splicing nodes into a list keeps it in order when they fit between its two ends.
LEMMA SpliceSorted ==
  ASSUME NEW list, Sorted(list, {}), NEW t, Sorted(t, {}), NEW K,
         NEW a \in Nat, NEW b \in Nat, a < b, b <= Len(list) + 1,
         \A i \in 1 .. a, j \in 1 .. Len(t) :
           /\ EndOf(list[i]) <= t[j].page
           /\ i \notin K => EndOf(list[i]) < t[j].page,
         \A j \in 1 .. Len(t), i \in b .. Len(list) :
           /\ EndOf(t[j]) <= list[i].page
           /\ a + j \notin K => EndOf(t[j]) < list[i].page
  PROVE  Sorted(Spliced(list, a, t, b), K)
  <1> DEFINE n == Len(list)
             s == Spliced(list, a, t, b)
             c == a + Len(t) - b + 1
             Before(i, j) == /\ EndOf(s[i]) <= s[j].page
                             /\ i \notin K => EndOf(s[i]) < s[j].page
  <1>1. list \in Seq(FreeNode) /\ t \in Seq(FreeNode) /\ n \in Nat /\ Len(t) \in Nat
    BY LenProperties DEF Sorted
  <1>2. s \in Seq(FreeNode) /\ Len(s) = n + c
    <2>1. IsSplice(s, list, a, t, b)
      BY <1>1, Splice
    <2> HIDE DEF s
    <2> QED
      BY <2>1 DEF IsSplice
  <1>3. \A i \in 1 .. Len(s) :
              \/ i \in 1 .. a /\ s[i] = list[i]
              \/ i - a \in 1 .. Len(t) /\ s[i] = t[i - a]
              \/ i - c \in b .. n /\ s[i] = list[i - c]
    BY <1>1, SpliceFrom
  <1>4. 1 .. a \subseteq 1 .. n /\ b .. n \subseteq 1 .. n
    BY <1>1
  <1> HIDE DEF s, Before
  <1>5. ASSUME NEW i \in 1 .. Len(s), NEW j \in 1 .. Len(s), i < j
        PROVE  Before(i, j)
    <2>1. EndOf(s[i]) \in Nat /\ s[j].page \in Nat
      BY <1>2, NodeType
    <2>2. SUFFICES \/ EndOf(s[i]) < s[j].page
                   \/ EndOf(s[i]) <= s[j].page /\ i \in K
      BY <2>1 DEF Before
    <2>3. CASE i \in 1 .. a /\ s[i] = list[i]
      <3>1. CASE j \in 1 .. a /\ s[j] = list[j]
        BY <1>4, <1>5, <2>3, <3>1, Apart
      <3>2. CASE j - a \in 1 .. Len(t) /\ s[j] = t[j - a]
        BY <2>3, <3>2
      <3>3. CASE j - c \in b .. n /\ s[j] = list[j - c]
        <4>1. i < j - c /\ i \in 1 .. n /\ j - c \in 1 .. n
          BY <1>1, <1>4, <2>3, <3>3
        <4> QED
          BY <2>3, <3>3, <4>1, Apart
      <3> QED
        BY <1>3, <3>1, <3>2, <3>3
    <2>4. CASE i - a \in 1 .. Len(t) /\ s[i] = t[i - a]
      <3>0. a + (i - a) = i
        OBVIOUS
      <3>1. CASE j \in 1 .. a /\ s[j] = list[j]
        BY <1>1, <1>5, <2>4, <3>1
      <3>2. CASE j - a \in 1 .. Len(t) /\ s[j] = t[j - a]
        <4>1. i - a < j - a
          BY <1>5
        <4> QED
          BY <4>1, <2>4, <3>2, Apart
      <3>3. CASE j - c \in b .. n /\ s[j] = list[j - c]
        BY <2>4, <3>0, <3>3
      <3> QED
        BY <1>3, <3>1, <3>2, <3>3
    <2>5. CASE i - c \in b .. n /\ s[i] = list[i - c]
      <3>0. a + Len(t) < i
        BY <1>1, <2>5
      <3>1. CASE j \in 1 .. a /\ s[j] = list[j]
        BY <1>1, <1>5, <3>0, <3>1
      <3>2. CASE j - a \in 1 .. Len(t) /\ s[j] = t[j - a]
        BY <1>1, <1>5, <3>0, <3>2
      <3>3. CASE j - c \in b .. n /\ s[j] = list[j - c]
        <4>1. i - c < j - c /\ i - c \in 1 .. n /\ j - c \in 1 .. n
          BY <1>1, <1>4, <1>5, <2>5, <3>3
        <4> QED
          BY <4>1, <2>5, <3>3, Apart
      <3> QED
        BY <1>3, <3>1, <3>2, <3>3
    <2> QED
      BY <1>3, <2>3, <2>4, <2>5
  <1>6. ASSUME NEW i \in 1 .. Len(s) PROVE s[i].pages > 0
    BY <1>3, <1>4 DEF Sorted
  <1>7. \A i \in 1 .. (Len(s) - 1) : Before(i, i + 1)
    BY <1>1, <1>2, <1>5, SMTT(30)
  <1> QED
    BY <1>2, <1>5, <1>6, <1>7 DEF s, Before, Sorted

-----------------------------------------------------------------------------
(***************************************************************************)
(* Cutting a node, inserting one, merging two.                             *)
(***************************************************************************)

\* A node replaced by parts of it that do not touch (InternalAllocPagesOnOneNode).
LEMMA ReplacedEffect ==
  ASSUME NEW list, Sorted(list, {}), NEW t, Sorted(t, {}), NEW k \in 1 .. Len(list),
         \A j \in 1 .. Len(t) : list[k].page <= t[j].page /\ EndOf(t[j]) <= EndOf(list[k])
  PROVE  /\ Sorted(Replaced(list, k, t), {})
         /\ FreePagesOf(Replaced(list, k, t)) =
              (FreePagesOf(list) \ Run(list[k].page, list[k].pages)) \cup FreePagesOf(t)
  <1>1. /\ list \in Seq(FreeNode) /\ t \in Seq(FreeNode)
        /\ Len(list) \in Nat /\ Len(t) \in Nat
    BY LenProperties DEF Sorted
  <1>2. k - 1 \in Nat /\ k + 1 \in Nat /\ k - 1 < k + 1 /\ k + 1 <= Len(list) + 1
    BY <1>1
  <1>3. Replaced(list, k, t) = Spliced(list, k - 1, t, k + 1)
    BY DEF Replaced, Spliced
  <1>4. ASSUME NEW i \in 1 .. (k - 1), NEW j \in 1 .. Len(t)
        PROVE  EndOf(list[i]) < t[j].page /\ EndOf(list[i]) <= t[j].page
    <2>1. i \in 1 .. Len(list) /\ i < k
      BY <1>1
    <2>2. EndOf(list[i]) < list[k].page
      BY <2>1, Apart
    <2>3. EndOf(list[i]) \in Nat /\ list[k].page \in Nat /\ t[j].page \in Nat
      BY <1>1, <2>1, NodeType
    <2> QED
      BY <2>2, <2>3
  <1>5. ASSUME NEW j \in 1 .. Len(t), NEW i \in (k + 1) .. Len(list)
        PROVE  EndOf(t[j]) < list[i].page /\ EndOf(t[j]) <= list[i].page
    <2>1. i \in 1 .. Len(list) /\ k < i
      BY <1>1
    <2>2. EndOf(list[k]) < list[i].page
      BY <2>1, Apart
    <2>3. EndOf(list[k]) \in Nat /\ list[i].page \in Nat /\ EndOf(t[j]) \in Nat
      BY <1>1, <2>1, NodeType
    <2> QED
      BY <2>2, <2>3
  <1>6. Sorted(Spliced(list, k - 1, t, k + 1), {})
    BY <1>2, <1>4, <1>5, SpliceSorted
  <1>7. ASSUME NEW p
        PROVE  p \in FreePagesOf(Spliced(list, k - 1, t, k + 1)) <=>
                 \/ p \in FreePagesOf(t)
                 \/ p \in FreePagesOf(list) /\ p \notin Run(list[k].page, list[k].pages)
    <2> DEFINE Has(i) == list[i].page <= p /\ p < EndOf(list[i])
    <2>1. p \in FreePagesOf(Spliced(list, k - 1, t, k + 1)) <=>
              \/ p \in FreePagesOf(t)
              \/ p \in Int /\ \E i \in 1 .. Len(list) : (i <= k - 1 \/ k + 1 <= i) /\ Has(i)
      BY <1>1, <1>2, SplicePages
    <2>2. p \in FreePagesOf(list) <=> p \in Int /\ \E i \in 1 .. Len(list) : Has(i)
      BY <1>1, FreePagesIs
    <2>3. p \in Run(list[k].page, list[k].pages) <=> p \in Int /\ Has(k)
      BY <1>1, NodeType, SMTT(30) DEF Run, EndOf
    <2>4. ASSUME NEW i \in 1 .. Len(list), p \in Int, Has(i), Has(k) PROVE i = k
      <3>1. /\ i < k => EndOf(list[i]) < list[k].page
            /\ k < i => EndOf(list[k]) < list[i].page
        BY Apart
      <3>2. /\ EndOf(list[i]) \in Nat /\ list[k].page \in Nat
            /\ EndOf(list[k]) \in Nat /\ list[i].page \in Nat
        BY <1>1, NodeType
      <3> QED
        BY <2>4, <3>1, <3>2
    <2> HIDE DEF Has
    <2>5. \A i \in 1 .. Len(list) : (i <= k - 1 \/ k + 1 <= i) <=> i # k
      BY <1>1
    <2> QED
      BY <2>1, <2>2, <2>3, <2>4, <2>5
  <1> QED
    BY <1>3, <1>6, <1>7

\* The sequence of one node.
LEMMA OneNode ==
  ASSUME NEW node \in FreeNode
  PROVE  /\ <<node>> \in Seq(FreeNode) /\ Len(<<node>>) = 1 /\ <<node>>[1] = node
         /\ node.page \in Nat /\ node.pages \in Nat
         /\ node.pages > 0 => Sorted(<<node>>, {})
         /\ FreePagesOf(<<node>>) = Run(node.page, node.pages)
  <1>1. /\ <<node>> \in Seq(FreeNode) /\ Len(<<node>>) = 1 /\ <<node>>[1] = node
        /\ node.page \in Nat /\ node.pages \in Nat
    BY DEF FreeNode
  <1> DEFINE t == <<node>>
  <1>2. node.pages > 0 => Sorted(t, {})
    <2> HIDE DEF t
    <2> QED
      BY <1>1 DEF Sorted, t
  <1>3. ASSUME NEW p PROVE p \in FreePagesOf(t) <=> p \in Run(node.page, node.pages)
    <2>1. t \in Seq(FreeNode) /\ Len(t) = 1 /\ t[1] = node
      BY <1>1
    <2> HIDE DEF t
    <2>2. p \in FreePagesOf(t) <=>
            p \in Int /\ \E i \in 1 .. Len(t) : t[i].page <= p /\ p < EndOf(t[i])
      BY <2>1, FreePagesIs
    <2>3. p \in FreePagesOf(t) <=> p \in Int /\ node.page <= p /\ p < EndOf(node)
      BY <2>1, <2>2
    <2> QED
      BY <1>1, <2>3 DEF Run, EndOf
  <1> QED
    BY <1>1, <1>2, <1>3

\* A node inserted between its neighbours, which it may touch (MmInternalFreePages).
LEMMA InsertEffect ==
  ASSUME NEW list, Sorted(list, {}), NEW k \in 1 .. (Len(list) + 1),
         NEW node \in FreeNode, node.pages > 0,
         k > 1 => EndOf(list[k - 1]) <= node.page,
         k <= Len(list) => EndOf(node) <= list[k].page
  PROVE  LET s == Spliced(list, k - 1, <<node>>, k)
         IN /\ Sorted(s, {k - 1, k})
            /\ Len(s) = Len(list) + 1
            /\ FreePagesOf(s) = FreePagesOf(list) \cup Run(node.page, node.pages)
  <1> DEFINE t == <<node>>
             n == Len(list)
             s == Spliced(list, k - 1, t, k)
  <1>1. list \in Seq(FreeNode) /\ n \in Nat
    BY LenProperties DEF Sorted
  <1>2. k - 1 \in Nat /\ k \in Nat /\ k - 1 < k /\ k <= n + 1
    BY <1>1
  <1>3. /\ t \in Seq(FreeNode) /\ Len(t) = 1 /\ t[1] = node /\ Sorted(t, {})
        /\ node.page \in Nat /\ node.pages \in Nat
        /\ FreePagesOf(t) = Run(node.page, node.pages)
    BY OneNode
  <1> HIDE DEF t
  <1>4. ASSUME NEW i \in 1 .. (k - 1), NEW j \in 1 .. Len(t)
        PROVE  /\ EndOf(list[i]) <= t[j].page
               /\ i \notin {k - 1, k} => EndOf(list[i]) < t[j].page
    <2>1. j = 1 /\ t[j] = node
      BY <1>3
    <2>2. k > 1 /\ k - 1 \in 1 .. n /\ i \in 1 .. n
      BY <1>1, <1>2
    <2>3. EndOf(list[k - 1]) <= node.page
      BY <2>2
    <2>4. CASE i = k - 1
      BY <2>1, <2>3, <2>4
    <2>5. CASE i # k - 1
      <3>1. EndOf(list[i]) < list[k - 1].page
        BY <1>2, <2>2, <2>5, Apart
      <3>2. /\ EndOf(list[i]) \in Nat /\ list[k - 1].page \in Nat /\ list[k - 1].pages \in Nat
            /\ EndOf(list[k - 1]) = list[k - 1].page + list[k - 1].pages
        BY <1>1, <2>2, NodeType DEF EndOf
      <3> QED
        BY <1>3, <2>1, <2>3, <3>1, <3>2, SMTT(30)
    <2> QED
      BY <2>4, <2>5
  <1>5. ASSUME NEW j \in 1 .. Len(t), NEW i \in k .. n
        PROVE  /\ EndOf(t[j]) <= list[i].page
               /\ (k - 1) + j \notin {k - 1, k} => EndOf(t[j]) < list[i].page
    <2>1. j = 1 /\ t[j] = node /\ (k - 1) + j = k
      BY <1>2, <1>3
    <2>2. k <= n /\ k \in 1 .. n /\ i \in 1 .. n
      BY <1>1, <1>2
    <2>3. EndOf(node) <= list[k].page
      BY <2>2
    <2>4. list[k].page \in Nat /\ list[i].page \in Nat /\ list[k].pages \in Nat
      BY <1>1, <2>2, NodeType
    <2>5. i = k \/ EndOf(list[k]) < list[i].page
      BY <1>2, <2>2, Apart
    <2>6. EndOf(node) \in Nat /\ EndOf(list[k]) = list[k].page + list[k].pages
      BY <1>3 DEF EndOf
    <2> QED
      BY <2>1, <2>3, <2>4, <2>5, <2>6, SMTT(30)
  <1>6. Sorted(s, {k - 1, k})
    BY <1>2, <1>3, <1>4, <1>5, SpliceSorted
  <1>7. Len(s) = n + 1
    <2>1. IsSplice(s, list, k - 1, t, k)
      BY <1>1, <1>2, <1>3, Splice
    <2> HIDE DEF s
    <2> QED
      BY <1>1, <1>2, <1>3, <2>1 DEF IsSplice
  <1>8. ASSUME NEW p
        PROVE  p \in FreePagesOf(s) <=>
                 p \in FreePagesOf(list) \/ p \in Run(node.page, node.pages)
    <2> DEFINE Has(i) == list[i].page <= p /\ p < EndOf(list[i])
    <2>1. p \in FreePagesOf(s) <=>
              \/ p \in FreePagesOf(t)
              \/ p \in Int /\ \E i \in 1 .. n : (i <= k - 1 \/ k <= i) /\ Has(i)
      BY <1>1, <1>2, <1>3, SplicePages
    <2>2. p \in FreePagesOf(list) <=> p \in Int /\ \E i \in 1 .. n : Has(i)
      BY <1>1, FreePagesIs
    <2>3. \A i \in 1 .. n : i <= k - 1 \/ k <= i
      BY <1>1, <1>2
    <2> HIDE DEF Has
    <2> QED
      BY <1>3, <2>1, <2>2, <2>3
  <1> QED
    BY <1>6, <1>7, <1>8 DEF t

\* Merging two neighbours keeps the pages and the order; after it they no longer touch.
\* K and L are the positions that touch the next one before and after.
LEMMA MergeEffect ==
  ASSUME NEW list, NEW k, NEW K, NEW L, Sorted(list, K \cup {k}), k \notin K,
         k \in 1 .. (Len(list) - 1),
         \A i \in 1 .. (k - 1) : i \in K => i \in L,
         \A i \in k .. Len(list) : i + 1 \in K => i \in L
  PROVE  LET r == InternalMergeNodes(list, k)
         IN /\ FreePagesOf(r) = FreePagesOf(list)
            /\ \/ r = list /\ Sorted(r, K)
               \/ Len(r) = Len(list) - 1 /\ Sorted(r, L)
  <1> DEFINE n == Len(list)
             node == [page |-> list[k].page, pages |-> list[k].pages + list[k + 1].pages]
             t == <<node>>
             r == Spliced(list, k - 1, t, k + 2)
  <1>1. list \in Seq(FreeNode) /\ n \in Nat
    BY LenProperties DEF Sorted
  <1>2. /\ k \in 1 .. n /\ k + 1 \in 1 .. n /\ k < k + 1 /\ k - 1 \in Nat /\ k + 2 \in Nat
        /\ k - 1 < k + 2 /\ k + 2 <= n + 1
    BY <1>1
  <1>3. /\ list[k].page \in Nat /\ list[k].pages \in Nat
        /\ list[k + 1].page \in Nat /\ list[k + 1].pages \in Nat
    BY <1>1, <1>2, NodeType
  <1>4. CASE EndOf(list[k]) # list[k + 1].page
    <2>1. InternalMergeNodes(list, k) = list
      BY <1>4 DEF InternalMergeNodes, EndOf
    <2>2. EndOf(list[k]) < list[k + 1].page
      <3>1. EndOf(list[k]) <= list[k + 1].page
        BY <1>2 DEF Sorted
      <3>2. EndOf(list[k]) \in Nat
        BY <1>3 DEF EndOf
      <3> QED
        BY <1>3, <1>4, <3>1, <3>2
    <2>3. Sorted(list, K)
      BY <2>2 DEF Sorted
    <2> QED
      BY <2>1, <2>3
  <1>5. CASE EndOf(list[k]) = list[k + 1].page
    <2>1. InternalMergeNodes(list, k) = r
      BY <1>5 DEF InternalMergeNodes, EndOf, Spliced
    <2>2. node \in FreeNode
      BY <1>3, SMTT(30) DEF FreeNode
    <2>3. node.page = list[k].page /\ EndOf(node) = EndOf(list[k + 1])
      BY <1>3, <1>5 DEF EndOf
    <2>3a. node.pages > 0
      <3>1. list[k].pages > 0
        BY <1>2 DEF Sorted
      <3>2. node.pages = list[k].pages + list[k + 1].pages
        OBVIOUS
      <3> QED
        BY <1>3, <3>1, <3>2
    <2> HIDE DEF node
    <2>4. /\ t \in Seq(FreeNode) /\ Len(t) = 1 /\ t[1] = node
          /\ FreePagesOf(t) = Run(node.page, node.pages)
          /\ node.page \in Nat /\ node.pages \in Nat
      BY <2>2, OneNode
    <2> HIDE DEF t
    <2>5. IsSplice(r, list, k - 1, t, k + 2)
      BY <1>1, <1>2, <2>4, Splice
    <2> HIDE DEF r
    <2>6. /\ r \in Seq(FreeNode) /\ Len(r) = n - 1
          /\ \A i \in 1 .. (k - 1) : r[i] = list[i]
          /\ r[k] = node
          /\ \A i \in (k + 2) .. n : r[i - 1] = list[i]
      <3>1. \A i \in (k + 2) .. n : i + ((k - 1) + 1 - (k + 2) + 1) = i - 1
        BY <1>1, <1>2
      <3>2. (k - 1) + 1 = k /\ n + ((k - 1) + 1 - (k + 2) + 1) = n - 1
        BY <1>1, <1>2
      <3> QED
        BY <2>4, <2>5, <3>1, <3>2 DEF IsSplice
    <2> DEFINE first(i) == IF i <= k THEN i ELSE i + 1
               final(i) == IF i < k THEN i ELSE i + 1
    <2>7. ASSUME NEW i \in 1 .. (n - 1)
          PROVE  /\ first(i) \in 1 .. n /\ final(i) \in 1 .. n
                 /\ r[i].page = list[first(i)].page /\ EndOf(r[i]) = EndOf(list[final(i)])
                 /\ r[i].pages > 0
      <3>1. CASE i < k
        <4>1. i \in 1 .. (k - 1) /\ i \in 1 .. n
          BY <1>1, <1>2, <3>1
        <4>2. r[i] = list[i]
          BY <2>6, <4>1
        <4>3. list[i].pages > 0
          BY <4>1 DEF Sorted
        <4>4. i <= k
          BY <1>2, <3>1, <4>1
        <4> QED
          BY <3>1, <4>1, <4>2, <4>3, <4>4
      <3>2. CASE i = k
        BY <1>2, <2>3, <2>3a, <2>6, <3>2, SMTT(30)
      <3>3. CASE i > k
        <4>1. i + 1 \in (k + 2) .. n /\ i + 1 \in 1 .. n /\ (i + 1) - 1 = i
          BY <1>1, <1>2, <3>3
        <4>2. r[i] = list[i + 1]
          BY <2>6, <4>1
        <4>3. ~(i <= k) /\ ~(i < k)
          BY <1>2, <3>3
        <4> QED
          BY <4>1, <4>2, <4>3 DEF Sorted
      <3> QED
        BY <1>2, <3>1, <3>2, <3>3
    <2>8. ASSUME NEW i \in 1 .. (n - 1), NEW j \in 1 .. (n - 1), i < j
          PROVE  EndOf(r[i]) <= r[j].page
      <3>1. final(i) < first(j)
        BY <1>2, <2>8
      <3>2. /\ final(i) \in 1 .. n /\ first(j) \in 1 .. n
            /\ r[j].page = list[first(j)].page /\ EndOf(r[i]) = EndOf(list[final(i)])
        BY <2>7
      <3> HIDE DEF first, final
      <3> QED
        BY <3>1, <3>2 DEF Sorted
    <2>9. ASSUME NEW i \in 1 .. (n - 1 - 1), i \notin L
          PROVE  EndOf(r[i]) < r[i + 1].page
      <3>1. /\ final(i) + 1 = first(i + 1) /\ final(i) \in 1 .. (n - 1)
            /\ i \in 1 .. (n - 1) /\ i + 1 \in 1 .. (n - 1)
        BY <1>1, <1>2
      <3>2. final(i) # k
        BY <1>2
      <3>3. final(i) \notin K
        <4>1. CASE i < k
          BY <1>2, <2>9, <4>1
        <4>2. CASE ~(i < k)
          <5>1. i \in k .. n
            BY <1>1, <1>2, <4>2
          <5> QED
            BY <2>9, <4>2, <5>1
        <4> QED
          BY <4>1, <4>2
      <3>4. r[i + 1].page = list[first(i + 1)].page /\ EndOf(r[i]) = EndOf(list[final(i)])
        BY <2>7, <3>1
      <3> HIDE DEF first, final
      <3>5. EndOf(list[final(i)]) < list[final(i) + 1].page
        BY <3>1, <3>2, <3>3 DEF Sorted
      <3> QED
        BY <3>1, <3>4, <3>5
    <2>10. Sorted(r, L)
      BY <2>6, <2>7, <2>8, <2>9 DEF Sorted
    <2>11. ASSUME NEW p PROVE p \in FreePagesOf(r) <=> p \in FreePagesOf(list)
      <3> DEFINE Has(i) == list[i].page <= p /\ p < EndOf(list[i])
      <3>1. p \in FreePagesOf(r) <=>
              \/ p \in FreePagesOf(t)
              \/ p \in Int /\ \E i \in 1 .. n : (i <= k - 1 \/ k + 2 <= i) /\ Has(i)
        BY <1>1, <1>2, <2>4, SplicePages DEF r
      <3>2. p \in FreePagesOf(list) <=> p \in Int /\ \E i \in 1 .. n : Has(i)
        BY <1>1, FreePagesIs
      <3>3. p \in FreePagesOf(t) <=> p \in Int /\ node.page <= p /\ p < EndOf(node)
        BY <2>4 DEF Run, EndOf
      <3>4. p \in FreePagesOf(t) <=> p \in Int /\ (Has(k) \/ Has(k + 1))
        <4>1. /\ list[k].page <= EndOf(list[k]) /\ EndOf(list[k]) <= EndOf(list[k + 1])
              /\ EndOf(list[k]) \in Nat /\ EndOf(list[k + 1]) \in Nat
          BY <1>1, <1>2, <1>5, NodeType
        <4>2. /\ Has(k) <=> list[k].page <= p /\ p < EndOf(list[k])
              /\ Has(k + 1) <=> list[k + 1].page <= p /\ p < EndOf(list[k + 1])
          OBVIOUS
        <4> HIDE DEF Has
        <4> QED
          BY <1>3, <1>5, <2>3, <3>3, <4>1, <4>2
      <3> HIDE DEF Has
      <3>5. \A i \in 1 .. n : i <= k - 1 \/ k + 2 <= i \/ i = k \/ i = k + 1
        BY <1>1, <1>2
      <3> QED
        BY <1>2, <3>1, <3>2, <3>4, <3>5
    <2> QED
      BY <2>1, <2>6, <2>10, <2>11
  <1> QED
    BY <1>4, <1>5

-----------------------------------------------------------------------------
(***************************************************************************)
(* Searches along the list.                                                *)
(***************************************************************************)

\* A set of naturals has a least member.
LEMMA LeastExists ==
  ASSUME NEW S \in SUBSET Nat, S # {}
  PROVE  \E x \in S : \A y \in S : x <= y
  <1> DEFINE R == {ss \in Nat \X Nat : ss[1] < ss[2]}
  <1>1. IsWellFoundedOn(R, Nat)
    BY NatLessThanWellFounded, Zenon DEF OpToRel
  <1>2. PICK x \in S : \A y \in S : ~(<<y, x>> \in R)
    <2> HIDE DEF R
    <2> QED
      BY <1>1, WFMin
  <1>3. ASSUME NEW y \in S PROVE x <= y
    <2>1. x \in Nat /\ y \in Nat
      OBVIOUS
    <2>2. <<y, x>> \in Nat \X Nat /\ <<y, x>>[1] = y /\ <<y, x>>[2] = x
      BY <2>1
    <2>3. ~(y < x)
      BY <1>2, <2>2
    <2> QED
      BY <2>1, <2>3
  <1> QED
    BY <1>3

\* The backward search finds the last node it looks for, if there is one.
LEMMA LastFinds ==
  ASSUME NEW n \in Nat, NEW S \in SUBSET (1 .. n), S # {}
  PROVE  LastOf(S) \in S /\ \A j \in S : j <= LastOf(S)
  <1> DEFINE D == {n - i : i \in S}
  <1>1. D \in SUBSET Nat /\ D # {}
    <2>1. ASSUME NEW i \in S PROVE n - i \in Nat
      <3>1. i \in 1 .. n
        OBVIOUS
      <3> QED
        BY <3>1
    <2>2. PICK i \in S : TRUE
      OBVIOUS
    <2> QED
      BY <2>1, <2>2
  <1>2. PICK d \in D : \A e \in D : d <= e
    <2> HIDE DEF D
    <2> QED
      BY <1>1, LeastExists
  <1>3. PICK i \in S : d = n - i
    OBVIOUS
  <1>4. ASSUME NEW j \in S PROVE j <= i
    <2>1. d <= n - j
      BY <1>2
    <2>2. i \in 1 .. n /\ j \in 1 .. n
      OBVIOUS
    <2> QED
      BY <1>3, <2>1, <2>2
  <1> HIDE DEF D
  <1> QED
    BY <1>4 DEF LastOf

\* A freed run has a place: after the nodes at or below its address.
LEMMA PlaceFinds ==
  ASSUME NEW list \in Seq(FreeNode), NEW memory \in Nat
  PROVE  LET k == PlaceOf(list, memory)
         IN /\ k \in 1 .. (Len(list) + 1)
            /\ \A i \in 1 .. (k - 1) : list[i].page <= memory
            /\ k <= Len(list) => memory < list[k].page
  <1> DEFINE n == Len(list)
             S == {i \in 1 .. n : memory < list[i].page} \cup {n + 1}
  <1>1. n \in Nat
    BY LenProperties
  <1>2. S \in SUBSET Nat /\ S # {}
    BY <1>1
  <1>3. PICK k \in S : \A j \in S : k <= j
    <2> HIDE DEF S
    <2> QED
      BY <1>2, LeastExists
  <1>4. k \in 1 .. (n + 1) /\ (k <= n => memory < list[k].page)
    BY <1>1, <1>3
  <1>5. ASSUME NEW i \in 1 .. (k - 1) PROVE list[i].page <= memory
    <2>1. i \in 1 .. n /\ ~(k <= i)
      BY <1>1, <1>4
    <2>2. i \notin S
      BY <1>3, <2>1
    <2>3. list[i].page \in Nat
      BY <2>1, NodeType
    <2> QED
      BY <2>1, <2>2, <2>3
  <1> QED
    BY <1>4, <1>5 DEF PlaceOf

\* Free pages in a row lie in one node, when no two nodes touch.
LEMMA RunInOneNode ==
  ASSUME NEW list, Sorted(list, {}), NEW p \in Nat, NEW n \in Nat \ {0},
         Run(p, n) \subseteq FreePagesOf(list)
  PROVE  \E i \in 1 .. Len(list) : list[i].page <= p /\ p + n <= EndOf(list[i])
  <1>1. list \in Seq(FreeNode)
    BY DEF Sorted
  <1>2. p \in Run(p, n)
    BY DEF Run
  <1>3. PICK i \in 1 .. Len(list) : list[i].page <= p /\ p < EndOf(list[i])
    BY <1>1, <1>2, FreePagesIs
  <1> DEFINE e == EndOf(list[i])
  <1>4. e \in Nat /\ list[i].page \in Nat
    BY <1>1, NodeType
  <1>5. ~(e < p + n)
    <2>1. SUFFICES ASSUME e < p + n PROVE FALSE
      OBVIOUS
    <2>2. e \in Run(p, n)
      <3> HIDE DEF e
      <3> QED
        BY <1>3, <1>4, <2>1 DEF Run, e
    <2>3. PICK j \in 1 .. Len(list) : list[j].page <= e /\ e < EndOf(list[j])
      BY <1>1, <2>2, FreePagesIs
    <2>4. /\ i < j => e < list[j].page
          /\ j < i => EndOf(list[j]) < list[i].page
      BY Apart
    <2>5. list[j].page \in Nat /\ EndOf(list[j]) \in Nat /\ list[i].page <= e
      BY <1>1, NodeType
    <2> HIDE DEF e
    <2> QED
      BY <1>4, <2>3, <2>4, <2>5 DEF e
  <1>6. p + n <= e
    <2> HIDE DEF e
    <2> QED
      BY <1>4, <1>5
  <1> QED
    BY <1>3, <1>6

-----------------------------------------------------------------------------
(***************************************************************************)
(* What the operations do to the set of free pages.                        *)
(***************************************************************************)

\* A free is refused exactly when one of its pages is free, and leaves no nodes that
\* touch: the two merges close the gaps on both sides of the run.
LEMMA FreeEffect ==
  ASSUME NEW list, Sorted(list, {}), NEW memory \in Nat, NEW n \in Nat \ {0}
  PROVE  LET result == MmInternalFreePages(list, memory, n)
         IN \/ /\ Run(memory, n) \cap FreePagesOf(list) = {}
               /\ result.memory = memory
               /\ Sorted(result.list, {})
               /\ FreePagesOf(result.list) = FreePagesOf(list) \cup Run(memory, n)
            \/ Run(memory, n) \cap FreePagesOf(list) # {} /\ result = Failed(list)
  <1> DEFINE size == Len(list)
             k == PlaceOf(list, memory)
             node == [page |-> memory, pages |-> n]
             refused == \/ k <= size /\ memory + n > list[k].page
                        \/ k > 1 /\ list[k - 1].page + list[k - 1].pages > memory
             inserted == SubSeq(list, 1, k - 1) \o <<node>> \o SubSeq(list, k, size)
             m == IF k > 1 THEN InternalMergeNodes(inserted, k - 1) ELSE inserted
             at == IF Len(m) = Len(inserted) THEN k ELSE k - 1
             final == IF k <= size THEN InternalMergeNodes(m, at) ELSE m
             result == MmInternalFreePages(list, memory, n)
  <1>1. result = IF refused THEN Failed(list) ELSE [list |-> final, memory |-> memory]
    BY DEF MmInternalFreePages
  <1>2. list \in Seq(FreeNode) /\ size \in Nat
    BY LenProperties DEF Sorted
  <1>3. /\ k \in 1 .. (size + 1)
        /\ \A i \in 1 .. (k - 1) : list[i].page <= memory
        /\ k <= size => memory < list[k].page
    BY <1>2, PlaceFinds
  <1>4. inserted = Spliced(list, k - 1, <<node>>, k)
    BY DEF Spliced
  <1>5. node \in FreeNode /\ node.page = memory /\ node.pages = n /\ EndOf(node) = memory + n
    BY DEF FreeNode, EndOf
  <1>6. refused <=> \/ k <= size /\ memory + n > list[k].page
                    \/ k > 1 /\ EndOf(list[k - 1]) > memory
    BY DEF EndOf
  <1> HIDE DEF result, final, at, m, inserted, refused, node, k
  <1>7. CASE refused
    <2>1. CASE k <= size /\ memory + n > list[k].page
      <3>1. k \in 1 .. size
        BY <1>2, <1>3, <2>1
      <3>2. list[k].page \in Nat /\ list[k].page < EndOf(list[k])
        BY <1>2, <3>1, NodeType DEF Sorted, EndOf
      <3>3. list[k].page \in Run(memory, n)
        BY <1>3, <2>1, <3>2 DEF Run
      <3>4. list[k].page \in FreePagesOf(list)
        BY <1>2, <3>1, <3>2, FreePagesIs
      <3> QED
        BY <1>1, <1>7, <3>3, <3>4 DEF result
    <2>2. CASE k > 1 /\ EndOf(list[k - 1]) > memory
      <3>1. k - 1 \in 1 .. size /\ k - 1 \in 1 .. (k - 1)
        BY <1>2, <1>3, <2>2
      <3>2. list[k - 1].page <= memory /\ memory < EndOf(list[k - 1])
        BY <1>2, <1>3, <2>2, <3>1, NodeType
      <3>3. memory \in Run(memory, n)
        BY DEF Run
      <3>4. memory \in FreePagesOf(list)
        BY <1>2, <3>1, <3>2, FreePagesIs
      <3> QED
        BY <1>1, <1>7, <3>3, <3>4 DEF result
    <2> QED
      BY <1>6, <1>7, <2>1, <2>2
  <1>8. CASE ~refused
    <2>1. k > 1 => k - 1 \in 1 .. size /\ EndOf(list[k - 1]) <= memory
      <3>1. k > 1 => k - 1 \in 1 .. size
        BY <1>2, <1>3
      <3>2. k > 1 => EndOf(list[k - 1]) \in Nat
        BY <1>2, <3>1, NodeType
      <3> QED
        BY <1>6, <1>8, <3>1, <3>2
    <2>2. k <= size => k \in 1 .. size /\ memory + n <= list[k].page
      <3>1. k <= size => k \in 1 .. size
        BY <1>2, <1>3
      <3>2. k <= size => list[k].page \in Nat
        BY <1>2, <3>1, NodeType
      <3> QED
        BY <1>6, <1>8, <3>1, <3>2
    <2>3. Run(memory, n) \cap FreePagesOf(list) = {}
      <3>1. SUFFICES ASSUME NEW p \in Run(memory, n), p \in FreePagesOf(list) PROVE FALSE
        OBVIOUS
      <3>2. PICK i \in 1 .. size : list[i].page <= p /\ p < EndOf(list[i])
        BY <1>2, <3>1, FreePagesIs
      <3>3. p \in Int /\ memory <= p /\ p < memory + n
        BY DEF Run
      <3>4. CASE i < k
        <4>1. k > 1 /\ k - 1 \in 1 .. size /\ EndOf(list[k - 1]) <= memory
          BY <1>3, <2>1, <3>4
        <4>2. i = k - 1 \/ EndOf(list[i]) < list[k - 1].page
          BY <1>3, <3>4, <4>1, Apart
        <4>3. /\ EndOf(list[i]) \in Nat /\ list[k - 1].page \in Nat
              /\ EndOf(list[k - 1]) \in Nat /\ list[k - 1].page <= EndOf(list[k - 1])
          BY <1>2, <4>1, NodeType
        <4> QED
          BY <3>2, <3>3, <4>1, <4>2, <4>3
      <3>5. CASE ~(i < k)
        <4>1. k <= size /\ k \in 1 .. size /\ memory + n <= list[k].page
          BY <1>2, <1>3, <2>2, <3>5
        <4>2. i = k \/ EndOf(list[k]) < list[i].page
          BY <1>3, <3>5, <4>1, Apart
        <4>3. /\ EndOf(list[k]) \in Nat /\ list[i].page \in Nat
              /\ list[k].page \in Nat /\ list[k].page <= EndOf(list[k])
          BY <1>2, <4>1, NodeType
        <4> QED
          BY <3>2, <3>3, <4>1, <4>2, <4>3, SMTT(30)
      <3> QED
        BY <3>4, <3>5
    <2>4. /\ Sorted(inserted, {k - 1, k}) /\ Len(inserted) = size + 1
          /\ FreePagesOf(inserted) = FreePagesOf(list) \cup Run(memory, n)
      <3>1. k > 1 => EndOf(list[k - 1]) <= node.page
        BY <1>5, <2>1
      <3>2. k <= size => EndOf(node) <= list[k].page
        BY <1>5, <2>2
      <3>3. node.pages > 0
        BY <1>5
      <3>4. LET s == Spliced(list, k - 1, <<node>>, k)
            IN /\ Sorted(s, {k - 1, k})
               /\ Len(s) = Len(list) + 1
               /\ FreePagesOf(s) = FreePagesOf(list) \cup Run(node.page, node.pages)
        BY <1>3, <1>5, <3>1, <3>2, <3>3, InsertEffect
      <3> QED
        BY <1>4, <1>5, <3>4
    <2>5. /\ FreePagesOf(m) = FreePagesOf(inserted) /\ Sorted(m, {at})
          /\ \/ at = k /\ Len(m) = size + 1
             \/ at = k - 1 /\ Len(m) = size /\ k > 1
      <3>1. CASE k > 1
        <4>1. Sorted(inserted, {k} \cup {k - 1})
          <5>1. {k - 1, k} = {k} \cup {k - 1}
            OBVIOUS
          <5> QED
            BY <2>4, <5>1
        <4>2. /\ k - 1 \notin {k} /\ k - 1 \in 1 .. (Len(inserted) - 1)
              /\ \A i \in 1 .. (k - 1 - 1) : i \in {k} => i \in {k - 1}
              /\ \A i \in (k - 1) .. Len(inserted) : i + 1 \in {k} => i \in {k - 1}
          BY <1>2, <1>3, <2>4, <3>1
        <4>3. LET r == InternalMergeNodes(inserted, k - 1)
              IN /\ FreePagesOf(r) = FreePagesOf(inserted)
                 /\ \/ r = inserted /\ Sorted(r, {k})
                    \/ Len(r) = Len(inserted) - 1 /\ Sorted(r, {k - 1})
          BY <4>1, <4>2, MergeEffect
        <4>4. m = InternalMergeNodes(inserted, k - 1)
          BY <3>1 DEF m
        <4>5. CASE m = inserted /\ Sorted(m, {k})
          <5>1. at = k
            BY <4>5 DEF at
          <5> QED
            BY <2>4, <4>5, <5>1
        <4>6. CASE Len(m) = Len(inserted) - 1 /\ Sorted(m, {k - 1})
          <5>1. Len(m) = size /\ Len(m) # Len(inserted)
            BY <1>2, <2>4, <4>6
          <5>2. at = k - 1
            BY <5>1 DEF at
          <5> QED
            BY <3>1, <4>3, <4>4, <4>6, <5>1, <5>2
        <4> QED
          BY <4>3, <4>4, <4>5, <4>6
      <3>2. CASE ~(k > 1)
        <4>1. k = 1 /\ m = inserted /\ at = k
          BY <1>2, <1>3, <3>2 DEF m, at
        <4>2. Sorted(inserted, {k})
          BY <2>4, <4>1 DEF Sorted
        <4> QED
          BY <2>4, <4>1, <4>2
      <3> QED
        BY <3>1, <3>2
    <2>6. FreePagesOf(final) = FreePagesOf(m) /\ Sorted(final, {})
      <3>1. CASE k <= size
        <4>1. /\ at \in 1 .. (Len(m) - 1) /\ at \notin {}
              /\ \A i \in 1 .. (at - 1) : i \in {} => i \in {}
              /\ \A i \in at .. Len(m) : i + 1 \in {} => i \in {}
          BY <1>2, <1>3, <2>5, <3>1
        <4>2. Sorted(m, {} \cup {at})
          BY <2>5
        <4>3. LET r == InternalMergeNodes(m, at)
              IN /\ FreePagesOf(r) = FreePagesOf(m)
                 /\ \/ r = m /\ Sorted(r, {})
                    \/ Len(r) = Len(m) - 1 /\ Sorted(r, {})
          BY <4>1, <4>2, MergeEffect
        <4> QED
          BY <3>1, <4>3 DEF final
      <3>2. CASE ~(k <= size)
        <4>1. final = m /\ Len(m) = at /\ at \in Nat
          BY <1>2, <1>3, <2>5, <3>2 DEF final
        <4>2. Sorted(m, {})
          BY <2>5, <4>1 DEF Sorted
        <4> QED
          BY <4>1, <4>2
      <3> QED
        BY <3>1, <3>2
    <2>7. result.list = final /\ result.memory = memory
      BY <1>1, <1>8
    <2> QED
      BY <2>3, <2>4, <2>5, <2>6, <2>7 DEF result
  <1> QED
    BY <1>7, <1>8

\* The sequence of two nodes.
LEMMA TwoNodes ==
  ASSUME NEW lo \in FreeNode, NEW up \in FreeNode, lo.pages > 0, up.pages > 0,
         EndOf(lo) < up.page
  PROVE  /\ <<lo, up>> \in Seq(FreeNode) /\ Len(<<lo, up>>) = 2
         /\ <<lo, up>>[1] = lo /\ <<lo, up>>[2] = up
         /\ Sorted(<<lo, up>>, {})
         /\ FreePagesOf(<<lo, up>>) = Run(lo.page, lo.pages) \cup Run(up.page, up.pages)
  <1> DEFINE t == <<lo, up>>
  <1>1. t \in Seq(FreeNode) /\ Len(t) = 2 /\ t[1] = lo /\ t[2] = up
    OBVIOUS
  <1>2. lo.page \in Nat /\ lo.pages \in Nat /\ up.page \in Nat /\ up.pages \in Nat
    BY DEF FreeNode
  <1> HIDE DEF t
  <1>3. EndOf(lo) <= up.page
    BY <1>2 DEF EndOf
  <1>4. Sorted(t, {})
    <2>1. \A i \in 1 .. Len(t) : i = 1 \/ i = 2
      BY <1>1
    <2>2. \A i \in 1 .. Len(t) : t[i].pages > 0
      BY <1>1, <2>1
    <2>3. \A i, j \in 1 .. Len(t) : i < j => i = 1 /\ j = 2
      BY <1>1
    <2>4. \A i \in 1 .. (Len(t) - 1) : i = 1 /\ i + 1 = 2
      BY <1>1
    <2> QED
      BY <1>1, <1>3, <2>2, <2>3, <2>4 DEF Sorted
  <1>5. ASSUME NEW p
        PROVE  p \in FreePagesOf(t) <=>
                 p \in Run(lo.page, lo.pages) \/ p \in Run(up.page, up.pages)
    <2>1. p \in FreePagesOf(t) <=>
            p \in Int /\ \E i \in 1 .. Len(t) : t[i].page <= p /\ p < EndOf(t[i])
      BY <1>1, FreePagesIs
    <2>2. 1 .. Len(t) = {1, 2}
      BY <1>1
    <2>3. p \in FreePagesOf(t) <=>
            p \in Int /\ (\/ lo.page <= p /\ p < EndOf(lo)
                          \/ up.page <= p /\ p < EndOf(up))
      BY <1>1, <2>1, <2>2
    <2>4. p \in Run(lo.page, lo.pages) <=> p \in Int /\ lo.page <= p /\ p < EndOf(lo)
      BY <1>2 DEF Run, EndOf
    <2>5. p \in Run(up.page, up.pages) <=> p \in Int /\ up.page <= p /\ p < EndOf(up)
      BY <1>2 DEF Run, EndOf
    <2> QED
      BY <2>3, <2>4, <2>5
  <1> QED
    BY <1>1, <1>4, <1>5 DEF t

\* The empty list.
LEMMA NoNodes ==
  /\ << >> \in Seq(FreeNode) /\ Len(<< >>) = 0
  /\ Sorted(<< >>, {}) /\ FreePagesOf(<< >>) = {}
  <1> DEFINE t == << >>
  <1>1. t \in Seq(FreeNode) /\ Len(t) = 0
    BY EmptySeq
  <1> HIDE DEF t
  <1>2. ASSUME NEW p PROVE p \notin FreePagesOf(t)
    <2>1. p \in FreePagesOf(t) <=>
            p \in Int /\ \E i \in 1 .. Len(t) : t[i].page <= p /\ p < EndOf(t[i])
      BY <1>1, FreePagesIs
    <2>2. 1 .. Len(t) = {}
      BY <1>1
    <2> QED
      BY <2>1, <2>2
  <1>3. Sorted(t, {})
    BY <1>1 DEF Sorted
  <1> QED
    BY <1>1, <1>2, <1>3 DEF t

\* What remains of a node around the pages taken from it.
LEMMA PartsEffect ==
  ASSUME NEW node \in FreeNode, NEW bottom \in Nat, NEW top \in Nat,
         bottom < top, top <= node.pages
  PROVE  LET lower == IF bottom > 0 THEN <<[node EXCEPT !.pages = bottom]>> ELSE << >>
             upper == IF top < node.pages
                      THEN <<[page |-> node.page + top, pages |-> node.pages - top]>>
                      ELSE << >>
             t == lower \o upper
         IN /\ Sorted(t, {})
            /\ \A j \in 1 .. Len(t) : node.page <= t[j].page /\ EndOf(t[j]) <= EndOf(node)
            /\ FreePagesOf(t) =
                 Run(node.page, node.pages) \ (node.page + bottom) .. (node.page + top - 1)
  <1> DEFINE lo == [node EXCEPT !.pages = bottom]
             up == [page |-> node.page + top, pages |-> node.pages - top]
             lower == IF bottom > 0 THEN <<lo>> ELSE << >>
             upper == IF top < node.pages THEN <<up>> ELSE << >>
             t == lower \o upper
             Rest == Run(node.page, node.pages) \ (node.page + bottom) .. (node.page + top - 1)
             Good == /\ Sorted(t, {})
                     /\ \A j \in 1 .. Len(t) :
                          node.page <= t[j].page /\ EndOf(t[j]) <= EndOf(node)
                     /\ FreePagesOf(t) = Rest
  <1>0. SUFFICES Good
    OBVIOUS
  <1>1. node.page \in Nat /\ node.pages \in Nat /\ EndOf(node) = node.page + node.pages
    BY DEF FreeNode, EndOf
  <1>2. lo \in FreeNode /\ lo.page = node.page /\ lo.pages = bottom
    BY DEF FreeNode
  <1>3. top < node.pages =>
          up \in FreeNode /\ up.page = node.page + top /\ up.pages = node.pages - top
    BY <1>1 DEF FreeNode
  <1>4. EndOf(lo) = node.page + bottom
    BY <1>2 DEF EndOf
  <1>5. top < node.pages => EndOf(up) = node.page + node.pages
    BY <1>1 DEF EndOf
  <1> HIDE DEF lo, up
  <1>6. CASE bottom > 0 /\ top < node.pages
    <2>1. t = <<lo, up>>
      <3>1. t = <<lo>> \o <<up>> /\ lo \in FreeNode /\ up \in FreeNode
        BY <1>2, <1>3, <1>6
      <3>2. /\ <<lo>> \in Seq(FreeNode) /\ Len(<<lo>>) = 1 /\ <<lo>>[1] = lo
            /\ <<up>> \in Seq(FreeNode) /\ Len(<<up>>) = 1 /\ <<up>>[1] = up
        BY <3>1, OneNode
      <3>3. <<lo, up>> \in Seq(FreeNode) /\ Len(<<lo, up>>) = 2
            /\ <<lo, up>>[1] = lo /\ <<lo, up>>[2] = up
        BY <3>1
      <3> DEFINE one == <<lo>>
                 two == <<up>>
                 both == <<lo, up>>
      <3> HIDE DEF t, one, two, both
      <3>4. /\ t \in Seq(FreeNode) /\ Len(t) = 1 + 1
            /\ \A i \in 1 .. (1 + 1) : t[i] = IF i <= 1 THEN one[i] ELSE two[i - 1]
        BY <3>1, <3>2, ConcatProperties DEF one, two
      <3>5. Len(t) = Len(both) /\ \A i \in 1 .. Len(t) : t[i] = both[i]
        BY <3>2, <3>3, <3>4 DEF one, two, both
      <3>6. t = both
        BY <3>3, <3>4, <3>5, SeqEqual DEF both
      <3> QED
        BY <3>6 DEF both
    <2>2. lo.pages > 0 /\ up.pages > 0 /\ EndOf(lo) < up.page
      BY <1>1, <1>2, <1>3, <1>4, <1>6
    <2>3. /\ Len(<<lo, up>>) = 2 /\ <<lo, up>>[1] = lo /\ <<lo, up>>[2] = up
          /\ Sorted(<<lo, up>>, {})
          /\ FreePagesOf(<<lo, up>>) = Run(lo.page, lo.pages) \cup Run(up.page, up.pages)
      BY <1>2, <1>3, <1>6, <2>2, TwoNodes
    <2>4. Run(lo.page, lo.pages) \cup Run(up.page, up.pages) = Rest
      BY <1>1, <1>2, <1>3, <1>6 DEF Run
    <2> HIDE DEF t, Rest
    <2>5. ASSUME NEW j \in 1 .. Len(t)
          PROVE  node.page <= t[j].page /\ EndOf(t[j]) <= EndOf(node)
      <3>1. t[j] = lo \/ t[j] = up
        BY <2>1, <2>3
      <3> QED
        BY <1>1, <1>2, <1>3, <1>4, <1>5, <1>6, <3>1
    <2> QED
      BY <2>1, <2>3, <2>4, <2>5
  <1>7. CASE bottom > 0 /\ ~(top < node.pages)
    <2>1. t = <<lo>>
      BY <1>7
    <2>2. lo.pages > 0
      BY <1>2, <1>7
    <2>3. /\ Len(<<lo>>) = 1 /\ <<lo>>[1] = lo /\ Sorted(<<lo>>, {})
          /\ FreePagesOf(<<lo>>) = Run(lo.page, lo.pages)
      BY <1>2, <2>2, OneNode
    <2>4. Run(lo.page, lo.pages) = Rest
      BY <1>1, <1>2, <1>7 DEF Run
    <2> HIDE DEF t, Rest
    <2>5. ASSUME NEW j \in 1 .. Len(t)
          PROVE  node.page <= t[j].page /\ EndOf(t[j]) <= EndOf(node)
      <3>1. t[j] = lo
        BY <2>1, <2>3
      <3> QED
        BY <1>1, <1>2, <1>4, <1>7, <3>1
    <2> QED
      BY <2>1, <2>3, <2>4, <2>5
  <1>8. CASE ~(bottom > 0) /\ top < node.pages
    <2>1. t = <<up>>
      BY <1>8
    <2>2. up.pages > 0
      BY <1>1, <1>3, <1>8
    <2>3. /\ Len(<<up>>) = 1 /\ <<up>>[1] = up /\ Sorted(<<up>>, {})
          /\ FreePagesOf(<<up>>) = Run(up.page, up.pages)
      BY <1>3, <1>8, <2>2, OneNode
    <2>4. Run(up.page, up.pages) = Rest
      BY <1>1, <1>3, <1>8 DEF Run
    <2> HIDE DEF t, Rest
    <2>5. ASSUME NEW j \in 1 .. Len(t)
          PROVE  node.page <= t[j].page /\ EndOf(t[j]) <= EndOf(node)
      <3>1. t[j] = up
        BY <2>1, <2>3
      <3> QED
        BY <1>1, <1>3, <1>5, <1>8, <3>1
    <2> QED
      BY <2>1, <2>3, <2>4, <2>5
  <1>9. CASE ~(bottom > 0) /\ ~(top < node.pages)
    <2>1. t = << >>
      BY <1>9
    <2>2. Rest = {}
      BY <1>1, <1>9 DEF Run
    <2> HIDE DEF t, Rest
    <2> QED
      BY <2>1, <2>2, NoNodes
  <1> QED
    BY <1>6, <1>7, <1>8, <1>9

\* A list whose nodes do not touch and that does not contain page 0, the value of NULL.
IsList(list) == Sorted(list, {}) /\ NULL \notin FreePagesOf(list)

\* The operation took n free pages at memory off the list.
Granted(list, n, result) ==
  /\ result.memory \in Nat \ {NULL}
  /\ Run(result.memory, n) \subseteq FreePagesOf(list)
  /\ IsList(result.list)
  /\ FreePagesOf(result.list) = FreePagesOf(list) \ Run(result.memory, n)

\* A run of pages within another.
LEMMA RunWithin ==
  ASSUME NEW p \in Nat, NEW n \in Nat, NEW q \in Nat, NEW m \in Nat, p <= q, q + m <= p + n
  PROVE  Run(q, m) \subseteq Run(p, n)
BY DEF Run

\* Pages are taken from a node that has enough of them below the limit.
LEMMA OneNodeEffect ==
  ASSUME NEW list, IsList(list), NEW i \in 1 .. Len(list), NEW n \in Nat \ {0},
         NEW limit \in Nat, list[i].pages >= n, list[i].page + n <= limit
  PROVE  LET result == InternalAllocPagesOnOneNode(list, i, n, limit)
         IN /\ Granted(list, n, result)
            /\ result.memory + n <= limit
            /\ limit <= EndOf(list[i]) => result.memory + n = limit
  <1> DEFINE node == list[i]
             top == IF limit - node.page > node.pages THEN node.pages ELSE limit - node.page
             bottom == top - n
             lower == IF bottom > 0 THEN <<[node EXCEPT !.pages = bottom]>> ELSE << >>
             upper == IF top < node.pages
                      THEN <<[page |-> node.page + top, pages |-> node.pages - top]>>
                      ELSE << >>
             t == lower \o upper
             result == InternalAllocPagesOnOneNode(list, i, n, limit)
  <1>1. result.list = Replaced(list, i, t) /\ result.memory = node.page + bottom
    BY DEF InternalAllocPagesOnOneNode
  <1>2. /\ Sorted(list, {}) /\ list \in Seq(FreeNode)
        /\ node \in FreeNode /\ node.page \in Nat /\ node.pages \in Nat
        /\ EndOf(node) = node.page + node.pages
    <2>1. Sorted(list, {}) /\ list \in Seq(FreeNode)
      BY DEF IsList, Sorted
    <2> QED
      BY <2>1, NodeType DEF EndOf
  <1>3. /\ top \in Nat /\ bottom \in Nat /\ bottom < top /\ top <= node.pages
        /\ node.page + top <= limit /\ bottom + n = top
        /\ limit <= EndOf(node) => node.page + top = limit
    BY <1>2, SMTT(30)
  <1> HIDE DEF node, top, bottom, t, lower, upper, result
  <1>4. /\ Sorted(t, {})
        /\ \A j \in 1 .. Len(t) : node.page <= t[j].page /\ EndOf(t[j]) <= EndOf(node)
        /\ FreePagesOf(t) =
             Run(node.page, node.pages) \ (node.page + bottom) .. (node.page + top - 1)
    BY <1>2, <1>3, PartsEffect DEF t, lower, upper
  <1>5. /\ Sorted(result.list, {})
        /\ FreePagesOf(result.list) =
             (FreePagesOf(list) \ Run(node.page, node.pages)) \cup FreePagesOf(t)
    BY <1>1, <1>2, <1>4, ReplacedEffect DEF node
  <1>6. Run(result.memory, n) = (node.page + bottom) .. (node.page + top - 1)
    <2>1. result.memory + n - 1 = node.page + top - 1
      BY <1>1, <1>2, <1>3, SMTT(30)
    <2> QED
      BY <1>1, <2>1 DEF Run
  <1>7. Run(result.memory, n) \subseteq Run(node.page, node.pages)
    <2>1. /\ result.memory \in Nat /\ node.page <= result.memory
          /\ result.memory + n <= node.page + node.pages
      BY <1>1, <1>2, <1>3, SMTT(30)
    <2> QED
      BY <1>2, <2>1, RunWithin
  <1>8. Run(node.page, node.pages) \subseteq FreePagesOf(list)
    <2>1. DOMAIN list = 1 .. Len(list)
      BY <1>2, LenProperties
    <2> QED
      BY <2>1 DEF FreePagesOf, node
  <1>9. FreePagesOf(result.list) = FreePagesOf(list) \ Run(result.memory, n)
    BY <1>4, <1>5, <1>6, <1>7, <1>8
  <1>10. result.memory \in Run(result.memory, n) /\ result.memory \in Nat
    BY <1>1, <1>2, <1>3, SMTT(30) DEF Run
  <1>11. result.memory # NULL
    BY <1>7, <1>8, <1>10 DEF IsList
  <1>12. IsList(result.list) /\ Granted(list, n, result)
    BY <1>5, <1>7, <1>8, <1>9, <1>10, <1>11 DEF IsList, Granted
  <1>13. /\ result.memory + n <= limit
         /\ limit <= EndOf(node) => result.memory + n = limit
    <2>1. result.memory + n = node.page + top
      BY <1>1, <1>2, <1>3, SMTT(30)
    <2> QED
      BY <1>3, <2>1
  <1> QED
    BY <1>12, <1>13 DEF result, node

\* A request below a limit is met by free pages below it, or no run of them is long enough.
LEMMA MaxAddressEffect ==
  ASSUME NEW list, IsList(list), NEW n \in Nat \ {0}, NEW limit \in Nat
  PROVE  LET result == InternalAllocMaxAddress(list, n, limit)
         IN \/ Granted(list, n, result) /\ result.memory + n <= limit
            \/ /\ result = Failed(list)
               /\ ~ \E p \in Nat : Run(p, n) \subseteq FreePagesOf(list) /\ p + n <= limit
  <1> DEFINE fits == {i \in DOMAIN list : list[i].pages >= n /\ list[i].page + n <= limit}
             i == LastOf(fits)
  <1>1. /\ Sorted(list, {}) /\ list \in Seq(FreeNode)
        /\ DOMAIN list = 1 .. Len(list) /\ Len(list) \in Nat
    <2>1. Sorted(list, {}) /\ list \in Seq(FreeNode)
      BY DEF IsList, Sorted
    <2> QED
      BY <2>1, LenProperties
  <1>2. CASE fits = {}
    <2>1. InternalAllocMaxAddress(list, n, limit) = Failed(list)
      BY <1>2 DEF InternalAllocMaxAddress
    <2>2. ASSUME NEW p \in Nat, Run(p, n) \subseteq FreePagesOf(list), p + n <= limit
          PROVE  FALSE
      <3>1. PICK j \in 1 .. Len(list) : list[j].page <= p /\ p + n <= EndOf(list[j])
        BY <1>1, <2>2, RunInOneNode
      <3>2. list[j].page \in Nat /\ list[j].pages \in Nat
        BY <1>1, NodeType
      <3>3. list[j].pages >= n /\ list[j].page + n <= limit
        BY <2>2, <3>1, <3>2, SMTT(30) DEF EndOf
      <3> QED
        BY <1>1, <1>2, <3>3
    <2> QED
      BY <2>1, <2>2
  <1>3. CASE fits # {}
    <2>1. fits \in SUBSET (1 .. Len(list))
      BY <1>1
    <2>2. i \in fits
      BY <1>1, <1>3, <2>1, LastFinds
    <2>3. i \in 1 .. Len(list) /\ list[i].pages >= n /\ list[i].page + n <= limit
      BY <1>1, <2>2
    <2>4. InternalAllocMaxAddress(list, n, limit) = InternalAllocPagesOnOneNode(list, i, n, limit)
      BY <1>3 DEF InternalAllocMaxAddress
    <2> HIDE DEF i, fits
    <2> QED
      BY <2>3, <2>4, OneNodeEffect
  <1> QED
    BY <1>2, <1>3

\* A request at an address is met there, or its pages are not all free: looking only at
\* the last node that begins at or below the address is enough.
LEMMA AddressEffect ==
  ASSUME NEW list, IsList(list), NEW n \in Nat \ {0}, NEW address \in Nat
  PROVE  LET result == InternalAllocAddress(list, n, address)
         IN \/ Granted(list, n, result) /\ result.memory = address
            \/ result = Failed(list) /\ ~(Run(address, n) \subseteq FreePagesOf(list))
  <1> DEFINE below == {i \in DOMAIN list : list[i].page <= address}
             i == LastOf(below)
             result == InternalAllocAddress(list, n, address)
             short == below = {} \/ list[i].page + list[i].pages < address + n
  <1>1. /\ Sorted(list, {}) /\ list \in Seq(FreeNode)
        /\ DOMAIN list = 1 .. Len(list) /\ Len(list) \in Nat
    <2>1. Sorted(list, {}) /\ list \in Seq(FreeNode)
      BY DEF IsList, Sorted
    <2> QED
      BY <2>1, LenProperties
  <1>2. below # {} => i \in below /\ \A j \in below : j <= i
    <2>1. below \in SUBSET (1 .. Len(list))
      BY <1>1
    <2> HIDE DEF below
    <2> QED
      BY <1>1, <2>1, LastFinds
  <1>3. result = IF short THEN Failed(list)
                 ELSE InternalAllocPagesOnOneNode(list, i, n, address + n)
    BY DEF InternalAllocAddress
  <1> HIDE DEF result, i
  <1>4. CASE short
    <2>1. SUFFICES ASSUME Run(address, n) \subseteq FreePagesOf(list) PROVE FALSE
      BY <1>3, <1>4 DEF result
    <2>2. PICK j \in 1 .. Len(list) : list[j].page <= address /\ address + n <= EndOf(list[j])
      BY <1>1, <2>1, RunInOneNode
    <2>3. j \in below
      BY <1>1, <2>2
    <2>4. i \in 1 .. Len(list) /\ list[i].page <= address /\ j <= i
      BY <1>1, <1>2, <2>3
    <2>5. EndOf(list[i]) < address + n
      BY <1>4, <2>3 DEF EndOf
    <2>6. j # i
      <3>1. EndOf(list[i]) \in Nat
        BY <1>1, <2>4, NodeType
      <3> QED
        BY <2>2, <2>5, <3>1
    <2>7. EndOf(list[j]) < list[i].page
      BY <1>1, <2>4, <2>6, Apart
    <2>8. EndOf(list[j]) \in Nat /\ list[i].page \in Nat
      BY <1>1, <2>4, NodeType
    <2> QED
      BY <2>2, <2>4, <2>7, <2>8
  <1>5. CASE ~short
    <2>1. i \in 1 .. Len(list) /\ list[i].page <= address
      BY <1>1, <1>2, <1>5
    <2>2. list[i].page \in Nat /\ list[i].pages \in Nat
      BY <1>1, <2>1, NodeType
    <2>3. /\ list[i].pages >= n /\ list[i].page + n <= address + n
          /\ address + n <= EndOf(list[i]) /\ address + n \in Nat
      BY <1>5, <2>1, <2>2 DEF EndOf
    <2>4. result = InternalAllocPagesOnOneNode(list, i, n, address + n)
      BY <1>3, <1>5
    <2>5. Granted(list, n, result) /\ result.memory + n = address + n
      BY <2>1, <2>3, <2>4, OneNodeEffect
    <2>6. result.memory = address
      <3>1. result.memory \in Nat
        BY <2>5 DEF Granted
      <3> QED
        BY <2>5, <3>1
    <2> QED
      BY <2>5, <2>6 DEF result
  <1> QED
    BY <1>4, <1>5

\* Rounding up gives a multiple of the alignment, less than one alignment away.
LEMMA AlignedUpIs ==
  ASSUME NEW p \in Nat, NEW a \in Nat \ {0}
  PROVE  LET m == AlignedUp(p, a)
         IN m \in Nat /\ p <= m /\ m < p + a /\ m % a = 0
  <1> DEFINE x == p + a - 1
             q == x \div a
             r == x % a
             m == q * a
  <1>1. x \in Nat
    OBVIOUS
  <1>2. q \in Nat /\ r \in 0 .. (a - 1) /\ x = a * q + r
    <2> HIDE DEF x
    <2> QED
      BY <1>1
  <1> HIDE DEF q, r
  <1>3. m \in Nat /\ m = a * q
    BY <1>2
  <1>4. ASSUME NEW k \in Nat PROVE (k * a) % a = 0
    OBVIOUS
  <1>5. m % a = 0
    BY <1>2, <1>4
  <1>6. AlignedUp(p, a) = m
    BY DEF AlignedUp, q
  <1> HIDE DEF m
  <1>7. p <= m /\ m < p + a
    BY <1>2, <1>3
  <1> QED
    BY <1>3, <1>5, <1>6, <1>7

\* The run at p is divided into three.
InARow(p, b, n, c) ==
  LET q == p + b IN
  /\ Run(p, b + n + c) = Run(p, b) \cup Run(q, n) \cup Run(q + n, c)
  /\ Run(p, b) \cap Run(q, n) = {} /\ Run(p, b) \cap Run(q + n, c) = {}
  /\ Run(q, n) \cap Run(q + n, c) = {}

\* Three runs in a row.
LEMMA RunSplit ==
  ASSUME NEW p \in Nat, NEW b \in Nat, NEW n \in Nat, NEW c \in Nat
  PROVE  InARow(p, b, n, c)
  <1>1. ASSUME NEW x
        PROVE  x \in Run(p, b + n + c) <=>
                 x \in Run(p, b) \/ x \in Run(p + b, n) \/ x \in Run(p + b + n, c)
    BY DEF Run
  <1>2. Run(p, b) \cap Run(p + b, n) = {}
    BY DEF Run
  <1>3. Run(p, b) \cap Run(p + b + n, c) = {}
    BY DEF Run
  <1>4. Run(p + b, n) \cap Run(p + b + n, c) = {}
    BY DEF Run
  <1> QED
    BY <1>1, <1>2, <1>3, <1>4 DEF InARow

\* An aligned request is met by an aligned run, and what was taken around it is free
\* again; or there is no room for the run and its alignment.
LEMMA AlignedEffect ==
  ASSUME NEW list, IsList(list), NEW n \in Nat \ {0}, NEW alignment \in Nat \ {0}
  PROVE  LET result == InternalAllocateAlignedPages(list, n, alignment)
         IN \/ Granted(list, n, result) /\ result.memory % alignment = 0
            \/ /\ result = Failed(list)
               /\ ~ \E p \in Nat : /\ Run(p, n + alignment) \subseteq FreePagesOf(list)
                                   /\ p + (n + alignment) <= ADDRESS_PAGES
  <1> DEFINE whole == InternalAllocMaxAddress(list, n + alignment, ADDRESS_PAGES)
             memory == AlignedUp(whole.memory, alignment)
             before == memory - whole.memory
             after == alignment - before
             cut == IF before > 0 THEN MmInternalFreePages(whole.list, whole.memory, before)
                    ELSE whole
             rest == IF after > 0 THEN MmInternalFreePages(cut.list, memory + n, after)
                     ELSE cut
             result == InternalAllocateAlignedPages(list, n, alignment)
  <1>1. result = IF n = 0 \/ whole.memory = NULL THEN Failed(list)
                 ELSE [list |-> rest.list, memory |-> memory]
    BY DEF InternalAllocateAlignedPages
  <1>2. n + alignment \in Nat \ {0} /\ ADDRESS_PAGES \in Nat
    BY HeapAssumption
  <1>3. \/ Granted(list, n + alignment, whole)
        \/ /\ whole = Failed(list)
           /\ ~ \E p \in Nat : /\ Run(p, n + alignment) \subseteq FreePagesOf(list)
                               /\ p + (n + alignment) <= ADDRESS_PAGES
    BY <1>2, MaxAddressEffect
  <1> HIDE DEF result, rest, cut, after, before, memory, whole
  <1>4. CASE /\ whole = Failed(list)
             /\ ~ \E p \in Nat : /\ Run(p, n + alignment) \subseteq FreePagesOf(list)
                                 /\ p + (n + alignment) <= ADDRESS_PAGES
    BY <1>1, <1>4 DEF Failed, result
  <1>5. CASE Granted(list, n + alignment, whole)
    <2> DEFINE w == whole.memory
               W == Run(w, n + alignment)
               F == FreePagesOf(list)
    <2>1. /\ w \in Nat /\ w # NULL /\ W \subseteq F /\ Sorted(whole.list, {})
          /\ FreePagesOf(whole.list) = F \ W
      BY <1>5 DEF Granted, IsList
    <2>2. memory \in Nat /\ w <= memory /\ memory < w + alignment /\ memory % alignment = 0
      BY <2>1, AlignedUpIs DEF memory
    <2> HIDE DEF w
    <2>3. /\ before \in Nat /\ after \in Nat \ {0} /\ before + n + after = n + alignment
          /\ w + before = memory
      BY <2>1, <2>2 DEF before, after, w
    <2>4. /\ W = Run(w, before) \cup Run(memory, n) \cup Run(memory + n, after)
          /\ Run(w, before) \cap Run(memory, n) = {}
          /\ Run(w, before) \cap Run(memory + n, after) = {}
          /\ Run(memory, n) \cap Run(memory + n, after) = {}
      <3>1. before \in Nat /\ after \in Nat /\ n \in Nat /\ w \in Nat
        BY <2>1, <2>3
      <3>2. InARow(w, before, n, after)
        BY <3>1, RunSplit
      <3>3. W = Run(w, before + n + after)
        BY <2>3
      <3> HIDE DEF W
      <3> QED
        BY <2>3, <3>2, <3>3 DEF InARow
    <2> HIDE DEF W, F
    <2>5. Sorted(cut.list, {}) /\ FreePagesOf(cut.list) = (F \ W) \cup Run(w, before)
      <3>1. CASE before > 0
        <4>1. Run(w, before) \cap FreePagesOf(whole.list) = {}
          BY <2>1, <2>4
        <4>2. cut = MmInternalFreePages(whole.list, w, before)
          BY <3>1 DEF cut, w
        <4>3. before \in Nat \ {0}
          BY <2>3, <3>1
        <4>4. /\ Sorted(cut.list, {})
              /\ FreePagesOf(cut.list) = FreePagesOf(whole.list) \cup Run(w, before)
          BY <2>1, <4>1, <4>2, <4>3, FreeEffect
        <4> QED
          BY <2>1, <4>4
      <3>2. CASE ~(before > 0)
        <4>1. before = 0 /\ cut = whole
          BY <2>3, <3>2 DEF cut
        <4>2. Run(w, before) = {}
          BY <2>1, <4>1 DEF Run
        <4> QED
          BY <2>1, <4>1, <4>2
      <3> QED
        BY <3>1, <3>2
    <2>6. /\ Sorted(rest.list, {})
          /\ FreePagesOf(rest.list) = ((F \ W) \cup Run(w, before)) \cup Run(memory + n, after)
      <3>1. Run(memory + n, after) \cap FreePagesOf(cut.list) = {}
        BY <2>4, <2>5
      <3>2. rest = MmInternalFreePages(cut.list, memory + n, after) /\ memory + n \in Nat
        BY <2>2, <2>3 DEF rest
      <3> QED
        BY <2>3, <2>5, <3>1, <3>2, FreeEffect
    <2>7. FreePagesOf(rest.list) = F \ Run(memory, n) /\ Run(memory, n) \subseteq F
      BY <2>1, <2>4, <2>6
    <2>8. result.list = rest.list /\ result.memory = memory
      <3>1. whole.memory # NULL
        BY <2>1 DEF w
      <3>2. n # 0
        OBVIOUS
      <3> QED
        BY <1>1, <3>1, <3>2
    <2>9. memory # NULL
      BY <2>1, <2>2 DEF NULL
    <2>10. IsList(rest.list)
      BY <2>6, <2>7 DEF IsList, F
    <2>11. Granted(list, n, result)
      BY <2>2, <2>7, <2>8, <2>9, <2>10 DEF Granted, F
    <2> QED
      BY <2>2, <2>8, <2>11 DEF result
  <1> QED
    BY <1>3, <1>4, <1>5

\* MmAddMemoryRegion makes one node of the heap.
LEMMA RegionEffect ==
  ASSUME NEW pages \in {{}, Heap}
  PROVE  Sorted(MmAddMemoryRegion(pages), {}) /\ FreePagesOf(MmAddMemoryRegion(pages)) = pages
  <1>1. CASE pages = {}
    BY <1>1, NoNodes DEF MmAddMemoryRegion
  <1>2. CASE pages # {}
    <2>1. MmAddMemoryRegion(pages) = MmInternalFreePages(<< >>, HEAP_BASE, HEAP_PAGES).list
      BY <1>2 DEF MmAddMemoryRegion
    <2>2. HEAP_BASE \in Nat /\ HEAP_PAGES \in Nat \ {0}
      BY HeapAssumption
    <2>3. Heap = Run(HEAP_BASE, HEAP_PAGES)
      BY DEF Heap, Run
    <2> DEFINE empty == << >>
    <2>4. Sorted(empty, {}) /\ FreePagesOf(empty) = {}
      BY NoNodes
    <2>5. MmAddMemoryRegion(pages) = MmInternalFreePages(empty, HEAP_BASE, HEAP_PAGES).list
      BY <2>1
    <2> HIDE DEF empty
    <2>6. LET result == MmInternalFreePages(empty, HEAP_BASE, HEAP_PAGES)
          IN /\ Sorted(result.list, {})
             /\ FreePagesOf(result.list) = FreePagesOf(empty) \cup Run(HEAP_BASE, HEAP_PAGES)
      BY <2>2, <2>4, FreeEffect
    <2> QED
      BY <1>2, <2>3, <2>4, <2>5, <2>6
  <1> QED
    BY <1>1, <1>2
=============================================================================
