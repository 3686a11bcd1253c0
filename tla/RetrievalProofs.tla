--------------------------- MODULE RetrievalProofs ---------------------------
(***************************************************************************)
(* Retrieval: the covering set a query builds and the tiling it rolls up,  *)
(* proved for documents of any size, any seeds, budgets and token counts,  *)
(* and any appends, summaries and truncations while the query waits for    *)
(* its embedding.                                                          *)
(*                                                                         *)
(* The argument is about the nodes over one leaf: at each height there is  *)
(* one place for such a node, and below a node of the forest all of these  *)
(* places are taken.  Enqueueing a seed, a verbatim leaf or an edge of the *)
(* window with its siblings and ancestors leaves no hole in this column,   *)
(* so the lowest node of the covering set over a leaf is in the frontier,  *)
(* and is the only one that is.                                            *)
(*                                                                         *)
(* Then the seeds of a query, for documents and embeddings that change in  *)
(* any order and any number of leaves: Chroma has every embedded leaf, with*)
(* the place where it is, and what else it has is of documents whose       *)
(* vectors could not be deleted.                                           *)
(***************************************************************************)
EXTENDS Retrieval, QuerySeeds, CoordinateForestProofs, SequenceTheorems

-----------------------------------------------------------------------------
(* The leaves a coordinate stands over *)

\* A coordinate stands over at least one leaf.
LEMMA Span ==
  ASSUME NEW c \in Coordinates
  PROVE  /\ c = <<c[1], c[2]>> /\ c[1] \in Nat /\ c[2] \in Nat
         /\ FirstLeaf(c) \in Nat /\ PastLeaf(c) \in Nat
         /\ FirstLeaf(c) < PastLeaf(c)
         /\ Over(c, FirstLeaf(c)) /\ Over(c, PastLeaf(c) - 1)
<1>1. c = <<c[1], c[2]>> /\ c[1] \in Nat /\ c[2] \in Nat
  BY DEF Coordinates
<1>2. PICK w \in Nat : w = Width[c[1]] /\ w >= 1
  BY <1>1, WidthDoubles
<1>3. FirstLeaf(c) = c[2] * w /\ PastLeaf(c) = c[2] * w + w
  <2>1. (c[2] + 1) * w = c[2] * w + w
    BY <1>1
  <2> QED BY <1>2, <2>1 DEF FirstLeaf, PastLeaf
<1>4. FirstLeaf(c) \in Nat /\ PastLeaf(c) \in Nat /\ FirstLeaf(c) < PastLeaf(c)
  BY <1>1, <1>2, <1>3
<1> QED BY <1>1, <1>4 DEF Over

\* A leaf stands over itself.
LEMMA LeafSpan ==
  ASSUME NEW i \in Nat
  PROVE  /\ Leaf(i) \in Coordinates /\ FirstLeaf(Leaf(i)) = i /\ PastLeaf(Leaf(i)) = i + 1
         /\ Over(Leaf(i), i)
<1>1. FirstLeaf(Leaf(i)) = i /\ PastLeaf(Leaf(i)) = i + 1
  BY WidthDoubles DEF FirstLeaf, PastLeaf, Leaf
<1> QED BY <1>1 DEF Over, Leaf, Coordinates

\* A node of height a + b stands over as many nodes of height b as one of
\* height a stands over leaves.
LEMMA WidthAdds ==
  ASSUME NEW b \in Nat
  PROVE  \A a \in Nat : Width[a + b] = Width[a] * Width[b]
<1> DEFINE Good(a) == Width[a + b] = Width[a] * Width[b]
           Bad == {a \in Nat : ~Good(a)}
<1>1. Good(0)
  BY WidthDoubles
<1>2. ASSUME NEW a \in Nat, Good(a) PROVE Good(a + 1)
  <2>1. (a + 1) + b = (a + b) + 1 /\ a + b \in Nat
    OBVIOUS
  <2>2. Width[(a + 1) + b] = 2 * Width[a + b] /\ Width[a + 1] = 2 * Width[a]
    BY <2>1, WidthDoubles
  <2>3. Width[a] \in Nat /\ Width[b] \in Nat
    BY WidthDoubles
  <2>4. 2 * (Width[a] * Width[b]) = (2 * Width[a]) * Width[b]
    BY <2>3
  <2> QED BY <1>2, <2>2, <2>4
<1> HIDE DEF Good
<1>3. Bad = {}
  <2> SUFFICES ASSUME Bad # {} PROVE FALSE
    OBVIOUS
  <2>1. PICK a \in Bad : \A y \in Bad : a <= y
    <3>1. Bad \in SUBSET Nat
      OBVIOUS
    <3> QED BY <3>1, LeastNat
  <2>2. a # 0
    BY <1>1, <2>1
  <2>3. a - 1 \in Nat /\ a - 1 \notin Bad /\ (a - 1) + 1 = a
    BY <2>1, <2>2
  <2> QED BY <1>2, <2>1, <2>3
<1> QED BY <1>3 DEF Good

\* Of two coordinates over one leaf, the higher one stands over all the other does.
LEMMA Nested ==
  ASSUME NEW c \in Coordinates, NEW d \in Coordinates, NEW i \in Nat,
         Over(c, i), Over(d, i), c[1] <= d[1]
  PROVE  FirstLeaf(d) <= FirstLeaf(c) /\ PastLeaf(c) <= PastLeaf(d)
<1>1. PICK x \in Nat, y \in Nat, w \in Nat, v \in Nat :
         /\ x = c[2] /\ y = d[2] /\ w = Width[c[1]] /\ v = Width[d[1] - c[1]]
         /\ w >= 1 /\ v >= 1
  <2>1. c[1] \in Nat /\ c[2] \in Nat /\ d[2] \in Nat /\ d[1] - c[1] \in Nat
    BY Span
  <2> QED BY <2>1, WidthDoubles
<1>2. Width[d[1]] = v * w
  <2>1. c[1] \in Nat /\ d[1] - c[1] \in Nat /\ (d[1] - c[1]) + c[1] = d[1]
    BY Span
  <2> QED BY <1>1, <2>1, WidthAdds
<1>3. /\ FirstLeaf(c) = x * w /\ PastLeaf(c) = (x + 1) * w
      /\ FirstLeaf(d) = y * (v * w) /\ PastLeaf(d) = (y + 1) * (v * w)
  BY <1>1, <1>2 DEF FirstLeaf, PastLeaf
<1>4. x * w <= i /\ i < (x + 1) * w /\ y * (v * w) <= i /\ i < (y + 1) * (v * w)
  BY <1>3 DEF Over
<1>5. y * v <= x
  <2>1. (y * v) * w < (x + 1) * w
    BY <1>4
  <2>2. y * v \in Nat /\ x + 1 \in Nat
    OBVIOUS
  <2>3. y * v < x + 1
    BY <1>1, <2>1, <2>2
  <2> QED BY <2>2, <2>3
<1>6. x + 1 <= (y + 1) * v
  <2>1. x * w < ((y + 1) * v) * w
    BY <1>4
  <2>2. (y + 1) * v \in Nat
    OBVIOUS
  <2>3. x < (y + 1) * v
    BY <1>1, <2>1, <2>2
  <2> QED BY <2>2, <2>3
<1>7. (y * v) * w <= x * w /\ (x + 1) * w <= ((y + 1) * v) * w
  <2>1. y * v \in Nat /\ (y + 1) * v \in Nat
    OBVIOUS
  <2> QED BY <1>5, <1>6, <2>1
<1> QED BY <1>3, <1>7

\* At each height one coordinate stands over a leaf.
LEMMA OneOfAHeight ==
  ASSUME NEW c \in Coordinates, NEW d \in Coordinates, NEW i \in Nat,
         Over(c, i), Over(d, i), c[1] = d[1]
  PROVE  c = d
<1>1. c[1] \in Nat /\ d[1] \in Nat
  BY Span
<1>2. FirstLeaf(c) = FirstLeaf(d)
  <2>1. FirstLeaf(c) <= FirstLeaf(d) /\ FirstLeaf(d) <= FirstLeaf(c)
    BY <1>1, Nested
  <2> QED BY <2>1, Span
<1>3. c = <<c[1], c[2]>> /\ d = <<c[1], d[2]>> /\ c[2] \in Nat /\ d[2] \in Nat
  BY Span
<1> QED BY <1>1, <1>2, <1>3, SameStart

\* Parents, children and siblings.
LEMMA Family ==
  ASSUME NEW c \in Coordinates
  PROVE  /\ ParentOf(c) \in Coordinates /\ ParentOf(c)[1] = c[1] + 1
         /\ SiblingOf(c) \in Coordinates /\ SiblingOf(c)[1] = c[1] /\ SiblingOf(c) # c
         /\ ParentOf(SiblingOf(c)) = ParentOf(c) /\ SiblingOf(SiblingOf(c)) = c
         /\ ChildrenOf(ParentOf(c)) = {c, SiblingOf(c)}
<1>1. PICK h \in Nat, x \in Nat : c = <<h, x>>
  BY DEF Coordinates
<1>2. PICK y \in Nat : x = 2 * y \/ x = 2 * y + 1
  <2>1. x \div 2 \in Nat /\ (x = 2 * (x \div 2) \/ x = 2 * (x \div 2) + 1)
    OBVIOUS
  <2> QED BY <2>1
<1>3. ParentOf(<<h, 2 * y>>) = <<h + 1, y>> /\ ParentOf(<<h, 2 * y + 1>>) = <<h + 1, y>>
  BY DEF ParentOf
<1>4. SiblingOf(<<h, 2 * y>>) = <<h, 2 * y + 1>> /\ SiblingOf(<<h, 2 * y + 1>>) = <<h, 2 * y>>
  BY DEF SiblingOf
<1>5. ChildrenOf(<<h + 1, y>>) = {<<h, 2 * y>>, <<h, 2 * y + 1>>}
  BY ChildrenBelow
<1>6. <<h + 1, y>> \in Coordinates /\ <<h, 2 * y>> \in Coordinates /\ <<h, 2 * y + 1>> \in Coordinates
  BY DEF Coordinates
<1>7. <<h, 2 * y>> # <<h, 2 * y + 1>>
  BY <1>2
<1>8. CASE x = 2 * y
  BY <1>1, <1>3, <1>4, <1>5, <1>6, <1>7, <1>8
<1>9. CASE x = 2 * y + 1
  BY <1>1, <1>3, <1>4, <1>5, <1>6, <1>7, <1>9
<1> QED BY <1>2, <1>8, <1>9

\* A coordinate is a child of its parent and of no other one.
LEMMA ChildOfParent ==
  ASSUME NEW c \in Coordinates, NEW p \in Coordinates
  PROVE  c \in ChildrenOf(p) <=> ParentOf(c) = p
<1>1. ASSUME c \in ChildrenOf(p) PROVE ParentOf(c) = p
  <2>1. p = <<p[1], p[2]>> /\ p[1] \in Nat /\ p[2] \in Nat /\ c[1] \in Nat /\ c[2] \in Nat
    BY Span
  <2>2. c[1] = p[1] - 1 /\ (c[2] = 2 * p[2] \/ c[2] = 2 * p[2] + 1)
    BY <1>1 DEF ChildrenOf
  <2>3. c[1] + 1 = p[1] /\ c[2] \div 2 = p[2]
    <3>1. (2 * p[2]) \div 2 = p[2] /\ (2 * p[2] + 1) \div 2 = p[2]
      BY <2>1
    <3> QED BY <2>1, <2>2, <3>1
  <2> QED BY <2>1, <2>3 DEF ParentOf
<1>2. ASSUME ParentOf(c) = p PROVE c \in ChildrenOf(p)
  BY <1>2, Family
<1> QED BY <1>1, <1>2

\* A parent stands over the leaves of its two children.
LEMMA ParentSpan ==
  ASSUME NEW c \in Coordinates, NEW i \in Nat
  PROVE  Over(ParentOf(c), i) <=> Over(c, i) \/ Over(SiblingOf(c), i)
<1>1. PICK h \in Nat, x \in Nat : c = <<h, x>>
  BY DEF Coordinates
<1>2. PICK y \in Nat : x = 2 * y \/ x = 2 * y + 1
  <2>1. x \div 2 \in Nat /\ (x = 2 * (x \div 2) \/ x = 2 * (x \div 2) + 1)
    OBVIOUS
  <2> QED BY <2>1
<1>3. PICK w \in Nat : w = Width[h] /\ Width[h + 1] = 2 * w
  BY WidthDoubles
<1>4. /\ FirstLeaf(<<h, 2 * y>>) = (2 * y) * w /\ PastLeaf(<<h, 2 * y>>) = (2 * y) * w + w
      /\ FirstLeaf(<<h, 2 * y + 1>>) = (2 * y) * w + w
      /\ PastLeaf(<<h, 2 * y + 1>>) = (2 * y) * w + w + w
      /\ FirstLeaf(<<h + 1, y>>) = (2 * y) * w /\ PastLeaf(<<h + 1, y>>) = (2 * y) * w + w + w
  <2>1. /\ (2 * y + 1) * w = (2 * y) * w + w
        /\ ((2 * y + 1) + 1) * w = (2 * y) * w + w + w
        /\ y * (2 * w) = (2 * y) * w
        /\ (y + 1) * (2 * w) = (2 * y) * w + w + w
    OBVIOUS
  <2> QED BY <1>3, <2>1 DEF FirstLeaf, PastLeaf
<1>5. Over(<<h + 1, y>>, i) <=> Over(<<h, 2 * y>>, i) \/ Over(<<h, 2 * y + 1>>, i)
  <2> DEFINE z == (2 * y) * w
  <2>1. z \in Nat
    OBVIOUS
  <2> HIDE DEF z
  <2>2. (z <= i /\ i < z + w + w) <=> (z <= i /\ i < z + w) \/ (z + w <= i /\ i < z + w + w)
    BY <2>1
  <2> QED BY <1>4, <2>2 DEF Over, z
<1>6. ParentOf(<<h, 2 * y>>) = <<h + 1, y>> /\ ParentOf(<<h, 2 * y + 1>>) = <<h + 1, y>>
  BY DEF ParentOf
<1>7. SiblingOf(<<h, 2 * y>>) = <<h, 2 * y + 1>> /\ SiblingOf(<<h, 2 * y + 1>>) = <<h, 2 * y>>
  BY DEF SiblingOf
<1>8. CASE x = 2 * y
  BY <1>1, <1>5, <1>6, <1>7, <1>8
<1>9. CASE x = 2 * y + 1
  BY <1>1, <1>5, <1>6, <1>7, <1>9
<1> QED BY <1>2, <1>8, <1>9

\* The ancestors of a coordinate are the higher ones over its leaves.
LEMMA AncestorsStandOver ==
  ASSUME NEW c \in Coordinates, NEW i \in Nat, Over(c, i), NEW top \in Nat
  PROVE  Ancestors(c, top) = {a \in Coordinates : Over(a, i) /\ c[1] < a[1] /\ a[1] <= top}
<1> DEFINE A(h) == <<h, c[2] \div Width[h - c[1]]>>
<1>0. c[1] \in Nat /\ c[2] \in Nat
  BY Span
<1>1. ASSUME NEW h \in (c[1] + 1) .. top
      PROVE  A(h) \in Coordinates /\ A(h)[1] = h /\ Over(A(h), i)
  <2>1. PICK x \in Nat, w \in Nat, v \in Nat :
           /\ x = c[2] /\ w = Width[c[1]] /\ v = Width[h - c[1]] /\ w >= 1 /\ v >= 1
           /\ Width[h] = v * w
    <3>1. h - c[1] \in Nat /\ (h - c[1]) + c[1] = h /\ h \in Nat
      BY <1>0
    <3>2. Width[(h - c[1]) + c[1]] = Width[h - c[1]] * Width[c[1]]
      BY <1>0, <3>1, WidthAdds
    <3> QED BY <1>0, <3>1, <3>2, WidthDoubles
  <2>2. PICK y \in Nat : y = x \div v /\ y * v <= x /\ x < (y + 1) * v
    <3>1. x \div v \in Nat /\ (x \div v) * v <= x /\ x < (x \div v + 1) * v
      BY <2>1
    <3> QED BY <3>1
  <2>3. x * w <= i /\ i < (x + 1) * w
    BY <2>1 DEF Over, FirstLeaf, PastLeaf
  <2>4. y * (v * w) <= i
    <3>1. y * v \in Nat
      OBVIOUS
    <3>2. (y * v) * w <= x * w
      BY <2>2, <3>1
    <3> QED BY <2>3, <3>2
  <2>5. i < (y + 1) * (v * w)
    <3>1. (y + 1) * v \in Nat /\ x + 1 <= (y + 1) * v
      BY <2>2
    <3>2. (x + 1) * w <= ((y + 1) * v) * w
      BY <3>1
    <3> QED BY <2>3, <3>2
  <2>6. A(h) = <<h, y>> /\ h \in Nat
    BY <1>0, <2>1, <2>2
  <2>7. FirstLeaf(<<h, y>>) = y * (v * w) /\ PastLeaf(<<h, y>>) = (y + 1) * (v * w)
    BY <2>1 DEF FirstLeaf, PastLeaf
  <2> QED BY <2>4, <2>5, <2>6, <2>7 DEF Over, Coordinates
<1>2. ASSUME NEW a \in Coordinates, Over(a, i), c[1] < a[1], a[1] <= top
      PROVE  a[1] \in (c[1] + 1) .. top /\ a = A(a[1])
  <2>1. a[1] \in Nat
    BY Span
  <2>2. a[1] \in (c[1] + 1) .. top
    BY <1>0, <1>2, <2>1
  <2>3. A(a[1]) \in Coordinates /\ A(a[1])[1] = a[1] /\ Over(A(a[1]), i)
    BY <1>1, <2>2
  <2> HIDE DEF A
  <2> QED BY <1>2, <2>2, <2>3, OneOfAHeight
<1>3. Ancestors(c, top) = {A(h) : h \in (c[1] + 1) .. top}
  BY DEF Ancestors
<1> HIDE DEF A
<1>4. \A h \in (c[1] + 1) .. top : c[1] < h /\ h <= top
  BY <1>0
<1> QED BY <1>1, <1>2, <1>3, <1>4

\* In a supported forest, below a node there is one over each of its leaves at
\* every smaller height.
LEMMA FullBelow ==
  ASSUME NEW F \in SUBSET Coordinates, Supported(F),
         NEW d \in F, NEW i \in Nat, Over(d, i),
         NEW c \in Coordinates, Over(c, i), c[1] <= d[1]
  PROVE  c \in F
<1> DEFINE Good(h) == \E a \in F : a[1] = h /\ Over(a, i)
           Bad == {m \in 0 .. d[1] : ~Good(d[1] - m)}
<1>0. d \in Coordinates /\ d[1] \in Nat /\ c[1] \in Nat
  BY Span
<1>1. ASSUME NEW h \in Nat, Good(h + 1) PROVE Good(h)
  <2>1. PICK a \in F : a[1] = h + 1 /\ Over(a, i)
    BY <1>1
  <2>2. a \in Coordinates /\ a = <<h + 1, a[2]>> /\ a[2] \in Nat
    BY <2>1, Span
  <2> DEFINE l == <<h, 2 * a[2]>>
  <2>3. l \in Coordinates
    BY <2>2 DEF Coordinates
  <2>4. ParentOf(l) = a
    BY <2>2 DEF ParentOf
  <2>5. Over(l, i) \/ Over(SiblingOf(l), i)
    BY <2>1, <2>3, <2>4, ParentSpan
  <2>6. ChildrenOf(a) = {l, SiblingOf(l)} /\ SiblingOf(l)[1] = l[1] /\ l[1] = h
    BY <2>3, <2>4, Family
  <2>7. l \in F /\ SiblingOf(l) \in F
    <3>1. a[1] > 0
      BY <2>1
    <3> HIDE DEF l
    <3> QED BY <2>1, <2>6, <3>1 DEF Supported
  <2> HIDE DEF l
  <2> QED BY <2>5, <2>6, <2>7
<1> HIDE DEF Good
<1>2. Good(d[1])
  BY DEF Good
<1>3. Bad = {}
  <2> SUFFICES ASSUME Bad # {} PROVE FALSE
    OBVIOUS
  <2>1. PICK m \in Bad : \A y \in Bad : m <= y
    <3>1. Bad \in SUBSET Nat
      OBVIOUS
    <3> QED BY <3>1, LeastNat
  <2>2. m # 0
    <3>1. d[1] - 0 = d[1]
      BY <1>0
    <3> QED BY <1>2, <2>1, <3>1
  <2>3. m - 1 \in 0 .. d[1] /\ m - 1 < m /\ d[1] - (m - 1) = (d[1] - m) + 1 /\ d[1] - m \in Nat
    BY <1>0, <2>1, <2>2
  <2>4. Good((d[1] - m) + 1)
    <3>1. m - 1 \notin Bad
      BY <2>1, <2>3
    <3> QED BY <2>3, <3>1
  <2> QED BY <1>1, <2>1, <2>3, <2>4
<1>4. Good(c[1])
  <2>1. d[1] - c[1] \in 0 .. d[1] /\ d[1] - (d[1] - c[1]) = c[1]
    BY <1>0
  <2> QED BY <1>3, <2>1
<1>5. PICK a \in F : a[1] = c[1] /\ Over(a, i)
  BY <1>4 DEF Good
<1> QED BY <1>5, OneOfAHeight

-----------------------------------------------------------------------------
(* Heights *)

\* A finite set of numbers that is not empty has a greatest one.
LEMMA GreatestNat ==
  ASSUME NEW S \in SUBSET Nat, IsFiniteSet(S), S # {}
  PROVE  \E x \in S : \A y \in S : y <= x
<1>1. PICK n \in Nat : ExistsBijection(1 .. n, S)
  BY FS_CardinalityType
<1>2. PICK f \in [1 .. n -> S] : \A y \in S : \E j \in 1 .. n : f[j] = y
  BY <1>1 DEF ExistsBijection, Bijection, Surjection
<1> DEFINE Good(k) == \E m \in 1 .. k : \A j \in 1 .. k : f[j] <= f[m]
           Bad == {k \in 1 .. n : ~Good(k)}
<1>3. ASSUME NEW k \in 1 .. n, k = 1 \/ Good(k - 1) PROVE Good(k)
  <2>0. \A j \in 1 .. n : f[j] \in Nat
    OBVIOUS
  <2>1. CASE k = 1
    BY <2>0, <2>1
  <2>2. CASE k # 1
    <3>1. PICK m \in 1 .. (k - 1) : \A j \in 1 .. (k - 1) : f[j] <= f[m]
      BY <1>3, <2>2
    <3>2. m \in 1 .. k /\ f[m] \in Nat /\ f[k] \in Nat
      BY <2>0, <3>1
    <3>3. CASE f[m] <= f[k]
      <4>1. \A j \in 1 .. k : f[j] <= f[k]
        BY <2>0, <3>1, <3>2, <3>3
      <4> QED BY <4>1
    <3>4. CASE f[k] <= f[m]
      <4>1. \A j \in 1 .. k : f[j] <= f[m]
        BY <2>0, <3>1, <3>2, <3>4
      <4> QED BY <3>2, <4>1
    <3> QED BY <3>2, <3>3, <3>4
  <2> QED BY <2>1, <2>2
<1> HIDE DEF Good
<1>4. Bad = {}
  <2> SUFFICES ASSUME Bad # {} PROVE FALSE
    OBVIOUS
  <2>1. PICK k \in Bad : \A y \in Bad : k <= y
    <3>1. Bad \in SUBSET Nat
      OBVIOUS
    <3> QED BY <3>1, LeastNat
  <2>2. k = 1 \/ (k - 1 \in 1 .. n /\ k - 1 \notin Bad)
    BY <2>1
  <2> QED BY <1>3, <2>1, <2>2
<1>5. n \in 1 .. n
  <2>1. PICK j \in 1 .. n : TRUE
    BY <1>2
  <2> QED BY <2>1
<1>6. Good(n)
  BY <1>4, <1>5
<1>7. PICK m \in 1 .. n : \A j \in 1 .. n : f[j] <= f[m]
  BY <1>6 DEF Good
<1> QED BY <1>2, <1>7

\* Of finitely many nodes, one is highest.
LEMMA HighestNode ==
  ASSUME NEW S \in SUBSET Coordinates, IsFiniteSet(S), S # {}
  PROVE  \E c \in S : \A d \in S : d[1] <= c[1]
<1> DEFINE f == [c \in S |-> c[1]]
           T == {f[c] : c \in S}
<1>1. IsFiniteSet(T)
  <2> HIDE DEF f
  <2> QED BY FiniteImage
<1>2. T \in SUBSET Nat /\ T # {}
  BY Span
<1>3. PICK x \in T : \A y \in T : y <= x
  <2> HIDE DEF T
  <2> QED BY <1>1, <1>2, GreatestNat
<1>4. PICK c \in S : x = f[c]
  BY <1>3
<1>5. \A d \in S : f[d] \in T /\ f[d] = d[1]
  OBVIOUS
<1> QED BY <1>3, <1>4, <1>5

\* ... and one is lowest.
LEMMA LowestNode ==
  ASSUME NEW S \in SUBSET Coordinates, S # {}
  PROVE  \E c \in S : \A d \in S : c[1] <= d[1]
<1> DEFINE T == {c[1] : c \in S}
<1>1. T \in SUBSET Nat /\ T # {}
  BY Span
<1>2. PICK x \in T : \A y \in T : x <= y
  <2> HIDE DEF T
  <2> QED BY <1>1, LeastNat
<1> QED BY <1>2

\* MaxHeight is the height of the highest node.
LEMMA HeightsAreBounded ==
  ASSUME NEW F \in SUBSET Coordinates, IsFiniteSet(F)
  PROVE  LET top == IF F = {} THEN 0 ELSE Max({c[1] : c \in F})
         IN  /\ top \in Nat /\ \A c \in F : c[1] <= top
             /\ top = 0 \/ \E c \in F : c[1] = top
<1>1. CASE F = {}
  BY <1>1
<1>2. CASE F # {}
  <2> DEFINE T == {c[1] : c \in F}
  <2>1. PICK h \in F : \A d \in F : d[1] <= h[1]
    BY <1>2, HighestNode
  <2>2. T \in SUBSET Nat /\ h[1] \in T /\ \A y \in T : h[1] >= y
    BY <2>1, Span
  <2>3. Max(T) \in T /\ \A y \in T : Max(T) >= y
    <3> HIDE DEF T
    <3> QED BY <2>2 DEF Max
  <2>4. \A c \in F : c[1] \in T /\ c[1] \in Nat
    BY Span
  <2>5. Max(T) \in Nat /\ \A c \in F : c[1] <= Max(T)
    <3> HIDE DEF T
    <3> QED BY <2>2, <2>3, <2>4
  <2>6. \E c \in F : c[1] = Max(T)
    BY <2>3
  <2> QED BY <1>2, <2>5, <2>6
<1> QED BY <1>1, <1>2

LEMMA MaxHeightBounds ==
  ASSUME ForestSound
  PROVE  MaxHeight \in Nat /\ \A c \in forest : c[1] <= MaxHeight
BY HeightsAreBounded DEF ForestSound, MaxHeight, Coordinates

\* The document grows no lower.
LEMMA MaxHeightGrows ==
  ASSUME ForestSound, ForestSound', forest \subseteq forest'
  PROVE  MaxHeight <= MaxHeight'
<1>1. MaxHeight \in Nat /\ (MaxHeight = 0 \/ \E c \in forest : c[1] = MaxHeight)
  BY HeightsAreBounded DEF ForestSound, MaxHeight, Coordinates
<1>2. MaxHeight' = IF forest' = {} THEN 0 ELSE Max({c[1] : c \in forest'})
  BY DEF MaxHeight
<1>3. MaxHeight' \in Nat /\ \A c \in forest' : c[1] <= MaxHeight'
  BY <1>2, HeightsAreBounded DEF ForestSound, Coordinates
<1> QED BY <1>1, <1>3

\* The leaves of a document are numbered without a gap.
LEMMA LeavesAreInARow ==
  ASSUME NEW F \in SUBSET Coordinates, IsFiniteSet(F),
         \A c \in LeavesOf(F) : c[2] # 0 => Leaf(c[2] - 1) \in F
  PROVE  LET n == Cardinality(LeavesOf(F))
         IN  n \in Nat /\ LeavesOf(F) = {Leaf(i) : i \in 0 .. (n - 1)}
<1> DEFINE f == [c \in LeavesOf(F) |-> c[2]]
           S == {f[c] : c \in LeavesOf(F)}
           n == Cardinality(LeavesOf(F))
<1>1. \A c \in LeavesOf(F) : c \in F /\ c = Leaf(c[2]) /\ c[2] \in Nat
  BY Span DEF LeavesOf, Leaf
<1>2. IsFiniteSet(LeavesOf(F))
  <2>1. LeavesOf(F) \in SUBSET F
    BY DEF LeavesOf
  <2> QED BY <2>1, FS_Subset
<1>3. f \in Bijection(LeavesOf(F), S)
  <2>1. \A c, d \in LeavesOf(F) : f[c] = f[d] => c = d
    BY <1>1
  <2> QED BY <2>1 DEF Bijection, Injection, Surjection, IsInjective
<1>4. IsFiniteSet(S) /\ Cardinality(S) = n
  <2> HIDE DEF f, S
  <2> QED BY <1>2, <1>3, FS_Bijection DEF ExistsBijection
<1>5. S \in SUBSET Nat
  BY <1>1
<1>6. \A i \in S : i # 0 => i - 1 \in S
  <2> SUFFICES ASSUME NEW c \in LeavesOf(F), c[2] # 0 PROVE c[2] - 1 \in S
    OBVIOUS
  <2>1. Leaf(c[2] - 1) \in LeavesOf(F) /\ Leaf(c[2] - 1)[2] = c[2] - 1
    BY DEF LeavesOf, Leaf
  <2>2. f[Leaf(c[2] - 1)] = c[2] - 1
    BY <2>1
  <2> QED BY <2>1, <2>2
<1>7. n \in Nat /\ S = 0 .. (n - 1)
  <2> HIDE DEF S, n
  <2> QED BY <1>4, <1>5, <1>6, NumbersInARow
<1>8. LeavesOf(F) = {Leaf(i) : i \in S}
  <2>1. \A c \in LeavesOf(F) : c[2] \in S
    OBVIOUS
  <2>2. \A i \in S : \E c \in LeavesOf(F) : i = c[2]
    OBVIOUS
  <2> HIDE DEF S, f
  <2> QED BY <1>1, <2>1, <2>2
<1> HIDE DEF S
<1> QED BY <1>7, <1>8

-----------------------------------------------------------------------------
(* The document *)

LEMMA GrowKeepsForest ==
  ASSUME ForestSound, Grow, MaxGrowth \in Nat
  PROVE  ForestSound' /\ forest \subseteq forest'
<1> DEFINE n == Cardinality(LeavesOf(forest))
<1>1. PICK k \in 1 .. MaxGrowth : forest' = Grown(forest, k)
  BY DEF Grow
<1>2. forest \in SUBSET Coordinates /\ IsFiniteSet(forest) /\ Supported(forest) /\ k \in Nat
  BY DEF ForestSound, Coordinates
<1>3. PICK L \in SUBSET Coordinates :
         /\ IsFiniteSet(L) /\ \A c \in L : c[1] = 0
         /\ forest' = forest \cup L
  BY <1>1, <1>2, GrownIsTyped
<1>4. n \in Nat /\ LeavesOf(forest) = {Leaf(i) : i \in 0 .. (n - 1)}
  BY <1>2, LeavesAreInARow DEF ForestSound
<1>5. forest' = forest \cup {Leaf(i) : i \in n .. (n + k - 1)}
  BY <1>1 DEF Grown
<1>6. LeavesOf(forest') = {Leaf(i) : i \in 0 .. (n + k - 1)}
  <2> HIDE DEF n
  <2>1. \A i \in n .. (n + k - 1) : Leaf(i)[1] = 0
    BY DEF Leaf
  <2>2. LeavesOf(forest') = LeavesOf(forest) \cup {Leaf(i) : i \in n .. (n + k - 1)}
    BY <1>5, <2>1 DEF LeavesOf
  <2>3. (0 .. (n - 1)) \cup (n .. (n + k - 1)) = 0 .. (n + k - 1)
    BY <1>2, <1>4
  <2> QED BY <1>4, <2>2, <2>3
<1>7. IsFiniteSet(forest')
  BY <1>2, <1>3, FS_Union
<1>8. Supported(forest')
  BY <1>2, <1>3, LeavesSupport
<1>9. \A c \in LeavesOf(forest') : c[2] # 0 => Leaf(c[2] - 1) \in forest'
  <2> HIDE DEF n
  <2> SUFFICES ASSUME NEW i \in 0 .. (n + k - 1), i # 0 PROVE Leaf(i - 1) \in forest'
    BY <1>6 DEF Leaf
  <2>1. i - 1 \in 0 .. (n + k - 1)
    BY <1>2, <1>4
  <2>2. Leaf(i - 1) \in LeavesOf(forest')
    BY <1>6, <2>1
  <2> QED BY <2>2 DEF LeavesOf
<1>10. forest' \in SUBSET Coordinates
  BY <1>2, <1>3
<1> QED BY <1>3, <1>7, <1>8, <1>9, <1>10 DEF ForestSound, Coordinates

LEMMA MergeKeepsForest ==
  ASSUME ForestSound, Merge
  PROVE  ForestSound' /\ forest \subseteq forest'
<1>1. PICK c \in ReadyPairs(forest) : forest' = Merged(forest, c)
  BY DEF Merge
<1>2. forest \in SUBSET Coordinates /\ IsFiniteSet(forest) /\ Supported(forest)
      /\ c \in forest /\ SiblingOf(c) \in forest /\ c[2] % 2 = 0
  BY DEF ForestSound, Coordinates, ReadyPairs, Tops
<1>3. forest' \in SUBSET Coordinates /\ Supported(forest') /\ IsFiniteSet(forest')
  BY <1>1, <1>2, SummarySupports, MergedIsTyped
<1>4. forest' = forest \cup {ParentOf(c)}
  BY <1>1 DEF Merged
<1>5. LeavesOf(forest') = LeavesOf(forest)
  <2>1. ParentOf(c)[1] > 0
    BY <1>2, Family, Span
  <2> QED BY <1>4, <2>1 DEF LeavesOf
<1> QED BY <1>3, <1>4, <1>5 DEF ForestSound, Coordinates

LEMMA CutKeepsForest ==
  ASSUME ForestSound, CutOff
  PROVE  ForestSound' /\ forest' \subseteq forest
<1>1. forest \in SUBSET Coordinates /\ IsFiniteSet(forest) /\ Supported(forest)
  BY DEF ForestSound, Coordinates
<1>2. PICK n \in Nat : forest' = Cut(forest, n)
  BY DEF CutOff
<1>3. forest' \in SUBSET forest /\ IsFiniteSet(forest') /\ Supported(forest')
  BY <1>1, <1>2, CutIsTyped, CutIsSupported
<1>4. ASSUME NEW c \in LeavesOf(forest'), c[2] # 0 PROVE Leaf(c[2] - 1) \in forest'
  <2>1. c \in forest /\ c[1] = 0 /\ PastLeaf(c) <= n /\ c[2] \in Nat /\ c = Leaf(c[2])
    BY <1>1, <1>2, Span DEF LeavesOf, Cut, Leaf
  <2>2. Leaf(c[2] - 1) \in forest
    BY <1>4, <2>1 DEF ForestSound, LeavesOf
  <2>3. PastLeaf(c) = c[2] + 1 /\ PastLeaf(Leaf(c[2] - 1)) = (c[2] - 1) + 1
    BY <1>4, <2>1, LeafSpan
  <2> QED BY <1>2, <2>1, <2>2, <2>3 DEF Cut
<1> QED BY <1>1, <1>3, <1>4 DEF ForestSound, Coordinates

-----------------------------------------------------------------------------
(* The covering set *)

\* Enqueueing a node enqueues, over each of its leaves, a node at every height
\* from its own up to the document's, each with its sibling.
LEMMA LineIsEnqueued ==
  ASSUME ForestSound, NEW e \in Coordinates, NEW i \in Nat, Over(e, i),
         NEW a \in Coordinates, Over(a, i), e[1] <= a[1], a[1] <= MaxHeight
  PROVE  a \in Enqueued(e) /\ SiblingOf(a) \in Enqueued(e)
<1>1. MaxHeight \in Nat
  BY MaxHeightBounds
<1>2. a \in {e} \cup Ancestors(e, MaxHeight)
  <2>1. CASE a[1] = e[1]
    BY <2>1, OneOfAHeight
  <2>2. CASE a[1] # e[1]
    <3>1. e[1] < a[1]
      BY <2>2, Span
    <3> QED BY <1>1, <3>1, AncestorsStandOver
  <2> QED BY <2>1, <2>2
<1> QED BY <1>2 DEF Enqueued

\* With an enqueued node its sibling and its parent are enqueued, unless the
\* parent is too high.
LEMMA EnqueuedIsClosed ==
  ASSUME ForestSound, NEW e \in Coordinates, NEW c \in Enqueued(e)
  PROVE  /\ c \in Coordinates
         /\ SiblingOf(c) \in Enqueued(e)
         /\ ParentOf(c)[1] <= MaxHeight => ParentOf(c) \in Enqueued(e)
<1> DEFINE i == FirstLeaf(e)
           line == {e} \cup Ancestors(e, MaxHeight)
<1>1. MaxHeight \in Nat /\ i \in Nat /\ Over(e, i)
  BY MaxHeightBounds, Span
<1>2. \A a \in line : a \in Coordinates /\ Over(a, i) /\ e[1] <= a[1]
  <2>1. \A a \in Ancestors(e, MaxHeight) : a \in Coordinates /\ Over(a, i) /\ e[1] < a[1]
    BY <1>1, AncestorsStandOver
  <2> QED BY <1>1, <2>1, Span
<1>3. PICK a \in line : c = a \/ c = SiblingOf(a)
  BY DEF Enqueued
<1>4. /\ a \in Coordinates /\ a[1] \in Nat /\ e[1] \in Nat /\ c \in Coordinates
      /\ ParentOf(c) = ParentOf(a) /\ SiblingOf(c) \in {a, SiblingOf(a)}
      /\ ParentOf(a) \in Coordinates /\ ParentOf(a)[1] = a[1] + 1 /\ Over(ParentOf(a), i)
  <2>1. a \in Coordinates /\ Over(a, i)
    BY <1>2
  <2> HIDE DEF line
  <2> QED BY <1>1, <1>3, <2>1, Family, ParentSpan, Span
<1>5. a \in Enqueued(e) /\ SiblingOf(a) \in Enqueued(e)
  BY DEF Enqueued
<1>6. e[1] <= a[1]
  BY <1>2
<1> HIDE DEF i, line
<1>7. ParentOf(c)[1] <= MaxHeight => ParentOf(c) \in Enqueued(e)
  BY <1>1, <1>4, <1>6, LineIsEnqueued
<1> QED BY <1>4, <1>5, <1>7

Pins == {Leaf(i) : i \in query.pinned}

\* A pinned leaf has the nodes over it for ancestors.
LEMMA PinnedAncestorsStandOver ==
  ASSUME ForestSound, query.pinned \subseteq Nat, NEW a \in Coordinates
  PROVE  a \in PinnedAncestors(Pins) <=>
           \E x \in query.pinned : Over(a, x) /\ 0 < a[1] /\ a[1] <= MaxHeight
<1>1. ASSUME NEW x \in query.pinned
      PROVE  Ancestors(Leaf(x), MaxHeight) =
               {b \in Coordinates : Over(b, x) /\ 0 < b[1] /\ b[1] <= MaxHeight}
  <2>1. Leaf(x) \in Coordinates /\ Over(Leaf(x), x) /\ x \in Nat /\ MaxHeight \in Nat
    BY LeafSpan, MaxHeightBounds
  <2>2. Leaf(x)[1] = 0
    BY DEF Leaf
  <2> QED BY <2>1, <2>2, AncestorsStandOver
<1> QED BY <1>1 DEF PinnedAncestors, Pins

\* What a plan is when the query goes on: PlanIsSound, and no edge is refused.
Planned(seeds) ==
    /\ ForestSound
    /\ seeds \in SUBSET Coordinates
    /\ query.first \in Nat /\ query.last \in Nat
    /\ query.edges \in SUBSET Coordinates /\ query.pinned \in SUBSET Nat
    /\ query.first <= query.last
    /\ \A e \in query.edges : IsWithin(e, query.first, query.last) /\ e[1] <= MaxHeight
    /\ \A i \in {query.first, query.last} : \E e \in query.edges : Over(e, i)
    /\ \A i \in query.pinned : i \in query.first .. query.last /\ Leaf(i) \in forest

Covering(seeds) == Coverage(seeds, Pins, query)

\* From a node of the covering set, the parent is in it as well if it is a
\* node of the forest, inside the window and above no verbatim leaf; and then
\* the sibling is, too.
LEMMA CoverageIsClosed ==
  ASSUME NEW seeds, Planned(seeds), NEW c \in Covering(seeds),
         ParentOf(c) \in forest, IsWithin(ParentOf(c), query.first, query.last),
         ParentOf(c) \notin PinnedAncestors(Pins)
  PROVE  ParentOf(c) \in Covering(seeds) /\ SiblingOf(c) \in Covering(seeds)
<1> DEFINE starts == seeds \cup Pins \cup query.edges
           p == ParentOf(c)
           s == SiblingOf(c)
<1>1. /\ forest \in SUBSET Coordinates /\ Supported(forest) /\ c \in forest
      /\ query.pinned \subseteq Nat /\ query.first \in Nat /\ query.last \in Nat
  BY DEF Planned, ForestSound, Coordinates, Covering, Coverage
<1>2. starts \in SUBSET Coordinates
  BY LeafSpan DEF Planned, Pins
<1>3. /\ c \in Coordinates /\ p \in Coordinates /\ s \in Coordinates /\ p[1] = c[1] + 1
      /\ s[1] = c[1] /\ c[1] \in Nat /\ ChildrenOf(p) = {c, s} /\ p[1] <= MaxHeight /\ ParentOf(s) = p
  BY <1>1, Family, Span, MaxHeightBounds DEF Planned
<1>4. PICK e \in starts : c \in Enqueued(e)
  <2> DEFINE lines == {Enqueued(x) : x \in starts}
  <2>1. c \in (UNION lines) \cup Tops(forest)
    BY DEF Covering, Coverage
  <2>2. c \notin Tops(forest)
    BY DEF Tops
  <2>3. \A l \in lines : \E x \in starts : l = Enqueued(x)
    OBVIOUS
  <2> HIDE DEF lines
  <2>4. \E l \in lines : c \in l
    BY <2>1, <2>2
  <2> QED BY <2>3, <2>4
<1>5. p \in Enqueued(e) /\ s \in Enqueued(e)
  BY <1>2, <1>3, <1>4, EnqueuedIsClosed DEF Planned
<1>6. s \in forest
  BY <1>1, <1>3 DEF Supported
<1>7. IsWithin(s, query.first, query.last)
  <2> DEFINE i == FirstLeaf(s)
  <2>1. i \in Nat /\ Over(s, i)
    BY <1>3, Span
  <2>2. Over(p, i)
    BY <1>3, <2>1, ParentSpan
  <2>3. FirstLeaf(p) <= FirstLeaf(s) /\ PastLeaf(s) <= PastLeaf(p)
    <3>1. s[1] <= p[1]
      BY <1>3
    <3> HIDE DEF i, p, s
    <3> QED BY <1>3, <2>1, <2>2, <3>1, Nested
  <2>4. /\ FirstLeaf(p) \in Nat /\ FirstLeaf(s) \in Nat
        /\ PastLeaf(p) \in Nat /\ PastLeaf(s) \in Nat
    BY <1>3, Span
  <2> HIDE DEF i, s
  <2> QED BY <1>1, <2>3, <2>4 DEF IsWithin
<1>8. s \notin PinnedAncestors(Pins)
  <2> SUFFICES ASSUME s \in PinnedAncestors(Pins) PROVE FALSE
    OBVIOUS
  <2>1. PICK x \in query.pinned : Over(s, x) /\ 0 < s[1]
    BY <1>1, <1>3, PinnedAncestorsStandOver DEF Planned
  <2>2. Over(p, x) /\ x \in Nat
    BY <1>1, <1>3, <2>1, ParentSpan
  <2>3. 0 < p[1] /\ p[1] <= MaxHeight
    BY <1>3
  <2> QED BY <1>1, <1>3, <2>2, <2>3, PinnedAncestorsStandOver DEF Planned
<1>9. \A d \in {p, s} : d \in UNION {Enqueued(x) : x \in starts}
  BY <1>5
<1> HIDE DEF p, s
<1>10. \A d \in {p, s} : /\ d \in forest /\ IsWithin(d, query.first, query.last)
                         /\ d \notin PinnedAncestors(Pins)
  BY <1>6, <1>7, <1>8 DEF p
<1> QED BY <1>9, <1>10 DEF Covering, Coverage, p, s

\* Over every leaf of the window that is there stands a node of the covering
\* set: the highest that is in the window and above no verbatim leaf.  It is a
\* root, or its parent holds a verbatim leaf or reaches out of the window, and
\* then the node was enqueued with that leaf or with that edge.
LEMMA WindowIsCovered ==
  ASSUME NEW seeds, Planned(seeds),
         NEW i \in query.first .. query.last, Leaf(i) \in forest
  PROVE  \E c \in Covering(seeds) : Over(c, i)
<1> DEFINE Inside(c) == IsWithin(c, query.first, query.last) /\ c \notin PinnedAncestors(Pins)
           M == {c \in forest : Over(c, i) /\ Inside(c)}
<1>1. /\ forest \in SUBSET Coordinates /\ IsFiniteSet(forest) /\ query.pinned \subseteq Nat
      /\ query.first \in Nat /\ query.last \in Nat /\ i \in Nat
      /\ query.first <= i /\ i <= query.last /\ ForestSound
  BY DEF Planned, ForestSound, Coordinates
<1>2. Leaf(i) \in M
  <2>1. Over(Leaf(i), i) /\ FirstLeaf(Leaf(i)) = i /\ PastLeaf(Leaf(i)) = i + 1
        /\ Leaf(i) \in Coordinates /\ Leaf(i)[1] = 0
    BY <1>1, LeafSpan DEF Leaf
  <2>2. IsWithin(Leaf(i), query.first, query.last)
    BY <1>1, <2>1 DEF IsWithin
  <2>3. Leaf(i) \notin PinnedAncestors(Pins)
    BY <1>1, <2>1, PinnedAncestorsStandOver
  <2> QED BY <2>1, <2>2, <2>3
<1>3. PICK m \in M : \A d \in M : d[1] <= m[1]
  <2>1. M \in SUBSET forest
    OBVIOUS
  <2>2. M \in SUBSET Coordinates /\ IsFiniteSet(M) /\ M # {}
    BY <1>1, <1>2, <2>1, FS_Subset
  <2> HIDE DEF M
  <2> QED BY <2>2, HighestNode
<1> DEFINE p == ParentOf(m)
           s == SiblingOf(m)
<1>4. /\ m \in Coordinates /\ m \in forest /\ Over(m, i) /\ Inside(m) /\ m[1] \in Nat /\ m[1] <= MaxHeight
      /\ p \in Coordinates /\ p[1] = m[1] + 1 /\ Over(p, i)
      /\ s \in Coordinates /\ s[1] = m[1] /\ SiblingOf(s) = m
      /\ \A x \in Nat : Over(p, x) <=> Over(m, x) \/ Over(s, x)
  <2>1. m \in Coordinates /\ m \in forest /\ Over(m, i) /\ Inside(m)
    BY <1>1, <1>3
  <2> HIDE DEF M, Inside
  <2> QED BY <1>1, <2>1, Family, ParentSpan, Span, MaxHeightBounds
<1>5. ASSUME m \in (UNION {Enqueued(e) : e \in seeds \cup Pins \cup query.edges}) \cup Tops(forest)
      PROVE  \E c \in Covering(seeds) : Over(c, i)
  <2>1. m \in Covering(seeds) /\ Over(m, i)
    BY <1>4, <1>5 DEF Covering, Coverage
  <2> HIDE DEF M, Inside, p, s
  <2> QED BY <2>1
<1>6. ASSUME NEW e \in Pins \cup query.edges, NEW x \in Nat, Over(e, x), Over(p, x), e[1] <= m[1]
      PROVE  m \in Enqueued(e)
  <2>1. e \in Coordinates
    BY LeafSpan DEF Planned, Pins
  <2>2. Over(m, x) \/ Over(s, x)
    BY <1>4, <1>6
  <2> HIDE DEF M, Inside, p, s
  <2> QED BY <1>1, <1>4, <1>6, <2>1, <2>2, LineIsEnqueued
<1>7. CASE p \notin forest
  BY <1>4, <1>5, <1>7 DEF Tops
<1>8. CASE p \in PinnedAncestors(Pins)
  <2>1. PICK x \in query.pinned : Over(p, x)
    BY <1>1, <1>4, <1>8, PinnedAncestorsStandOver
  <2>2. Leaf(x) \in Pins /\ x \in Nat /\ Over(Leaf(x), x) /\ Leaf(x)[1] <= m[1]
    <3>1. x \in Nat /\ Leaf(x)[1] = 0
      BY <1>1 DEF Leaf
    <3> QED BY <1>4, <3>1, LeafSpan DEF Pins
  <2>3. m \in Enqueued(Leaf(x))
    BY <1>6, <2>1, <2>2
  <2> QED BY <1>5, <2>2, <2>3
<1>9. CASE ~IsWithin(p, query.first, query.last)
  <2>1. /\ FirstLeaf(p) \in Nat /\ PastLeaf(p) \in Nat /\ FirstLeaf(p) <= i /\ i < PastLeaf(p)
    BY <1>4, Span DEF Over
  <2>2. PICK x \in {query.first, query.last} :
           Over(p, x) /\ (FirstLeaf(p) < query.first \/ PastLeaf(p) - 1 > query.last)
    <3>1. CASE FirstLeaf(p) < query.first
      BY <1>1, <2>1, <3>1 DEF Over
    <3>2. CASE PastLeaf(p) - 1 > query.last
      BY <1>1, <2>1, <3>2 DEF Over
    <3>3. FirstLeaf(p) < query.first \/ PastLeaf(p) - 1 > query.last
      BY <1>1, <1>9, <2>1 DEF IsWithin
    <3> QED BY <3>1, <3>2, <3>3
  <2>3. PICK e \in query.edges : Over(e, x)
    BY <2>2 DEF Planned
  <2>4. e \in Coordinates /\ IsWithin(e, query.first, query.last) /\ x \in Nat
    BY <1>1, <2>3 DEF Planned
  <2>5. e[1] <= m[1]
    <3> SUFFICES ASSUME ~(e[1] <= m[1]) PROVE FALSE
      OBVIOUS
    <3>1. e[1] \in Nat /\ p[1] <= e[1]
      BY <1>4, <2>4, Span
    <3>2. FirstLeaf(e) <= FirstLeaf(p) /\ PastLeaf(p) <= PastLeaf(e)
      <4> HIDE DEF p
      <4> QED BY <1>4, <2>2, <2>3, <2>4, <3>1, Nested
    <3>3. FirstLeaf(e) \in Nat /\ PastLeaf(e) \in Nat
      BY <2>4, Span
    <3> HIDE DEF p
    <3> QED BY <1>1, <2>1, <2>2, <2>4, <3>2, <3>3 DEF IsWithin
  <2>6. m \in Enqueued(e)
    BY <1>6, <2>2, <2>3, <2>4, <2>5
  <2> QED BY <1>5, <2>3, <2>6
<1>10. CASE p \in forest /\ Inside(p)
  <2>1. p \in M
    BY <1>4, <1>10
  <2>2. p[1] <= m[1]
    BY <1>3, <2>1
  <2> QED BY <1>4, <2>2
<1> QED BY <1>7, <1>8, <1>9, <1>10

\* A verbatim leaf is in the covering set.
LEMMA PinsAreCovered ==
  ASSUME NEW seeds, Planned(seeds), NEW x \in query.pinned
  PROVE  Leaf(x) \in Covering(seeds)
<1>1. /\ x \in Nat /\ query.first <= x /\ x <= query.last /\ Leaf(x) \in forest
      /\ query.first \in Nat /\ query.last \in Nat /\ query.pinned \subseteq Nat /\ ForestSound
  BY DEF Planned
<1>2. Leaf(x) \in Coordinates /\ FirstLeaf(Leaf(x)) = x /\ PastLeaf(Leaf(x)) = x + 1 /\ Leaf(x)[1] = 0
  BY <1>1, LeafSpan DEF Leaf
<1>3. Leaf(x) \notin PinnedAncestors(Pins)
  BY <1>1, <1>2, PinnedAncestorsStandOver
<1>4. IsWithin(Leaf(x), query.first, query.last)
  BY <1>1, <1>2 DEF IsWithin
<1>5. Leaf(x) \in Pins /\ Leaf(x) \in Enqueued(Leaf(x))
  BY DEF Pins, Enqueued
<1> QED BY <1>1, <1>3, <1>4, <1>5 DEF Covering, Coverage

\* The covering set: both children of a node or none.
LEMMA CoverageHasPairs ==
  ASSUME NEW seeds, Planned(seeds), NEW p \in Covering(seeds), Below(p, Covering(seeds)) # {}
  PROVE  ChildrenOf(p) \subseteq Covering(seeds)
<1>1. PICK c \in Covering(seeds) : c \in ChildrenOf(p)
  BY DEF Below
<1>2. /\ c \in forest /\ p \in forest /\ IsWithin(p, query.first, query.last)
      /\ p \notin PinnedAncestors(Pins) /\ forest \in SUBSET Coordinates
  BY <1>1 DEF Covering, Coverage, Planned, ForestSound, Coordinates
<1>3. ParentOf(c) = p /\ ChildrenOf(p) = {c, SiblingOf(c)}
  BY <1>1, <1>2, ChildOfParent, Family
<1>4. SiblingOf(c) \in Covering(seeds)
  BY <1>2, <1>3, CoverageIsClosed
<1> QED BY <1>1, <1>3, <1>4

\* Between two nodes of the covering set over one leaf no height is left out.
LEMMA CoverageHasNoHoles ==
  ASSUME NEW seeds, Planned(seeds), NEW i \in Nat,
         NEW c \in Covering(seeds), NEW d \in Covering(seeds), Over(c, i), Over(d, i), c[1] < d[1]
  PROVE  Below(d, Covering(seeds)) # {}
<1> DEFINE N == Covering(seeds)
           M == {x \in N : Over(x, i) /\ x[1] < d[1]}
<1>1. /\ N \subseteq forest /\ forest \in SUBSET Coordinates /\ IsFiniteSet(forest)
      /\ Supported(forest) /\ query.pinned \subseteq Nat
      /\ query.first \in Nat /\ query.last \in Nat /\ ForestSound
  BY DEF Covering, Coverage, Planned, ForestSound, Coordinates
<1>2. PICK m \in M : \A x \in M : x[1] <= m[1]
  <2>1. M \in SUBSET forest /\ M \in SUBSET Coordinates
    BY <1>1
  <2>2. IsFiniteSet(M) /\ M # {}
    BY <1>1, <2>1, FS_Subset
  <2> HIDE DEF M
  <2> QED BY <2>1, <2>2, HighestNode
<1> DEFINE p == ParentOf(m)
<1>3. /\ m \in N /\ m \in Coordinates /\ d \in Coordinates /\ d \in forest /\ p \in Coordinates
      /\ p[1] = m[1] + 1 /\ Over(p, i) /\ m \in ChildrenOf(p)
      /\ p[1] <= d[1] /\ m[1] \in Nat /\ d[1] \in Nat
  <2>1. m \in N /\ m \in Coordinates /\ d \in Coordinates /\ d \in forest /\ Over(m, i) /\ m[1] < d[1]
    BY <1>1, <1>2
  <2> HIDE DEF M, N
  <2>2. m[1] \in Nat /\ d[1] \in Nat
    BY <2>1, Span
  <2> QED BY <2>1, <2>2, Family, ParentSpan
<1> HIDE DEF p
<1>4. p \in forest
  BY <1>1, <1>3, FullBelow
<1>5. FirstLeaf(d) <= FirstLeaf(p) /\ PastLeaf(p) <= PastLeaf(d)
  BY <1>3, Nested
<1>6. IsWithin(d, query.first, query.last) /\ d \notin PinnedAncestors(Pins)
  BY DEF Covering, Coverage
<1>7. IsWithin(p, query.first, query.last)
  <2>1. FirstLeaf(d) \in Nat /\ FirstLeaf(p) \in Nat /\ PastLeaf(p) \in Nat /\ PastLeaf(d) \in Nat
    BY <1>3, Span
  <2> QED BY <1>1, <1>5, <1>6, <2>1 DEF IsWithin
<1>8. p \notin PinnedAncestors(Pins)
  <2> SUFFICES ASSUME p \in PinnedAncestors(Pins) PROVE FALSE
    OBVIOUS
  <2>1. PICK x \in query.pinned : Over(p, x)
    BY <1>1, <1>3, PinnedAncestorsStandOver
  <2>2. Over(d, x)
    <3>1. /\ FirstLeaf(d) \in Nat /\ FirstLeaf(p) \in Nat /\ PastLeaf(p) \in Nat
          /\ PastLeaf(d) \in Nat /\ x \in Nat
      BY <1>1, <1>3, Span
    <3> QED BY <1>5, <2>1, <3>1 DEF Over
  <2>3. 0 < d[1] /\ d[1] <= MaxHeight
    BY <1>1, <1>3, MaxHeightBounds
  <2> QED BY <1>1, <1>3, <1>6, <2>2, <2>3, PinnedAncestorsStandOver
<1>9. p \in N
  BY <1>3, <1>4, <1>7, <1>8, CoverageIsClosed DEF p
<1>10. p[1] = d[1]
  <2> SUFFICES ASSUME p[1] # d[1] PROVE FALSE
    OBVIOUS
  <2>1. p \in M
    BY <1>3, <1>9
  <2> QED BY <1>2, <1>3, <2>1
<1>11. p = d
  BY <1>3, <1>10, OneOfAHeight
<1> QED BY <1>3, <1>11 DEF Below

\* The frontier of the covering set shows every leaf of the window that is
\* there, and shows none twice.
LEMMA FirstFrontierTiles ==
  ASSUME NEW seeds, Planned(seeds)
  PROVE  LET N == Covering(seeds)
         IN  /\ \A i \in query.first .. query.last :
                  Leaf(i) \in forest => \E c \in FrontierOf(N) : Over(c, i)
             /\ \A i \in Nat : \A c, d \in FrontierOf(N) : Over(c, i) /\ Over(d, i) => c = d
             /\ Pins \subseteq FrontierOf(N)
<1> DEFINE N == Covering(seeds)
<1>1. N \in SUBSET Coordinates
  BY DEF Covering, Coverage, Planned, ForestSound, Coordinates
<1>2. ASSUME NEW i \in query.first .. query.last, Leaf(i) \in forest
      PROVE  \E c \in FrontierOf(N) : Over(c, i)
  <2> DEFINE M == {c \in N : Over(c, i)}
  <2>0. i \in Nat
    BY DEF Planned
  <2>1. M \in SUBSET Coordinates /\ M # {}
    BY <1>1, <1>2, WindowIsCovered
  <2>2. PICK m \in M : \A d \in M : m[1] <= d[1]
    <3> HIDE DEF M
    <3> QED BY <2>1, LowestNode
  <2>3. m \in N /\ Over(m, i) /\ m \in Coordinates
    BY <1>1
  <2>4. ASSUME NEW c \in N, c \in ChildrenOf(m) PROVE FALSE
    <3>1. ChildrenOf(m) \subseteq N
      BY <2>3, <2>4, CoverageHasPairs DEF Below
    <3>2. c \in Coordinates /\ ParentOf(c) = m
      BY <1>1, <2>3, <2>4, ChildOfParent
    <3>3. ChildrenOf(m) = {c, SiblingOf(c)} /\ m[1] = c[1] + 1 /\ SiblingOf(c)[1] = c[1] /\ c[1] \in Nat
      BY <3>2, Family, Span
    <3>4. Over(c, i) \/ Over(SiblingOf(c), i)
      BY <2>0, <2>3, <3>2, ParentSpan
    <3>5. \E d \in M : d[1] = c[1]
      BY <3>1, <3>3, <3>4
    <3> QED BY <2>2, <3>3, <3>5
  <2>5. m \in FrontierOf(N)
    BY <2>3, <2>4 DEF FrontierOf
  <2> QED BY <2>3, <2>5
<1>3. ASSUME NEW i \in Nat, NEW c \in FrontierOf(N), NEW d \in FrontierOf(N), Over(c, i), Over(d, i)
      PROVE  c = d
  <2>1. c \in N /\ d \in N /\ Below(c, N) = {} /\ Below(d, N) = {}
    BY DEF FrontierOf, Below
  <2>2. c \in Coordinates /\ d \in Coordinates /\ c[1] \in Nat /\ d[1] \in Nat
    BY <1>1, <2>1, Span
  <2>3. ~(c[1] < d[1]) /\ ~(d[1] < c[1])
    BY <1>3, <2>1, CoverageHasNoHoles
  <2> QED BY <1>3, <2>2, <2>3, OneOfAHeight
<1>4. ASSUME NEW x \in query.pinned PROVE Leaf(x) \in FrontierOf(N)
  <2>1. Leaf(x) \in N
    BY PinsAreCovered
  <2>2. \A c \in N : c[1] \in Nat
    BY <1>1, Span
  <2>3. \A c \in ChildrenOf(Leaf(x)) : c[1] = 0 - 1
    BY DEF ChildrenOf, Leaf
  <2> HIDE DEF N
  <2> QED BY <2>1, <2>2, <2>3 DEF FrontierOf
<1> QED BY <1>2, <1>3, <1>4 DEF Pins

\* Leaves outside the window stand alone: no node of the covering set is over
\* one, and so they join its frontier.
LEMMA StraysStandAlone ==
  ASSUME NEW seeds, Planned(seeds), NEW S \in SUBSET forest,
         \A c \in S : c[1] = 0 /\ ~IsWithin(c, query.first, query.last)
  PROVE  LET N == Covering(seeds)
         IN  /\ \A p \in N : Below(p, N \cup S) = Below(p, N)
             /\ \A p \in S : Below(p, N \cup S) = {}
             /\ FrontierOf(N \cup S) = FrontierOf(N) \cup S
             /\ \A c \in S, p \in N, i \in Nat : ~(Over(c, i) /\ Over(p, i))
<1> DEFINE N == Covering(seeds)
<1>1. /\ N \in SUBSET Coordinates /\ S \in SUBSET Coordinates
      /\ \A p \in N : IsWithin(p, query.first, query.last)
      /\ query.first \in Nat /\ query.last \in Nat
  BY DEF Covering, Coverage, Planned, ForestSound, Coordinates
<1> HIDE DEF N
<1>2. ASSUME NEW c \in S, NEW p \in N, NEW i \in Nat, Over(c, i), Over(p, i) PROVE FALSE
  <2>1. /\ c \in Coordinates /\ p \in Coordinates /\ c[1] <= p[1]
        /\ FirstLeaf(c) \in Nat /\ PastLeaf(c) \in Nat
        /\ FirstLeaf(p) \in Nat /\ PastLeaf(p) \in Nat
    BY <1>1, Span
  <2>2. FirstLeaf(p) <= FirstLeaf(c) /\ PastLeaf(c) <= PastLeaf(p)
    BY <1>2, <2>1, Nested
  <2>3. IsWithin(p, query.first, query.last) /\ ~IsWithin(c, query.first, query.last)
    BY <1>1
  <2> QED BY <1>1, <2>1, <2>2, <2>3 DEF IsWithin
<1>3. ASSUME NEW c \in S, NEW p \in N PROVE c \notin ChildrenOf(p)
  <2> SUFFICES ASSUME c \in ChildrenOf(p) PROVE FALSE
    OBVIOUS
  <2>1. /\ c \in Coordinates /\ p = ParentOf(c)
        /\ FirstLeaf(c) \in Nat /\ Over(c, FirstLeaf(c))
    BY <1>1, ChildOfParent, Span
  <2>2. Over(p, FirstLeaf(c))
    BY <2>1, ParentSpan
  <2> QED BY <1>2, <2>1, <2>2
<1>4. ASSUME NEW p \in S, NEW c \in N \cup S PROVE c \notin ChildrenOf(p)
  <2>1. c[1] \in Nat /\ p[1] = 0
    BY <1>1, Span
  <2>2. \A d \in ChildrenOf(p) : d[1] = p[1] - 1
    BY DEF ChildrenOf
  <2> QED BY <2>1, <2>2
<1>5. \A p \in N : Below(p, N \cup S) = Below(p, N)
  BY <1>3 DEF Below
<1>6. \A p \in S : Below(p, N \cup S) = {}
  BY <1>4 DEF Below
<1>7. FrontierOf(N \cup S) = FrontierOf(N) \cup S
  BY <1>5, <1>6 DEF FrontierOf, Below
<1> QED BY <1>2, <1>5, <1>6, <1>7 DEF N

\* The frontier with them.
LEMMA FirstFrontierWithStrays ==
  ASSUME NEW seeds, Planned(seeds), NEW S \in SUBSET forest,
         \A c \in S : c[1] = 0 /\ ~IsWithin(c, query.first, query.last)
  PROVE  LET Fr == FrontierOf(Covering(seeds) \cup S)
         IN  /\ \A i \in query.first .. query.last :
                  Leaf(i) \in forest => \E c \in Fr : Over(c, i)
             /\ \A i \in Nat : \A c, d \in Fr : Over(c, i) /\ Over(d, i) => c = d
             /\ Pins \subseteq Fr /\ S \subseteq Fr
<1> DEFINE N == Covering(seeds)
           First == FrontierOf(N)
<1>1. /\ FrontierOf(N \cup S) = First \cup S
      /\ \A c \in S, p \in N, i \in Nat : ~(Over(c, i) /\ Over(p, i))
  BY StraysStandAlone
<1>2. /\ \A i \in query.first .. query.last : Leaf(i) \in forest => \E c \in First : Over(c, i)
      /\ \A i \in Nat : \A c, d \in First : Over(c, i) /\ Over(d, i) => c = d
      /\ Pins \subseteq First
  BY FirstFrontierTiles
<1>3. First \subseteq N /\ S \in SUBSET Coordinates
  BY DEF First, FrontierOf, Planned, ForestSound, Coordinates
<1> HIDE DEF N, First
<1>4. ASSUME NEW i \in Nat, NEW c \in First \cup S, NEW d \in First \cup S,
             Over(c, i), Over(d, i)
      PROVE  c = d
  <2>1. CASE c \in First /\ d \in First
    BY <1>2, <1>4, <2>1
  <2>2. CASE c \in S /\ d \in S
    <3>1. c \in Coordinates /\ d \in Coordinates /\ c[1] = d[1]
      BY <1>3, <2>2
    <3> QED BY <1>4, <3>1, OneOfAHeight
  <2> QED BY <1>1, <1>3, <1>4, <2>1, <2>2
<1> QED BY <1>1, <1>2, <1>4 DEF N

-----------------------------------------------------------------------------
(* The query *)

\* What a query keeps while it waits, and once it has its nodes.
LEMMA Asking ==
  ASSUME RetrievalInv, query.pc = "asking"
  PROVE  /\ query \in [pc : {"asking"}, first : Nat, last : Nat, edges : SUBSET Coordinates,
                       pinned : SUBSET Nat, limited : BOOLEAN, budget : Nat \cup {NoBudget},
                       cut : BOOLEAN]
         /\ query.first \in Nat /\ query.last \in Nat /\ query.first <= query.last
         /\ query.edges \in SUBSET Coordinates /\ query.pinned \in SUBSET Nat
         /\ query.budget \in Nat \cup {NoBudget} /\ query.cut \in BOOLEAN
         /\ query.limited \in BOOLEAN /\ (query.limited \/ query.first = 0)
<1>1. query # NoQuery
  BY DEF NoQuery
<1>2. query \in [pc : {"asking"}, first : Nat, last : Nat, edges : SUBSET Coordinates,
                 pinned : SUBSET Nat, limited : BOOLEAN, budget : Nat \cup {NoBudget},
                 cut : BOOLEAN]
  BY <1>1 DEF RetrievalInv, QueryTyped, Coordinates
<1> QED BY <1>2 DEF RetrievalInv, PlanIsSound

LEMMA Rolling ==
  ASSUME RetrievalInv, InHand
  PROVE  /\ query \in [pc : {"rolling", "answered"}, first : Nat, last : Nat,
                       pinned : SUBSET Nat, budget : Nat \cup {NoBudget},
                       reach : {"window", "behind", "anywhere"},
                       nodes : SUBSET Coordinates, frontier : SUBSET Coordinates,
                       queue : SUBSET Coordinates]
         /\ query.first \in Nat /\ query.last \in Nat /\ query.pinned \in SUBSET Nat
         /\ query.nodes \in SUBSET Coordinates /\ query.frontier \in SUBSET Coordinates
         /\ query.queue \in SUBSET Coordinates
<1>1. query # NoQuery
  BY DEF NoQuery, InHand
<1>2. query \in [pc : {"rolling", "answered"}, first : Nat, last : Nat,
                 pinned : SUBSET Nat, budget : Nat \cup {NoBudget},
                 reach : {"window", "behind", "anywhere"},
                 nodes : SUBSET Coordinates, frontier : SUBSET Coordinates,
                 queue : SUBSET Coordinates]
  BY <1>1 DEF RetrievalInv, QueryTyped, InHand, Coordinates
<1> QED BY <1>2

\* The node that stands for an edge of the window.
LEMMA EdgeMaxIsSound ==
  ASSUME ForestSound, NEW i \in Nat, NEW first \in Nat, NEW last \in Nat,
         first <= i, i <= last
  PROVE  LET e == EdgeMax(i, first, last)
         IN  e \in Coordinates /\ Over(e, i) /\ IsWithin(e, first, last) /\ e[1] <= MaxHeight
<1> DEFINE S == {c \in {Leaf(i)} \cup Ancestors(Leaf(i), MaxHeight) :
                    /\ IsWithin(c, first, last)
                    /\ i \in {FirstLeaf(c), PastLeaf(c) - 1}}
           T == {c[1] : c \in S}
<1>1. /\ MaxHeight \in Nat /\ Leaf(i) \in Coordinates /\ Over(Leaf(i), i) /\ Leaf(i)[1] = 0
      /\ FirstLeaf(Leaf(i)) = i /\ PastLeaf(Leaf(i)) = i + 1
  BY MaxHeightBounds, LeafSpan DEF Leaf
<1>2. \A c \in Ancestors(Leaf(i), MaxHeight) : c \in Coordinates /\ Over(c, i) /\ c[1] <= MaxHeight
  BY <1>1, AncestorsStandOver
<1>3. \A c \in S : c \in Coordinates /\ Over(c, i) /\ c[1] <= MaxHeight /\ IsWithin(c, first, last)
  BY <1>1, <1>2
<1>4. Leaf(i) \in S
  BY <1>1 DEF IsWithin
<1>5. T \in SUBSET Nat /\ T \in SUBSET (0 .. MaxHeight) /\ T # {}
  <2> HIDE DEF S
  <2> QED BY <1>1, <1>3, <1>4, Span
<1>6. IsFiniteSet(T)
  <2>1. IsFiniteSet(0 .. MaxHeight)
    <3>1. 0 \in Int /\ MaxHeight \in Int
      BY <1>1
    <3> QED BY <3>1, FS_Interval
  <2> HIDE DEF T
  <2> QED BY <1>5, <2>1, FS_Subset
<1>7. PICK h \in T : \A y \in T : y <= h
  <2> HIDE DEF T
  <2> QED BY <1>5, <1>6, GreatestNat
<1>8. PICK c \in S : \A d \in S : d[1] <= c[1]
  <2> HIDE DEF S
  <2> QED BY <1>7
<1>9. Highest(S) \in S
  <2> HIDE DEF S
  <2> QED BY <1>8 DEF Highest
<1>10. EdgeMax(i, first, last) = Highest(S)
  BY DEF EdgeMax
<1> HIDE DEF S
<1> QED BY <1>3, <1>9, <1>10

LEMMA SameHeight ==
  ASSUME forest' = forest
  PROVE  MaxHeight' = MaxHeight
BY DEF MaxHeight

LEMMA AskKeepsInv ==
  ASSUME RetrievalAssumption, RetrievalInv, Ask
  PROVE  RetrievalInv'
<1> DEFINE n == Cardinality(LeavesOf(forest))
<1>1. PICK first \in 0 .. (n - 1), last \in 0 .. (n - 1), b \in Budgets, v \in VerbatimBudgets,
           windowed \in BOOLEAN :
         /\ first <= last
         /\ windowed \/ (first = 0 /\ last = Cardinality(LeavesOf(forest)) - 1)
         /\ query' = [pc |-> "asking", first |-> first, last |-> last,
                      edges |-> {EdgeMax(first, first, last), EdgeMax(last, first, last)},
                      pinned |-> Verbatim(first, last, v),
                      limited |-> windowed \/ Verbatim(first, last, v) # {},
                      budget |-> IF b = NoBudget THEN b ELSE b + v,
                      cut |-> FALSE]
  BY DEF Ask
<1>2. forest' = forest /\ ForestSound
  BY DEF Ask, RetrievalInv
<1>3. n \in Nat /\ \A i \in 0 .. (n - 1) : Leaf(i) \in forest
  <2> HIDE DEF n
  <2>1. n \in Nat /\ LeavesOf(forest) = {Leaf(i) : i \in 0 .. (n - 1)}
    BY <1>2, LeavesAreInARow DEF ForestSound, Coordinates, n
  <2>2. LeavesOf(forest) \subseteq forest
    BY DEF LeavesOf
  <2> QED BY <2>1, <2>2
<1> DEFINE e == EdgeMax(first, first, last)
           f == EdgeMax(last, first, last)
           lim == windowed \/ Verbatim(first, last, v) # {}
           b2 == IF b = NoBudget THEN b ELSE b + v
<1>4. first \in Nat /\ last \in Nat /\ first <= last
  BY <1>1, <1>3
<1>5. /\ e \in Coordinates /\ Over(e, first) /\ IsWithin(e, first, last) /\ e[1] <= MaxHeight
      /\ f \in Coordinates /\ Over(f, last) /\ IsWithin(f, first, last) /\ f[1] <= MaxHeight
  <2>1. first <= first /\ last <= last
    BY <1>4
  <2> QED BY <1>2, <1>4, <2>1, EdgeMaxIsSound
<1>6. b2 \in Nat \cup {NoBudget}
  BY DEF RetrievalAssumption
<1>7. Verbatim(first, last, v) \subseteq first .. last
  BY DEF Verbatim
<1>7a. lim \in BOOLEAN /\ (lim \/ first = 0)
  BY <1>1
<1> HIDE DEF e, f, b2, n, lim
<1>8. query' = [pc |-> "asking", first |-> first, last |-> last, edges |-> {e, f},
                pinned |-> Verbatim(first, last, v), limited |-> lim, budget |-> b2,
                cut |-> FALSE]
  BY <1>1 DEF e, f, b2, lim
<1>9. ForestSound'
  BY <1>2 DEF ForestSound
<1>10. QueryTyped'
  <2>1. Verbatim(first, last, v) \in SUBSET Nat /\ {e, f} \in SUBSET (Nat \X Nat)
    BY <1>4, <1>5, <1>7 DEF Coordinates
  <2> QED BY <1>4, <1>6, <1>7a, <1>8, <2>1 DEF QueryTyped
<1>11. PlanIsSound'
  <2>1. MaxHeight' = MaxHeight
    BY <1>2, SameHeight
  <2>2. first \in 0 .. (n - 1) /\ \A i \in first .. last : i \in 0 .. (n - 1)
    BY <1>1, <1>3
  <2>3. /\ query'.first = first /\ query'.last = last /\ query'.edges = {e, f}
        /\ query'.pinned = Verbatim(first, last, v) /\ query'.limited = lim
    BY <1>8
  <2> QED BY <1>2, <1>3, <1>4, <1>5, <1>7, <1>7a, <2>1, <2>2, <2>3 DEF PlanIsSound
<1>12. query'.pc = "asking"
  BY <1>8
<1> QED BY <1>9, <1>10, <1>11, <1>12 DEF RetrievalInv, CoverageIsSound, FrontierTiles,
           QueueIsComplete, AnswerIsSmallest, OnlyCutsFail, InHand

LEMMA BuildKeepsInv ==
  ASSUME RetrievalAssumption, RetrievalInv, Build
  PROVE  RetrievalInv'
<1>1. PICK found \in UNION {kSubset(k, 0 .. (MaxLeaves - 1)) : k \in 0 .. MaxSeeds},
           reach \in Reaches :
         LET seeds == {Leaf(i) : i \in found}
             pinned == {Leaf(i) : i \in query.pinned}
         IN  query' = Collected(Coverage(seeds, pinned, query) \cup Strays(seeds, reach), reach)
  BY DEF Build
<1> DEFINE seeds == {Leaf(i) : i \in found}
           S == Strays(seeds, reach)
           N == Covering(seeds) \cup S
           Fr == FrontierOf(N)
<1>2. /\ forest' = forest /\ ForestSound /\ query.pc = "asking" /\ PlanIsSound
      /\ query.first \in Nat /\ query.last \in Nat /\ query.first <= query.last
      /\ query.edges \in SUBSET Coordinates /\ query.pinned \in SUBSET Nat
      /\ query.budget \in Nat \cup {NoBudget} /\ query.cut \in BOOLEAN
      /\ query.limited \in BOOLEAN /\ (query.limited \/ query.first = 0)
      /\ forest \in SUBSET Coordinates
  BY Asking DEF Build, RetrievalInv, ForestSound, Coordinates
<1>3. seeds \in SUBSET Coordinates
  <2>1. found \in SUBSET Nat
    BY DEF kSubset, RetrievalAssumption
  <2> QED BY <2>1, LeafSpan
<1>4. query' = IF Refused(N)
               THEN [pc |-> "failed", cut |-> query.cut]
               ELSE [pc |-> "rolling", first |-> query.first, last |-> query.last,
                     pinned |-> query.pinned, budget |-> query.budget,
                     reach |-> reach, nodes |-> N, frontier |-> Fr, queue |-> Candidates(Fr, N, Fr)]
  BY <1>1 DEF Collected, Covering, Pins
<1>5. ASSUME \A e \in query.edges : e[1] <= MaxHeight
      PROVE  Planned(seeds)
  <2> HIDE DEF seeds
  <2> QED BY <1>2, <1>3, <1>5 DEF Planned, PlanIsSound
\* The leaves that stray.
<1>3a. reach \in {"window", "behind", "anywhere"} /\ (reach = "behind" => query.first = 0)
  BY <1>2 DEF Reaches
<1>3b. ASSUME NEW c \in S
       PROVE  /\ c \in forest /\ c[1] = 0 /\ c[2] \in Nat
              /\ ~IsWithin(c, query.first, query.last)
              /\ reach = "anywhere" \/ (reach = "behind" /\ c[2] > query.last)
  <2>1. c \in seeds /\ c \in forest /\ ~IsWithin(c, query.first, query.last) /\ reach # "window"
    BY DEF Strays
  <2>2. PICK i \in found : c = Leaf(i)
    BY <2>1
  <2>3. i \in Nat
    BY DEF kSubset, RetrievalAssumption
  <2>4. c[1] = 0 /\ c[2] = i /\ FirstLeaf(c) = i /\ PastLeaf(c) = i + 1
    BY <2>2, <2>3, LeafSpan DEF Leaf
  <2>5. i < query.first \/ query.last < i
    BY <1>2, <2>1, <2>3, <2>4 DEF IsWithin
  <2> HIDE DEF seeds, S
  <2>6. reach = "behind" => i > query.last
    BY <1>2, <1>3a, <2>3, <2>5
  <2> QED BY <1>3a, <2>1, <2>3, <2>4, <2>6
<1>3c. S \in SUBSET forest
  BY <1>3b
<1> HIDE DEF seeds, N, Fr, S
<1>0. Refused(N) <=> ~(\A e \in query.edges : e[1] <= MaxHeight) \/ N = {}
  <2>1. MaxHeight \in Nat /\ \A e \in query.edges : e[1] \in Nat
    BY <1>2, MaxHeightBounds, Span
  <2> QED BY <2>1 DEF Refused
<1>6. ForestSound'
  BY <1>2 DEF ForestSound
<1>7. CASE Refused(N)
  <2>1. query' = [pc |-> "failed", cut |-> query.cut]
    BY <1>4, <1>7
  <2>2. query.cut
    <3> SUFFICES ASSUME ~query.cut PROVE FALSE
      BY <1>2
    <3>1. Leaf(query.first) \in forest /\ \A e \in query.edges : e[1] <= MaxHeight
      BY <1>2 DEF PlanIsSound
    <3>2. Planned(seeds) /\ query.first \in query.first .. query.last
      BY <1>2, <1>5, <3>1
    <3>3. N # {}
      <4>1. Covering(seeds) # {}
        BY <3>1, <3>2, WindowIsCovered
      <4> QED BY <4>1 DEF N
    <3> QED BY <1>0, <1>7, <3>1, <3>3
  <2>3. query'.pc = "failed" /\ query'.cut
    BY <2>1, <2>2
  <2>4. QueryTyped'
    BY <1>2, <2>1 DEF QueryTyped
  <2> QED BY <1>6, <2>3, <2>4 DEF RetrievalInv, PlanIsSound, CoverageIsSound, FrontierTiles,
             QueueIsComplete, AnswerIsSmallest, OnlyCutsFail, InHand
<1>8. CASE ~Refused(N)
  <2>1. Planned(seeds) /\ N # {}
    BY <1>0, <1>5, <1>8
  <2>2. query' = [pc |-> "rolling", first |-> query.first, last |-> query.last,
                  pinned |-> query.pinned, budget |-> query.budget,
                  reach |-> reach, nodes |-> N, frontier |-> Fr, queue |-> Candidates(Fr, N, Fr)]
    BY <1>4, <1>8
  <2>3. /\ query'.pc = "rolling" /\ query'.first = query.first /\ query'.last = query.last
        /\ query'.pinned = query.pinned /\ query'.nodes = N /\ query'.frontier = Fr
        /\ query'.queue = Candidates(Fr, N, Fr) /\ query'.reach = reach
    BY <2>2
  <2>4. /\ N \in SUBSET Coordinates /\ N \subseteq forest
        /\ \A c \in N : IsWithin(c, query.first, query.last) \/ c \in S
        /\ N \cap PinnedAncestors(Pins) = {}
    <3>1. /\ Covering(seeds) \subseteq forest
          /\ \A c \in Covering(seeds) : IsWithin(c, query.first, query.last)
          /\ Covering(seeds) \cap PinnedAncestors(Pins) = {}
      BY DEF Covering, Coverage
    <3>2. ASSUME NEW c \in S PROVE c \notin PinnedAncestors(Pins)
      BY <1>2, <1>3b, PinnedAncestorsStandOver
    <3> QED BY <1>2, <1>3c, <3>1, <3>2 DEF N
  <2>5. \A p \in N : Below(p, N) # {} => ChildrenOf(p) \subseteq N
    <3>1. /\ \A p \in Covering(seeds) : Below(p, N) = Below(p, Covering(seeds))
          /\ \A p \in S : Below(p, N) = {}
      <4>1. \A c \in S : c[1] = 0 /\ ~IsWithin(c, query.first, query.last)
        BY <1>3b
      <4>2. /\ \A p \in Covering(seeds) :
                  Below(p, Covering(seeds) \cup S) = Below(p, Covering(seeds))
            /\ \A p \in S : Below(p, Covering(seeds) \cup S) = {}
        BY <1>3c, <2>1, <4>1, StraysStandAlone
      <4> QED BY <4>2 DEF N
    <3>2. \A p \in Covering(seeds) :
            Below(p, Covering(seeds)) # {} => ChildrenOf(p) \subseteq Covering(seeds)
      BY <2>1, CoverageHasPairs
    <3> QED BY <3>1, <3>2 DEF N
  <2>6. /\ \A i \in query.first .. query.last :
             Leaf(i) \in forest => \E c \in Fr : Over(c, i)
        /\ \A i \in Nat : \A c, d \in Fr : Over(c, i) /\ Over(d, i) => c = d
        /\ Pins \subseteq Fr /\ S \subseteq Fr
    BY <1>3b, <1>3c, <2>1, FirstFrontierWithStrays DEF N, Fr
  <2>7. Fr \subseteq N
    BY DEF Fr, FrontierOf
  <2>8. \A p \in N : Eligible(p, N, Fr) => p \in Candidates(Fr, N, Fr)
    <3> SUFFICES ASSUME NEW p \in N, Eligible(p, N, Fr) PROVE p \in Candidates(Fr, N, Fr)
      OBVIOUS
    <3>1. PICK c \in Fr : c \in ChildrenOf(p) /\ c \in N
      BY DEF Eligible, Below
    <3>2. p = ParentOf(c)
      BY <2>4, <3>1, ChildOfParent
    <3> QED BY <3>2 DEF Candidates
  <2>9. Candidates(Fr, N, Fr) \in SUBSET Coordinates
    BY <2>4 DEF Candidates, Eligible
  <2>10. QueryTyped'
    BY <1>2, <1>3a, <2>2, <2>4, <2>7, <2>9 DEF QueryTyped, Coordinates
  <2>11. PinnedAncestors(Pins)' = PinnedAncestors(Pins) /\ Pins' = Pins
    BY <1>2, <2>3, SameHeight DEF PinnedAncestors, Pins
  <2>12. CoverageIsSound'
    <3>1. \A c \in S : MayStray(c)'
      BY <1>3b, <2>3 DEF MayStray
    <3> QED BY <1>2, <2>1, <2>3, <2>4, <2>5, <2>11, <3>1 DEF CoverageIsSound, Pins
  <2>13. FrontierTiles'
    <3>1. \A i \in query.first .. query.last : i \in Nat
      BY <1>2
    <3> QED BY <1>2, <2>3, <2>4, <2>6, <2>7, <3>1 DEF FrontierTiles, Pins
  <2>14. QueueIsComplete'
    BY <2>3, <2>8 DEF QueueIsComplete
  <2> QED BY <1>6, <2>3, <2>10, <2>12, <2>13, <2>14
          DEF RetrievalInv, PlanIsSound, AnswerIsSmallest, OnlyCutsFail
<1> QED BY <1>7, <1>8

\* A pair is rolled up: its parent takes its place.
LEMMA RollUpKeepsInv ==
  ASSUME RetrievalInv, RollUp
  PROVE  RetrievalInv'
<1> DEFINE N == query.nodes
           Fr == query.frontier
           Q == query.queue
<1>1. /\ query.pc = "rolling" /\ InHand /\ forest' = forest
      /\ query.first \in Nat /\ query.last \in Nat /\ query.pinned \in SUBSET Nat
      /\ N \in SUBSET Coordinates /\ Fr \in SUBSET Coordinates /\ Q \in SUBSET Coordinates
      /\ query \in [pc : {"rolling", "answered"}, first : Nat, last : Nat,
                    pinned : SUBSET Nat, budget : Nat \cup {NoBudget},
                    reach : {"window", "behind", "anywhere"},
                    nodes : SUBSET Coordinates, frontier : SUBSET Coordinates,
                    queue : SUBSET Coordinates]
  BY Rolling DEF RollUp, InHand
<1>2. PICK p \in Q : query' = IF Eligible(p, N, Fr) THEN RolledUp(p)
                              ELSE [query EXCEPT !.queue = Q \ {p}]
  BY DEF RollUp
<1>3. /\ N # {} /\ N \subseteq forest /\ Fr \subseteq N
      /\ \A c \in N : IsWithin(c, query.first, query.last) \/ MayStray(c)
      /\ \A c \in N : ~IsWithin(c, query.first, query.last) => c \in Fr
      /\ \A q \in N : Below(q, N) # {} => ChildrenOf(q) \subseteq N
      /\ N \cap PinnedAncestors(Pins) = {}
      /\ \A i \in query.first .. query.last : Leaf(i) \in forest => \E c \in Fr : Over(c, i)
      /\ \A i \in Nat : \A c, d \in Fr : Over(c, i) /\ Over(d, i) => c = d
      /\ Pins \subseteq Fr
      /\ \A q \in N : Eligible(q, N, Fr) => q \in Q
      /\ ForestSound
  BY <1>1 DEF RetrievalInv, CoverageIsSound, FrontierTiles, QueueIsComplete, Pins
\* What is left to show is about the new frontier and the new queue.
<1>4. ASSUME NEW Fr2, NEW Q2 \in SUBSET Coordinates,
             query' = [query EXCEPT !.frontier = Fr2, !.queue = Q2],
             Fr2 \subseteq N,
             \A c \in N : ~IsWithin(c, query.first, query.last) => c \in Fr2,
             \A i \in query.first .. query.last : Leaf(i) \in forest => \E c \in Fr2 : Over(c, i),
             \A i \in Nat : \A c, d \in Fr2 : Over(c, i) /\ Over(d, i) => c = d,
             Pins \subseteq Fr2,
             \A q \in N : Eligible(q, N, Fr2) => q \in Q2
      PROVE  RetrievalInv'
  <2>1. /\ query'.pc = "rolling" /\ query'.first = query.first /\ query'.last = query.last
        /\ query'.pinned = query.pinned /\ query'.nodes = N /\ query'.frontier = Fr2
        /\ query'.queue = Q2 /\ query'.reach = query.reach
    BY <1>1, <1>4
  <2>2. Fr2 \in SUBSET Coordinates
    BY <1>1, <1>4
  <2> HIDE DEF N, Fr, Q
  <2>3. QueryTyped'
    <3>1. query' \in [pc : {"rolling", "answered"}, first : Nat, last : Nat,
                      pinned : SUBSET Nat, budget : Nat \cup {NoBudget},
                      reach : {"window", "behind", "anywhere"},
                      nodes : SUBSET Coordinates, frontier : SUBSET Coordinates,
                      queue : SUBSET Coordinates]
      BY <1>1, <1>4, <2>2
    <3> QED BY <3>1 DEF QueryTyped, Coordinates
  <2>4. PinnedAncestors(Pins)' = PinnedAncestors(Pins) /\ Pins' = Pins
    BY <1>1, <2>1, SameHeight DEF PinnedAncestors, Pins
  <2>5. CoverageIsSound'
    <3>1. \A c \in N : MayStray(c)' <=> MayStray(c)
      BY <2>1 DEF MayStray
    <3> QED BY <1>1, <1>3, <2>1, <2>4, <3>1 DEF CoverageIsSound, Pins
  <2>6. FrontierTiles'
    BY <1>1, <1>4, <2>1 DEF FrontierTiles, Pins
  <2>7. QueueIsComplete'
    BY <1>4, <2>1 DEF QueueIsComplete
  <2>8. ForestSound'
    BY <1>1, <1>3 DEF ForestSound
  <2> QED BY <2>1, <2>3, <2>5, <2>6, <2>7, <2>8
          DEF RetrievalInv, PlanIsSound, AnswerIsSmallest, OnlyCutsFail
<1> HIDE DEF N, Fr, Q
<1>5. CASE ~Eligible(p, N, Fr)
  <2>1. query' = [query EXCEPT !.frontier = Fr, !.queue = Q \ {p}]
    BY <1>1, <1>2, <1>5 DEF Fr
  <2>2. Q \ {p} \in SUBSET Coordinates
    BY <1>1
  <2>3. \A q \in N : Eligible(q, N, Fr) => q \in Q \ {p}
    BY <1>3, <1>5
  <2> QED BY <1>3, <1>4, <2>1, <2>2, <2>3
<1>6. CASE Eligible(p, N, Fr)
  <2> DEFINE Fr2 == (Fr \ Below(p, N)) \cup {p}
             Q2 == (Q \ {p}) \cup Candidates({p}, N, Fr2)
  <2>1. query' = [query EXCEPT !.frontier = Fr2, !.queue = Q2]
    BY <1>2, <1>6 DEF RolledUp, N, Fr, Q
  <2>2. PICK c \in Coordinates :
           /\ p \in N /\ p \in Coordinates /\ c \in Fr /\ SiblingOf(c) \in Fr
           /\ p = ParentOf(c) /\ Below(p, N) = {c, SiblingOf(c)} /\ p[1] = c[1] + 1
           /\ SiblingOf(c) \in Coordinates /\ SiblingOf(c)[1] = c[1] /\ c[1] \in Nat
           /\ p \notin Below(p, N)
    <3>1. PICK c \in N : p \in N /\ c \in ChildrenOf(p) /\ Below(p, N) \subseteq Fr
      BY <1>6 DEF Eligible, Below
    <3>2. c \in Coordinates /\ p \in Coordinates /\ ChildrenOf(p) \subseteq N
      BY <1>1, <1>3, <3>1 DEF Below
    <3>3. p = ParentOf(c) /\ ChildrenOf(p) = {c, SiblingOf(c)}
      BY <3>1, <3>2, ChildOfParent, Family
    <3>4. Below(p, N) = {c, SiblingOf(c)}
      BY <3>2, <3>3 DEF Below
    <3>5. /\ p[1] = c[1] + 1 /\ SiblingOf(c) \in Coordinates /\ SiblingOf(c)[1] = c[1]
          /\ c[1] \in Nat
      BY <3>2, <3>3, Family, Span
    <3>6. p # c /\ p # SiblingOf(c)
      BY <3>5
    <3> QED BY <3>1, <3>2, <3>3, <3>4, <3>5, <3>6
  <2> DEFINE s == SiblingOf(c)
  <2>3. \A i \in Nat : Over(p, i) <=> Over(c, i) \/ Over(s, i)
    BY <2>2, ParentSpan
  <2>4. Fr2 = (Fr \ {c, s}) \cup {p}
    BY <2>2
  <2>5. Fr2 \subseteq N
    BY <1>3, <2>2, <2>4
  <2> HIDE DEF Fr2, Q2, s
  <2>6. ASSUME NEW i \in Nat
        PROVE  /\ i \in query.first .. query.last /\ Leaf(i) \in forest =>
                    \E d \in Fr2 : Over(d, i)
               /\ \A d, e \in Fr2 : Over(d, i) /\ Over(e, i) => d = e
    <3>0. i \in Nat
      OBVIOUS
    <3>1. ASSUME i \in query.first .. query.last, Leaf(i) \in forest PROVE \E d \in Fr2 : Over(d, i)
      <4>1. PICK d \in Fr : Over(d, i)
        BY <1>3, <3>1
      <4>2. CASE d \in {c, s}
        BY <2>3, <2>4, <3>0, <4>1, <4>2
      <4>3. CASE d \notin {c, s}
        BY <2>4, <4>1, <4>3
      <4> QED BY <4>2, <4>3
    <3>2. ASSUME NEW d \in Fr2, d # p, Over(d, i), Over(p, i) PROVE FALSE
      <4>1. PICK e \in {c, s} : Over(e, i)
        BY <2>3, <3>0, <3>2
      <4>2. d \in Fr /\ d \notin {c, s} /\ e \in Fr
        BY <2>2, <2>4, <3>2 DEF s
      <4>3. d = e
        BY <1>3, <3>2, <4>1, <4>2
      <4> QED BY <4>1, <4>2, <4>3
    <3>3. ASSUME NEW d \in Fr2, NEW e \in Fr2, Over(d, i), Over(e, i) PROVE d = e
      <4>1. CASE d = p \/ e = p
        BY <3>2, <3>3, <4>1
      <4>2. CASE d # p /\ e # p
        <5>1. d \in Fr /\ e \in Fr
          BY <2>4, <4>2
        <5> QED BY <1>3, <3>3, <5>1
      <4> QED BY <4>1, <4>2
    <3> QED BY <3>1, <3>3
  <2>7. Pins \subseteq Fr2
    <3> SUFFICES ASSUME NEW x \in query.pinned PROVE Leaf(x) \in Fr2
      BY DEF Pins
    <3>1. Leaf(x) \in Fr /\ x \in Nat /\ Over(Leaf(x), x)
      BY <1>1, <1>3, LeafSpan DEF Pins
    <3>2. Leaf(x) \notin {c, s}
      <4> SUFFICES ASSUME Leaf(x) \in {c, s} PROVE FALSE
        OBVIOUS
      <4>1. Over(p, x)
        BY <2>3, <3>1
      <4>2. 0 < p[1] /\ p[1] <= MaxHeight
        BY <1>3, <2>2, MaxHeightBounds
      <4>3. p \in PinnedAncestors(Pins)
        BY <1>1, <1>3, <2>2, <4>1, <4>2, PinnedAncestorsStandOver
      <4> QED BY <1>3, <2>2, <4>3
    <3> QED BY <2>4, <3>1, <3>2
  <2>8. ASSUME NEW q \in N, Eligible(q, N, Fr2)
        PROVE  q \in Q2
    <3>1. q \in Coordinates /\ Below(q, N) # {} /\ Below(q, N) \subseteq Fr2
      BY <1>1, <2>8 DEF Eligible
    <3>2. CASE p \in Below(q, N)
      <4>1. q = ParentOf(p)
        BY <2>2, <3>1, <3>2, ChildOfParent DEF Below
      <4>2. q \in Candidates({p}, N, Fr2)
        BY <2>8, <4>1 DEF Candidates
      <4> QED BY <4>2 DEF Q2
    <3>3. CASE p \notin Below(q, N)
      <4>1. Below(q, N) \subseteq Fr
        BY <2>4, <3>1, <3>3
      <4>2. q \in Q
        BY <1>3, <3>1, <4>1 DEF Eligible
      <4>3. q # p
        BY <2>2, <2>4, <3>1 DEF s
      <4> QED BY <4>2, <4>3 DEF Q2
    <3> QED BY <3>2, <3>3
  <2>9. Q2 \in SUBSET Coordinates
    BY <1>1 DEF Q2, Candidates, Eligible
  <2>10. ASSUME NEW d \in N, ~IsWithin(d, query.first, query.last) PROVE d \in Fr2
    <3>1. d \in Fr
      BY <1>3, <2>10
    <3>2. d \notin {c, s}
      <4> SUFFICES ASSUME d \in {c, s} PROVE FALSE
        OBVIOUS
      <4>1. IsWithin(p, query.first, query.last)
        BY <1>3, <2>2 DEF MayStray
      <4>2. d \in Coordinates /\ FirstLeaf(d) \in Nat /\ PastLeaf(d) \in Nat /\ d[1] <= p[1]
            /\ PastLeaf(d) - 1 \in Nat /\ Over(d, FirstLeaf(d)) /\ Over(d, PastLeaf(d) - 1)
        BY <2>2, Span DEF s
      <4>3. Over(p, FirstLeaf(d)) /\ Over(p, PastLeaf(d) - 1)
        BY <2>3, <4>2
      <4>4. FirstLeaf(p) \in Nat /\ PastLeaf(p) \in Nat
        BY <2>2, Span
      <4> QED BY <1>1, <2>10, <4>1, <4>2, <4>3, <4>4 DEF IsWithin, Over
    <3> QED BY <2>4, <3>1, <3>2
  <2>11. \A i \in query.first .. query.last : i \in Nat
    BY <1>1
  <2> QED BY <1>4, <2>1, <2>5, <2>6, <2>7, <2>8, <2>9, <2>10, <2>11
<1> QED BY <1>5, <1>6

LEMMA AnswerKeepsInv ==
  ASSUME RetrievalInv, Answer
  PROVE  RetrievalInv'
<1>1. /\ query.pc = "rolling" /\ InHand /\ forest' = forest
      /\ query' = [query EXCEPT !.pc = "answered"]
      /\ ~OverBudget \/ query.queue = {}
      /\ query \in [pc : {"rolling", "answered"}, first : Nat, last : Nat,
                    pinned : SUBSET Nat, budget : Nat \cup {NoBudget},
                    reach : {"window", "behind", "anywhere"},
                    nodes : SUBSET Coordinates, frontier : SUBSET Coordinates,
                    queue : SUBSET Coordinates]
  BY Rolling DEF Answer, InHand
<1>2. /\ query'.pc = "answered" /\ query'.first = query.first /\ query'.last = query.last
      /\ query'.pinned = query.pinned /\ query'.nodes = query.nodes
      /\ query'.frontier = query.frontier /\ query'.queue = query.queue
      /\ query'.budget = query.budget /\ query'.reach = query.reach /\ InHand'
  BY <1>1 DEF InHand
<1>3. QueryTyped'
  <2>1. query' \in [pc : {"rolling", "answered"}, first : Nat, last : Nat,
                    pinned : SUBSET Nat, budget : Nat \cup {NoBudget},
                    reach : {"window", "behind", "anywhere"},
                    nodes : SUBSET Coordinates, frontier : SUBSET Coordinates,
                    queue : SUBSET Coordinates]
    BY <1>1
  <2> QED BY <2>1 DEF QueryTyped, Coordinates
<1>4. PinnedAncestors(Pins)' = PinnedAncestors(Pins) /\ Pins' = Pins
  BY <1>1, <1>2, SameHeight DEF PinnedAncestors, Pins
<1>5. CoverageIsSound'
  BY <1>1, <1>2, <1>4 DEF RetrievalInv, CoverageIsSound, Pins, MayStray
<1>6. FrontierTiles'
  BY <1>1, <1>2 DEF RetrievalInv, FrontierTiles
<1>7. QueueIsComplete'
  BY <1>1, <1>2 DEF RetrievalInv, QueueIsComplete
<1>8. AnswerIsSmallest'
  <2>1. CASE ~OverBudget
    <3>1. ~OverBudget'
      BY <1>2, <2>1 DEF OverBudget
    <3> QED BY <3>1 DEF AnswerIsSmallest
  <2>2. CASE query.queue = {}
    BY <1>2, <1>7, <2>2 DEF AnswerIsSmallest, QueueIsComplete
  <2> QED BY <1>1, <2>1, <2>2
<1>9. ForestSound'
  BY <1>1 DEF RetrievalInv, ForestSound
<1> QED BY <1>2, <1>3, <1>5, <1>6, <1>7, <1>8, <1>9 DEF RetrievalInv, PlanIsSound, OnlyCutsFail

LEMMA ReturnKeepsInv ==
  ASSUME RetrievalInv, Return
  PROVE  RetrievalInv'
<1>1. query' = NoQuery /\ query'.pc = "idle" /\ forest' = forest
  BY DEF Return, NoQuery
<1>2. ForestSound'
  BY <1>1 DEF RetrievalInv, ForestSound
<1>3. QueryTyped'
  BY <1>1 DEF QueryTyped
<1> QED BY <1>1, <1>2, <1>3 DEF RetrievalInv, PlanIsSound, CoverageIsSound, FrontierTiles,
           QueueIsComplete, AnswerIsSmallest, OnlyCutsFail, InHand

LEMMA ChangesKeepInv ==
  ASSUME RetrievalAssumption, RetrievalInv, query.pc \in {"idle", "asking"}, Changes
  PROVE  RetrievalInv'
<1>1. query' = query /\ ForestSound' /\ forest \subseteq forest' /\ ForestSound
  BY GrowKeepsForest, MergeKeepsForest DEF Changes, RetrievalInv, RetrievalAssumption
<1>2. MaxHeight \in Nat /\ MaxHeight' \in Nat /\ MaxHeight <= MaxHeight'
  <2>1. MaxHeight' = IF forest' = {} THEN 0 ELSE Max({c[1] : c \in forest'})
    BY DEF MaxHeight
  <2>2. MaxHeight' \in Nat
    BY <1>1, <2>1, HeightsAreBounded DEF ForestSound, Coordinates
  <2> QED BY <1>1, <2>2, MaxHeightBounds, MaxHeightGrows
<1>3. QueryTyped'
  BY <1>1 DEF RetrievalInv, QueryTyped
<1>4. PlanIsSound'
  <2> SUFFICES ASSUME query.pc = "asking" PROVE PlanIsSound'
    BY <1>1 DEF PlanIsSound
  <2>1. query.edges \in SUBSET Coordinates
    BY Asking
  <2>2. \A e \in query.edges : e[1] <= MaxHeight => e[1] <= MaxHeight'
    BY <1>2, <2>1, Span
  <2> QED BY <1>1, <2>2 DEF RetrievalInv, PlanIsSound
<1> QED BY <1>1, <1>3, <1>4 DEF RetrievalInv, CoverageIsSound, FrontierTiles,
           QueueIsComplete, AnswerIsSmallest, OnlyCutsFail, InHand

LEMMA TruncatesKeepsInv ==
  ASSUME RetrievalInv, query.pc \in {"idle", "asking"}, Truncates
  PROVE  RetrievalInv'
<1>1. ForestSound'
  BY CutKeepsForest DEF Truncates, RetrievalInv
<1>2. CASE query = NoQuery
  <2>1. query' = NoQuery /\ query'.pc = "idle"
    BY <1>2 DEF Truncates, NoQuery
  <2>2. QueryTyped'
    BY <2>1 DEF QueryTyped
  <2> QED BY <1>1, <2>1, <2>2 DEF RetrievalInv, PlanIsSound, CoverageIsSound, FrontierTiles,
             QueueIsComplete, AnswerIsSmallest, OnlyCutsFail, InHand
<1>3. CASE query # NoQuery
  <2> DEFINE pinned == {i \in query.pinned : Leaf(i) \in forest'}
             cut == query.cut \/ forest' # forest
  <2>1. query.pc = "asking"
    BY <1>3 DEF RetrievalInv, QueryTyped
  <2>2. query \in [pc : {"asking"}, first : Nat, last : Nat, edges : SUBSET Coordinates,
                   pinned : SUBSET Nat, limited : BOOLEAN, budget : Nat \cup {NoBudget},
                   cut : BOOLEAN]
    BY <2>1, Asking
  <2>3. query' = [query EXCEPT !.pinned = pinned, !.cut = cut]
    BY <1>3 DEF Truncates
  <2>4. pinned \in SUBSET Nat /\ cut \in BOOLEAN
    BY <2>2
  <2>5. query' \in [pc : {"asking"}, first : Nat, last : Nat, edges : SUBSET Coordinates,
                    pinned : SUBSET Nat, limited : BOOLEAN, budget : Nat \cup {NoBudget},
                    cut : BOOLEAN]
    <3> HIDE DEF pinned, cut
    <3> QED BY <2>2, <2>3, <2>4
  <2>6. /\ query'.pc = "asking" /\ query'.first = query.first /\ query'.last = query.last
        /\ query'.edges = query.edges /\ query'.pinned = pinned /\ query'.cut = cut
        /\ query'.limited = query.limited
    <3> HIDE DEF pinned, cut
    <3> QED BY <2>2, <2>3
  <2>7. QueryTyped'
    BY <2>5 DEF QueryTyped, Coordinates
  <2>8. ~cut => forest' = forest /\ MaxHeight' = MaxHeight /\ ~query.cut
    BY SameHeight
  <2>9. PlanIsSound'
    <3>1. \A i \in pinned : i \in query.first .. query.last /\ Leaf(i) \in forest'
      BY <2>1 DEF RetrievalInv, PlanIsSound
    <3> HIDE DEF pinned, cut
    <3> QED BY <2>1, <2>6, <2>8, <3>1 DEF RetrievalInv, PlanIsSound
  <2> QED BY <1>1, <2>6, <2>7, <2>9 DEF RetrievalInv, CoverageIsSound, FrontierTiles,
             QueueIsComplete, AnswerIsSmallest, OnlyCutsFail, InHand
<1> QED BY <1>2, <1>3

LEMMA RetrievalStarts ==
  ASSUME QueryInit
  PROVE  RetrievalInv
<1>1. forest = {} /\ query = NoQuery /\ query.pc = "idle"
  BY DEF QueryInit, ForestInit, NoQuery
<1>2. ForestSound
  BY <1>1, FS_EmptySet DEF ForestSound, Supported, LeavesOf
<1> QED BY <1>1, <1>2 DEF RetrievalInv, QueryTyped, PlanIsSound, CoverageIsSound,
           FrontierTiles, QueueIsComplete, AnswerIsSmallest, OnlyCutsFail, InHand

LEMMA RetrievalSteps ==
  ASSUME RetrievalAssumption, RetrievalInv, [QueryNext]_queryVars
  PROVE  RetrievalInv'
<1>1. CASE Ask
  BY <1>1, AskKeepsInv
<1>2. CASE Build
  BY <1>2, BuildKeepsInv
<1>3. CASE RollUp
  BY <1>3, RollUpKeepsInv
<1>4. CASE Answer
  BY <1>4, AnswerKeepsInv
<1>5. CASE Return
  BY <1>5, ReturnKeepsInv
<1>6. CASE query.pc \in {"idle", "asking"} /\ Changes
  BY <1>6, ChangesKeepInv
<1>7. CASE query.pc \in {"idle", "asking"} /\ Truncates
  BY <1>7, TruncatesKeepsInv
<1>8. CASE UNCHANGED queryVars
  <2>1. forest' = forest /\ query' = query
    BY <1>8 DEF queryVars
  <2>2. MaxHeight' = MaxHeight /\ PinnedAncestors(Pins)' = PinnedAncestors(Pins)
    BY <2>1, SameHeight DEF PinnedAncestors, Pins
  <2>3. ForestSound' /\ QueryTyped'
    BY <2>1 DEF RetrievalInv, ForestSound, QueryTyped
  <2>4. PlanIsSound' /\ FrontierTiles' /\ QueueIsComplete'
    BY <2>1, <2>2 DEF RetrievalInv, PlanIsSound, FrontierTiles, QueueIsComplete, InHand
  <2>5. CoverageIsSound'
    BY <2>1, <2>2 DEF RetrievalInv, CoverageIsSound, InHand, Pins, MayStray
  <2>6. AnswerIsSmallest' /\ OnlyCutsFail'
    <3>1. OverBudget' = OverBudget
      BY <2>1 DEF OverBudget
    <3> QED BY <2>1, <3>1 DEF RetrievalInv, AnswerIsSmallest, OnlyCutsFail
  <2> QED BY <2>3, <2>4, <2>5, <2>6 DEF RetrievalInv
<1> QED BY <1>1, <1>2, <1>3, <1>4, <1>5, <1>6, <1>7, <1>8 DEF QueryNext

-----------------------------------------------------------------------------
(* What an answer shows *)

\* A leaf under a node of the covering set is a leaf of the document, inside the
\* window if the node is, and stands under a node that has no parent in the set.
LEMMA UnderTheCoverage ==
  ASSUME RetrievalInv, InHand, NEW i \in Nat, NEW c \in query.nodes, Over(c, i)
  PROVE  /\ Leaf(i) \in forest
         /\ IsWithin(c, query.first, query.last) => i \in query.first .. query.last
         /\ \E t \in query.nodes : ParentOf(t) \notin query.nodes /\ Over(t, i)
<1> DEFINE N == query.nodes
           M == {d \in N : Over(d, i)}
<1>1. /\ N \in SUBSET Coordinates /\ N \subseteq forest /\ forest \in SUBSET Coordinates
      /\ IsFiniteSet(forest) /\ Supported(forest)
      /\ query.first \in Nat /\ query.last \in Nat
  BY Rolling DEF RetrievalInv, CoverageIsSound, ForestSound, Coordinates
<1>2. Leaf(i) \in forest
  <2>1. Leaf(i) \in Coordinates /\ Over(Leaf(i), i) /\ Leaf(i)[1] = 0
    BY LeafSpan DEF Leaf
  <2>2. c \in forest /\ c[1] \in Nat
    BY <1>1, Span
  <2>3. Leaf(i)[1] <= c[1]
    BY <2>1, <2>2
  <2> QED BY <1>1, <2>1, <2>2, <2>3, FullBelow
<1>3. IsWithin(c, query.first, query.last) => i \in query.first .. query.last
  <2>1. FirstLeaf(c) \in Nat /\ PastLeaf(c) \in Nat
    BY <1>1, Span
  <2> QED BY <1>1, <2>1 DEF IsWithin, Over
<1>4. PICK t \in M : \A d \in M : d[1] <= t[1]
  <2>1. M \in SUBSET Coordinates /\ M # {} /\ M \in SUBSET forest
    BY <1>1
  <2>2. IsFiniteSet(M)
    BY <1>1, <2>1, FS_Subset
  <2> HIDE DEF M
  <2> QED BY <2>1, <2>2, HighestNode
<1>5. ParentOf(t) \notin N
  <2> SUFFICES ASSUME ParentOf(t) \in N PROVE FALSE
    OBVIOUS
  <2>1. t \in Coordinates /\ t[1] \in Nat /\ ParentOf(t)[1] = t[1] + 1 /\ Over(ParentOf(t), i)
    <3>1. t \in Coordinates /\ Over(t, i)
      BY <1>1
    <3> HIDE DEF M, N
    <3> QED BY <3>1, Span, Family, ParentSpan
  <2>2. ParentOf(t) \in M
    BY <2>1
  <2> QED BY <1>4, <2>1, <2>2
<1> QED BY <1>2, <1>3, <1>4, <1>5

Beyond == {c \in query.frontier : ~IsWithin(c, query.first, query.last)}

\* A leaf outside the window is over itself alone.
LEMMA LeafBeyond ==
  ASSUME RetrievalInv, InHand, NEW i \in Nat, NEW c \in query.nodes, Over(c, i),
         ~IsWithin(c, query.first, query.last)
  PROVE  c \in query.frontier
BY DEF RetrievalInv, FrontierTiles

\* Nothing is wrong with the tiling of an answer but, perhaps, its budget, and
\* gaps around leaves that are shown outside the window.
LEMMA NothingIsFound ==
  ASSUME RetrievalInv, InHand, NEW budget
  PROVE  LET found == TilingFindings(query.frontier, query.nodes, budget)
         IN  /\ found \ {"gap"} =
                  IF budget # NoBudget /\ TokensOf(query.frontier) > budget THEN {"budget"} ELSE {}
             /\ "gap" \in found => Beyond # {}
<1> DEFINE N == query.nodes
           Fr == query.frontier
           tops == {c \in N : ParentOf(c) \notin N}
           starts == {FirstLeaf(c) : c \in tops}
           ends == {PastLeaf(c) : c \in tops}
           from == Min(starts)
           past == Max(ends)
           shown == UNION {FirstLeaf(c) .. (PastLeaf(c) - 1) : c \in Fr}
<1>1. /\ N \in SUBSET Coordinates /\ Fr \subseteq N /\ N # {}
      /\ query.first \in Nat /\ query.last \in Nat
      /\ IsFiniteSet(forest) /\ N \subseteq forest
      /\ \A c \in N : ~IsWithin(c, query.first, query.last) => c \in Fr
      /\ \A i \in query.first .. query.last : Leaf(i) \in forest => \E c \in Fr : Over(c, i)
      /\ \A i \in Nat : \A c, d \in Fr : Over(c, i) /\ Over(d, i) => c = d
  BY Rolling DEF RetrievalInv, CoverageIsSound, FrontierTiles, ForestSound
<1>2. \A i : i \in shown <=> i \in Nat /\ \E c \in Fr : Over(c, i)
  <2>1. \A c \in Fr : FirstLeaf(c) \in Nat /\ PastLeaf(c) \in Nat
    BY <1>1, Span
  <2> HIDE DEF Fr
  <2>2. ASSUME NEW i \in shown PROVE i \in Nat /\ \E c \in Fr : Over(c, i)
    <3>1. PICK c \in Fr : i \in FirstLeaf(c) .. (PastLeaf(c) - 1)
      OBVIOUS
    <3> QED BY <2>1, <3>1 DEF Over
  <2>3. ASSUME NEW i \in Nat, NEW c \in Fr, Over(c, i) PROVE i \in shown
    <3>1. i \in FirstLeaf(c) .. (PastLeaf(c) - 1)
      BY <2>1, <2>3 DEF Over
    <3> QED BY <3>1
  <2> HIDE DEF shown
  <2> QED BY <2>2, <2>3
<1>3. ASSUME NEW i \in Nat, NEW c \in N, Over(c, i)
      PROVE  /\ Leaf(i) \in forest
             /\ IsWithin(c, query.first, query.last) => i \in query.first .. query.last
             /\ i \in shown /\ \E t \in tops : Over(t, i)
  <2>1. /\ Leaf(i) \in forest
        /\ IsWithin(c, query.first, query.last) => i \in query.first .. query.last
        /\ \E t \in N : ParentOf(t) \notin N /\ Over(t, i)
    BY <1>3, UnderTheCoverage
  <2>2. i \in shown
    <3> HIDE DEF N, Fr, shown
    <3>1. \E d \in Fr : Over(d, i)
      BY <1>1, <1>3, <2>1
    <3> QED BY <1>2, <3>1
  <2> QED BY <2>1, <2>2
<1>4. \A c \in tops : c \in N /\ c \in Coordinates
  BY <1>1
<1>5. tops # {}
  <2>1. PICK c \in N : TRUE
    BY <1>1
  <2>2. FirstLeaf(c) \in Nat /\ Over(c, FirstLeaf(c))
    BY <1>1, Span
  <2> HIDE DEF N, tops
  <2> QED BY <1>3, <2>2
<1> HIDE DEF N, Fr, tops, shown
<1>6. /\ starts \in SUBSET Nat /\ starts # {}
      /\ ends \in SUBSET Nat /\ ends # {} /\ IsFiniteSet(ends)
  <2>1. \A c \in tops : FirstLeaf(c) \in Nat /\ PastLeaf(c) \in Nat
    BY <1>4, Span
  <2>2. IsFiniteSet(tops)
    <3>1. tops \in SUBSET forest
      BY <1>1, <1>4
    <3> QED BY <1>1, <3>1, FS_Subset
  <2>3. IsFiniteSet(ends)
    <3> DEFINE f == [c \in tops |-> PastLeaf(c)]
    <3>1. f \in Surjection(tops, ends)
      BY DEF Surjection
    <3> HIDE DEF f, ends
    <3> QED BY <2>2, <3>1, FS_Surjection
  <2> QED BY <1>5, <2>1, <2>3
<1>7. from \in starts /\ \A x \in starts : from <= x
  <2>1. \E x \in starts : \A y \in starts : x <= y
    <3> HIDE DEF starts
    <3> QED BY <1>6, LeastNat
  <2> HIDE DEF starts
  <2> QED BY <2>1 DEF Min
<1>8. past \in ends /\ \A x \in ends : past >= x
  <2> HIDE DEF ends
  <2>3. PICK x \in ends : \A y \in ends : y <= x
    BY <1>6, GreatestNat
  <2>4. \A y \in ends : x >= y
    BY <1>6, <2>3
  <2> QED BY <2>4 DEF Max
<1>9. PICK a \in tops : from = FirstLeaf(a)
  BY <1>7
<1>10. PICK z \in tops : past = PastLeaf(z)
  BY <1>8
<1>11. \A t \in tops : from <= FirstLeaf(t) /\ PastLeaf(t) <= past
  <2>1. \A t \in tops : FirstLeaf(t) \in starts /\ PastLeaf(t) \in ends
    OBVIOUS
  <2>2. \A t \in tops : PastLeaf(t) \in Nat
    BY <1>4, Span
  <2>3. past \in Nat
    BY <1>10, <2>2
  <2> HIDE DEF starts, ends
  <2>4. ASSUME NEW t \in tops PROVE past >= PastLeaf(t)
    BY <1>8, <2>1
  <2> HIDE DEF past
  <2>5. \A t \in tops : PastLeaf(t) <= past
    BY <2>2, <2>3, <2>4
  <2> QED BY <1>7, <2>1, <2>5
<1> HIDE DEF from, past, starts, ends
<1>12. /\ from \in Nat /\ past \in Nat /\ past - 1 \in Nat
       /\ Over(a, from) /\ Over(z, past - 1) /\ a \in N /\ z \in N
  BY <1>4, <1>9, <1>10, Span
<1>13. \A i \in Nat : i \in shown => from <= i /\ i < past
  <2> SUFFICES ASSUME NEW i \in Nat, i \in shown PROVE from <= i /\ i < past
    OBVIOUS
  <2>1. PICK c \in N : Over(c, i)
    BY <1>1, <1>2
  <2>2. PICK t \in tops : Over(t, i)
    BY <1>3, <2>1
  <2>3. FirstLeaf(t) \in Nat /\ PastLeaf(t) \in Nat
    BY <1>4, Span
  <2> QED BY <1>11, <1>12, <2>2, <2>3 DEF Over
<1>14. from \in shown /\ past - 1 \in shown
  BY <1>3, <1>12
<1>15. Fr # {}
  BY <1>2, <1>14
<1>16. ~\E c, d \in Fr : c # d /\ FirstLeaf(c) <= FirstLeaf(d) /\ FirstLeaf(d) < PastLeaf(c)
  <2> SUFFICES ASSUME NEW c \in Fr, NEW d \in Fr,
                      FirstLeaf(c) <= FirstLeaf(d), FirstLeaf(d) < PastLeaf(c)
               PROVE  c = d
    OBVIOUS
  <2>1. d \in N /\ FirstLeaf(d) \in Nat /\ Over(d, FirstLeaf(d)) /\ Over(c, FirstLeaf(d))
    BY <1>1, Span DEF Over
  <2> QED BY <1>1, <2>1
<1>17. ASSUME Beyond = {} PROVE ~\E i \in from .. (past - 1) : i \notin shown
  <2> SUFFICES ASSUME NEW i \in from .. (past - 1) PROVE i \in shown
    OBVIOUS
  <2>0. \A c \in N : IsWithin(c, query.first, query.last)
    BY <1>1, <1>17 DEF Beyond, Fr
  <2>1. i \in Nat /\ from <= i /\ i <= past - 1
    BY <1>12
  <2>2. /\ Leaf(past - 1) \in forest /\ past - 1 \in query.first .. query.last
        /\ from \in query.first .. query.last
    BY <1>3, <1>12, <2>0
  <2>3. Leaf(i) \in forest
    <3>1. PICK n \in Nat : LeavesOf(forest) = {Leaf(k) : k \in 0 .. (n - 1)}
      BY LeavesAreInARow DEF RetrievalInv, ForestSound, Coordinates
    <3>2. Leaf(past - 1) \in LeavesOf(forest)
      BY <2>2 DEF LeavesOf, Leaf
    <3>3. PICK k \in 0 .. (n - 1) : Leaf(past - 1) = Leaf(k)
      BY <3>1, <3>2
    <3>4. past - 1 = k
      BY <3>3 DEF Leaf
    <3>5. i \in 0 .. (n - 1)
      BY <1>12, <2>1, <3>4
    <3>6. Leaf(i) \in LeavesOf(forest)
      BY <3>1, <3>5
    <3> QED BY <3>6 DEF LeavesOf
  <2>4. i \in query.first .. query.last
    BY <1>1, <1>12, <2>1, <2>2
  <2> QED BY <1>1, <1>2, <2>1, <2>3, <2>4
<1>18. ~(from \notin shown \/ \E i \in shown : i < from)
  BY <1>2, <1>12, <1>13, <1>14
<1>19. ~(past - 1 \notin shown \/ \E i \in shown : i >= past)
  BY <1>2, <1>12, <1>13, <1>14
<1>20. TilingFindings(Fr, N, budget) =
         {f \in {"empty", "overlap", "start", "end", "gap", "budget"} :
            CASE f = "empty" -> Fr = {}
              [] f = "overlap" -> \E c, d \in Fr :
                    c # d /\ FirstLeaf(c) <= FirstLeaf(d) /\ FirstLeaf(d) < PastLeaf(c)
              [] f = "start" -> from \notin shown \/ \E i \in shown : i < from
              [] f = "end" -> past - 1 \notin shown \/ \E i \in shown : i >= past
              [] f = "gap" -> \E i \in from .. (past - 1) : i \notin shown
              [] f = "budget" -> budget # NoBudget /\ TokensOf(Fr) > budget}
  BY DEF TilingFindings, tops, from, past, shown, starts, ends
<1> DEFINE over == budget # NoBudget /\ TokensOf(Fr) > budget
<1>21. /\ TilingFindings(Fr, N, budget) \ {"gap"} = IF over THEN {"budget"} ELSE {}
       /\ "gap" \in TilingFindings(Fr, N, budget) => Beyond # {}
  <2> DEFINE Says(f) ==
            CASE f = "empty" -> Fr = {}
              [] f = "overlap" -> \E c, d \in Fr :
                    c # d /\ FirstLeaf(c) <= FirstLeaf(d) /\ FirstLeaf(d) < PastLeaf(c)
              [] f = "start" -> from \notin shown \/ \E i \in shown : i < from
              [] f = "end" -> past - 1 \notin shown \/ \E i \in shown : i >= past
              [] f = "gap" -> \E i \in from .. (past - 1) : i \notin shown
              [] f = "budget" -> over
  <2>1. ~Says("empty")
    BY <1>15
  <2>2. ~Says("overlap")
    BY <1>16
  <2>3. ~Says("start")
    BY <1>18
  <2>4. ~Says("end")
    BY <1>19
  <2>5. Says("gap") => Beyond # {}
    BY <1>17
  <2>6. Says("budget") <=> over
    OBVIOUS
  <2>7. TilingFindings(Fr, N, budget) =
          {f \in {"empty", "overlap", "start", "end", "gap", "budget"} : Says(f)}
    BY <1>20
  <2> HIDE DEF Says
  <2>8. \A f : f \in TilingFindings(Fr, N, budget) \ {"gap"} <=> f = "budget" /\ over
    BY <2>1, <2>2, <2>3, <2>4, <2>6, <2>7
  <2>9. "gap" \in TilingFindings(Fr, N, budget) => Says("gap")
    BY <2>7
  <2> HIDE DEF over
  <2>10. TilingFindings(Fr, N, budget) \ {"gap"} = IF over THEN {"budget"} ELSE {}
    BY <2>8
  <2> QED BY <2>5, <2>9, <2>10
<1> QED BY <1>21 DEF over, Fr, N

LEMMA AnswersAreTilings ==
  ASSUME RetrievalInv
  PROVE  TilingCoversWindow
<1> SUFFICES ASSUME InHand PROVE TilingCoversWindow
  BY DEF TilingCoversWindow
<1>1. /\ \A c \in query.nodes : IsWithin(c, query.first, query.last) \/ MayStray(c)
      /\ query.frontier \subseteq query.nodes
      /\ query.first \in Nat /\ query.last \in Nat
      /\ \A i \in query.first .. query.last : Leaf(i) \in forest => \E c \in query.frontier : Over(c, i)
      /\ \A i \in Nat : \A c, d \in query.frontier : Over(c, i) /\ Over(d, i) => c = d
      /\ {Leaf(i) : i \in query.pinned} \subseteq query.frontier
  BY Rolling DEF RetrievalInv, CoverageIsSound, FrontierTiles
<1>2. ASSUME NEW i \in query.first .. query.last, Leaf(i) \in forest
      PROVE  Cardinality({c \in query.frontier : Over(c, i)}) = 1
  <2>1. PICK c \in query.frontier : Over(c, i)
    BY <1>1, <1>2
  <2>2. i \in Nat
    BY <1>1
  <2>3. {d \in query.frontier : Over(d, i)} = {c}
    BY <1>1, <2>1, <2>2
  <2> QED BY <2>3, FS_Singleton
<1>3. TilingFindings(query.frontier, query.nodes, NoBudget) \subseteq (IF Beyond = {} THEN {} ELSE {"gap"})
  <2>1. /\ TilingFindings(query.frontier, query.nodes, NoBudget) \ {"gap"} = {}
        /\ "gap" \in TilingFindings(query.frontier, query.nodes, NoBudget) => Beyond # {}
    BY NothingIsFound
  <2> QED BY <2>1
<1>4. /\ ValidationWarning \ {"gap"} = IF OverBudget THEN {"budget"} ELSE {}
      /\ "gap" \in ValidationWarning => Beyond # {}
  <2> DEFINE found == TilingFindings(query.frontier, query.nodes, query.budget)
  <2>1. /\ found \ {"gap"} = IF query.budget # NoBudget /\ TokensOf(query.frontier) > query.budget
                             THEN {"budget"} ELSE {}
        /\ "gap" \in found => Beyond # {}
    BY NothingIsFound
  <2>2. ValidationWarning = IF query.budget = NoBudget THEN {} ELSE found
    BY DEF ValidationWarning
  <2> HIDE DEF found
  <2> QED BY <2>1, <2>2 DEF OverBudget
<1>5. \A c \in Beyond : MayStray(c)
  BY <1>1 DEF Beyond
<1>6. TilingCoversWindow <=>
        /\ \A i \in query.first .. query.last :
              Leaf(i) \in forest => Cardinality({c \in query.frontier : Over(c, i)}) = 1
        /\ {Leaf(i) : i \in query.pinned} \subseteq query.frontier
        /\ \A c \in Beyond : MayStray(c)
        /\ query.pc = "answered" =>
              /\ TilingFindings(query.frontier, query.nodes, NoBudget) \subseteq
                   (IF Beyond = {} THEN {} ELSE {"gap"})
              /\ ValidationWarning \ {"gap"} = IF OverBudget THEN {"budget"} ELSE {}
              /\ "gap" \in ValidationWarning => Beyond # {}
  BY DEF TilingCoversWindow, Beyond
<1> QED BY <1>1, <1>2, <1>3, <1>4, <1>5, <1>6

-----------------------------------------------------------------------------
(* The theorems *)

\* In every reachable state the plan of a query is sound, its covering set has
\* both children of a node or none, its frontier tiles the window, and its
\* queue holds every pair that can be rolled up: _build_coordinate_closure and
\* GreedyTilingGenerator, against appends, summaries and truncations meanwhile.
THEOREM RetrievalIsSound == QuerySpec => []RetrievalInv
<1> USE RetrievalAssumption
<1>1. QueryInit => RetrievalInv
  BY RetrievalStarts
<1>2. RetrievalInv /\ [QueryNext]_queryVars => RetrievalInv'
  BY RetrievalSteps
<1> QED BY <1>1, <1>2, PTL DEF QuerySpec

\* Every answer shows each leaf of the window once and the verbatim leaves as
\* they are.  What it shows beyond the window are single leaves that were found
\* as seeds without the window's filter - appended meanwhile to a document asked
\* for as a whole, named by a lexical search, or moved by a truncation - and
\* validate_tiling warns of a budget that was too small, of the gap before such
\* a leaf, and of nothing else.
THEOREM AnswersTileTheWindow == QuerySpec => []TilingCoversWindow
<1>1. RetrievalInv => TilingCoversWindow
  BY AnswersAreTilings
<1> QED BY <1>1, RetrievalIsSound, PTL

\* An answer over the budget has no pair left that could be rolled up.
THEOREM AnswersAreSmallest == QuerySpec => []AnswerIsSmallest
<1>1. RetrievalInv => AnswerIsSmallest
  BY DEF RetrievalInv
<1> QED BY <1>1, RetrievalIsSound, PTL

\* Only a truncation during the await makes a query fail.
THEOREM FailuresAreCuts == QuerySpec => []OnlyCutsFail
<1>1. RetrievalInv => OnlyCutsFail
  BY DEF RetrievalInv
<1> QED BY <1>1, RetrievalIsSound, PTL

-----------------------------------------------------------------------------
(* The leaves a query starts from, with Chroma as the vector index *)

SeedTyped ==
  /\ made \in Nat /\ undeleted \subseteq Texts
  /\ places = [d \in Texts |-> places[d]]
  /\ \A d \in Texts : places[d] \in Seq(1 .. made)

\* A leaf has one place.
OnePlace ==
  \A d, e \in Texts : \A i \in DOMAIN places[d], j \in DOMAIN places[e] :
    places[d][i] = places[e][j] => d = e /\ i = j

\* Whose vector it is, and where the leaf is or was.
Describes(meta, id, d, i) ==
  /\ meta = Metadata(id, d, i) /\ d \in Texts /\ i \in Nat \ {0}
  /\ id \in Live(d) \/ d \in undeleted
  /\ \A e \in Texts : \A j \in DOMAIN places[e] : places[e][j] = id => e = d /\ j = i

VectorsSound ==
  /\ DOMAIN pgvector \subseteq 1 .. made /\ DOMAIN chroma \subseteq DOMAIN pgvector
  /\ \A id \in DOMAIN chroma :
       chroma[id] = pgvector[id] /\ \E d, i : Describes(chroma[id], id, d, i)
  /\ \A d \in Texts : Live(d) \cap DOMAIN pgvector \subseteq DOMAIN chroma

LookupSound ==
  /\ lookup.pc \in {"idle", "embedding", "answered"}
  /\ lookup.pc # "idle" =>
       LET f == lookup.filters IN
       /\ lookup = [pc |-> lookup.pc, document |-> lookup.document, wanted |-> lookup.wanted,
                    lexical |-> lookup.lexical, filters |-> f, seeds |-> lookup.seeds]
       /\ lookup.document \in Texts /\ lookup.wanted \in Nat
       /\ f.document = lookup.document
       /\ f.from # None => f.from \in Int /\ f.to \in Int

\* The arrays have the rows of the vectors of pgvector.
PythonSound ==
  /\ python = [ids |-> python.ids, vectors |-> python.ids, meta |-> python.meta]
  /\ python.ids \in Seq(DOMAIN pgvector) /\ Range(python.ids) = DOMAIN pgvector
  /\ IsInjective(python.ids)
  /\ DOMAIN python.meta = DOMAIN pgvector
  /\ \A id \in DOMAIN pgvector : python.meta[id] = PyMeta(pgvector[id])

SeedInv ==
  /\ SeedTyped /\ OnePlace /\ VectorsSound /\ PythonSound /\ LookupSound
  /\ Backend = "chroma" => SeedsAreFound

-----------------------------------------------------------------------------
(* The rows that are kept *)

RowRank(rows, r) == Cardinality({q \in rows : q <= r})

\* The ranks of the rows are the numbers up to how many there are.
LEMMA Ranks ==
  ASSUME NEW rows \in SUBSET Nat, IsFiniteSet(rows)
  PROVE /\ Cardinality(rows) \in Nat
        /\ \A r, s \in rows : RowRank(rows, r) = RowRank(rows, s) => r = s
        /\ \A n \in 1 .. Cardinality(rows) : \E r \in rows : RowRank(rows, r) = n
<1> DEFINE n == Cardinality(rows)
           UpTo(r) == {q \in rows : q <= r}
           rank == [r \in rows |-> RowRank(rows, r)]
<1>1. n \in Nat
  BY FS_CardinalityType
<1>2. ASSUME NEW r \in rows
      PROVE IsFiniteSet(UpTo(r)) /\ RowRank(rows, r) = Cardinality(UpTo(r))
            /\ RowRank(rows, r) \in 1 .. n
  <2>1. UpTo(r) \in SUBSET rows /\ r \in UpTo(r) /\ UpTo(r) # {}
    OBVIOUS
  <2>2. IsFiniteSet(UpTo(r)) /\ Cardinality(UpTo(r)) <= n
    BY <2>1, FS_Subset
  <2>3. Cardinality(UpTo(r)) \in Nat /\ Cardinality(UpTo(r)) # 0
    BY <2>1, <2>2, FS_CardinalityType, FS_EmptySet
  <2>4. QED
    BY <1>1, <2>2, <2>3 DEF RowRank
<1>3. ASSUME NEW r \in rows, NEW s \in rows, RowRank(rows, r) = RowRank(rows, s), r < s
      PROVE FALSE
  <2>1. UpTo(r) \in SUBSET UpTo(s) /\ s \in UpTo(s) /\ s \notin UpTo(r)
    <3>1. r \in Nat /\ s \in Nat /\ ~(s <= r) /\ \A q \in rows : q \in Nat
      BY <1>3
    <3>2. s <= s /\ \A q \in rows : q <= r => q <= s
      BY <1>3, <3>1
    <3>3. QED
      BY <3>1, <3>2, Zenon
  <2>2. Cardinality(UpTo(s)) = Cardinality(UpTo(r)) /\ IsFiniteSet(UpTo(s))
    BY <1>2, <1>3
  <2>3. UpTo(s) = UpTo(r)
    BY <2>1, <2>2, FS_Subset
  <2>4. QED
    BY <2>1, <2>3
<1>4. ASSUME NEW r \in rows, NEW s \in rows, RowRank(rows, r) = RowRank(rows, s)
      PROVE r = s
  BY <1>3, <1>4
<1>5. rank \in Injection(rows, 1 .. n)
  <2>1. rank \in [rows -> 1 .. n]
    BY <1>2
  <2>2. \A r, s \in rows : rank[r] = rank[s] => r = s
    BY <1>4
  <2> HIDE DEF rank
  <2>3. QED
    BY <2>1, <2>2, Zenon DEF Injection, IsInjective
<1>6. IsFiniteSet(1 .. n) /\ Cardinality(1 .. n) = n
  BY <1>1, FS_Interval
<1>7. rank \in Surjection(rows, 1 .. n)
  <2> HIDE DEF rank
  <2>1. QED
    BY <1>5, <1>6, FS_Injection
<1>8. ASSUME NEW i \in 1 .. n PROVE \E r \in rows : RowRank(rows, r) = i
  BY <1>7 DEF Surjection
<1>9. QED
  BY <1>1, <1>4, <1>8

LEMMA IdsKeptAre ==
  ASSUME NEW S, NEW ids \in Seq(S), IsInjective(ids), NEW keep
  PROVE /\ IdsKept(ids, keep) \in Seq(S)
        /\ Range(IdsKept(ids, keep)) = Range(ids) \cap keep
        /\ IsInjective(IdsKept(ids, keep))
<1> DEFINE rows == {r \in DOMAIN ids : ids[r] \in keep}
           n == Cardinality(rows)
           Row(i) == CHOOSE r \in rows : RowRank(rows, r) = i
           left == [i \in 1 .. n |-> ids[Row(i)]]
<1>1. IdsKept(ids, keep) = left
  BY DEF IdsKept, RowRank
<1>2. rows \in SUBSET Nat /\ IsFiniteSet(rows)
  <2>1. DOMAIN ids = 1 .. Len(ids) /\ Len(ids) \in Nat
    BY LenProperties
  <2>2. IsFiniteSet(DOMAIN ids) /\ rows \in SUBSET DOMAIN ids
    BY <2>1, FS_Interval
  <2>3. QED
    BY <2>1, <2>2, FS_Subset
<1>3. \A r \in rows : r \in DOMAIN ids /\ ids[r] \in keep /\ ids[r] \in S
  BY ElementOfSeq, LenProperties
<1>4. \A r \in DOMAIN ids : ids[r] \in keep => r \in rows
  OBVIOUS
<1> HIDE DEF rows
<1>5. /\ n \in Nat
      /\ \A r, s \in rows : RowRank(rows, r) = RowRank(rows, s) => r = s
      /\ \A i \in 1 .. n : \E r \in rows : RowRank(rows, r) = i
  BY <1>2, Ranks
<1>6. ASSUME NEW i \in 1 .. n PROVE Row(i) \in rows /\ RowRank(rows, Row(i)) = i
  BY <1>5
<1>7. ASSUME NEW r \in rows PROVE RowRank(rows, r) \in 1 .. n /\ Row(RowRank(rows, r)) = r
  <2>1. {q \in rows : q <= r} \in SUBSET rows /\ r \in {q \in rows : q <= r}
    BY <1>2
  <2>2. RowRank(rows, r) \in Nat /\ RowRank(rows, r) <= n /\ RowRank(rows, r) # 0
    BY <1>2, <2>1, FS_Subset, FS_CardinalityType, FS_EmptySet DEF RowRank
  <2>3. RowRank(rows, r) \in 1 .. n
    BY <1>5, <2>2
  <2>4. QED
    BY <1>5, <1>6, <2>3
<1> HIDE DEF Row, n
<1>8. left \in Seq(S) /\ DOMAIN left = 1 .. n /\ \A i \in 1 .. n : left[i] = ids[Row(i)]
  <2>1. \A i \in 1 .. n : ids[Row(i)] \in S
    BY <1>3, <1>6
  <2>2. QED
    BY <1>5, <2>1, IsASeq
<1> HIDE DEF left
<1>9. Range(left) = Range(ids) \cap keep
  <2>1. ASSUME NEW i \in 1 .. n PROVE left[i] \in Range(ids) \cap keep
    BY <1>3, <1>6, <1>8 DEF Range
  <2>2. ASSUME NEW id \in Range(ids) \cap keep PROVE \E i \in 1 .. n : left[i] = id
    <3>1. PICK r \in DOMAIN ids : ids[r] = id
      BY DEF Range
    <3>2. r \in rows
      BY <1>4, <3>1
    <3>3. QED
      BY <1>7, <1>8, <3>1, <3>2
  <2>3. QED
    BY <1>8, <2>1, <2>2 DEF Range
<1>10. IsInjective(left)
  <2>1. ASSUME NEW i \in 1 .. n, NEW j \in 1 .. n, left[i] = left[j] PROVE i = j
    <3>1. ids[Row(i)] = ids[Row(j)]
      BY <1>8, <2>1
    <3>2. Row(i) = Row(j)
      BY <1>3, <1>6, <3>1 DEF IsInjective
    <3>3. QED
      BY <1>6, <3>2
  <2>2. QED
    BY <1>8, <2>1 DEF IsInjective
<1>11. QED
  BY <1>1, <1>8, <1>9, <1>10

-----------------------------------------------------------------------------
(* What a search of Chroma finds *)

LEMMA Clauses ==
  ASSUME NEW meta, NEW a
  PROVE /\ ClauseHolds(<<"document_id", "=", a>>, meta) <=> meta.document_id = a
        /\ ClauseHolds(<<"span_end", "<", a>>, meta) <=> meta.span_end < a
        /\ ClauseHolds(<<"span_end", ">", a>>, meta) <=> meta.span_end > a
        /\ ClauseHolds(<<"span_start", "<", a>>, meta) <=> meta.span_start < a
BY DEF ClauseHolds

LEMMA ChromaFilters ==
  ASSUME NEW meta, NEW f
  PROVE (\A i \in DOMAIN ChromaWhere(f) : ClauseHolds(ChromaWhere(f)[i], meta))
        <=> /\ meta.document_id = f.document
            /\ f.before # None => meta.span_end < f.before
            /\ f.from # None => meta.span_start < f.to /\ meta.span_end > f.from
<1> DEFINE w == ChromaWhere(f)
           a == <<"document_id", "=", f.document>>
           b == <<"span_end", "<", f.before>>
           c == <<"span_start", "<", f.to>>
           e == <<"span_end", ">", f.from>>
           H(clause) == ClauseHolds(clause, meta)
<1>1. /\ H(a) <=> meta.document_id = f.document
      /\ H(b) <=> meta.span_end < f.before
      /\ H(c) <=> meta.span_start < f.to
      /\ H(e) <=> meta.span_end > f.from
  BY Clauses
<1>2. w = <<a>> \o (IF f.before = None THEN <<>> ELSE <<b>>)
                \o (IF f.from = None THEN <<>> ELSE <<c, e>>)
  BY DEF ChromaWhere
<1> HIDE DEF w, a, b, c, e, H
<1>3. (\A i \in DOMAIN w : H(w[i])) <=> H(a) /\ (f.before # None => H(b))
                                             /\ (f.from # None => H(c) /\ H(e))
  <2>1. CASE f.before = None /\ f.from = None
    <3>1. DOMAIN w = 1 .. 1 /\ w[1] = a
      BY <1>2, <2>1
    <3>2. QED
      BY <2>1, <3>1
  <2>2. CASE f.before # None /\ f.from = None
    <3>1. DOMAIN w = 1 .. 2 /\ w[1] = a /\ w[2] = b
      BY <1>2, <2>2
    <3>2. QED
      BY <2>2, <3>1
  <2>3. CASE f.before = None /\ f.from # None
    <3>1. DOMAIN w = 1 .. 3 /\ w[1] = a /\ w[2] = c /\ w[3] = e
      BY <1>2, <2>3
    <3>2. QED
      BY <2>3, <3>1
  <2>4. CASE f.before # None /\ f.from # None
    <3>1. DOMAIN w = 1 .. 4 /\ w[1] = a /\ w[2] = b /\ w[3] = c /\ w[4] = e
      BY <1>2, <2>4
    <3>2. QED
      BY <2>4, <3>1
  <2>5. QED
    BY <2>1, <2>2, <2>3, <2>4
<1>4. QED
  BY <1>1, <1>3 DEF w, H

\* A leaf of the document is found if it is embedded and passes the filters.
LEMMA FoundIsScope ==
  ASSUME SeedTyped, VectorsSound, LookupSound, lookup.pc # "idle"
  PROVE ChromaSearch(lookup.filters) \cap Live(lookup.document) = Scope
<1> DEFINE f == lookup.filters
           d == lookup.document
<1>1. d \in Texts /\ f.document = d /\ (f.from # None => f.from \in Int /\ f.to \in Int)
  BY DEF LookupSound
<1>2. ASSUME NEW i \in DOMAIN places[d]
      PROVE places[d][i] \in ChromaSearch(f)
            <=> /\ places[d][i] \in DOMAIN pgvector
                /\ f.before # None => i < f.before
                /\ f.from # None => f.from < i /\ i <= f.to
  <2> DEFINE id == places[d][i]
             m == chroma[id]
  <2>1. id \in ChromaSearch(f) <=>
          /\ id \in DOMAIN chroma
          /\ m.document_id = f.document
          /\ f.before # None => m.span_end < f.before
          /\ f.from # None => m.span_start < f.to /\ m.span_end > f.from
    BY ChromaFilters DEF ChromaSearch, ChromaGet
  <2>2. id \in DOMAIN chroma <=> id \in DOMAIN pgvector
    BY <1>1 DEF VectorsSound, Live, Range
  <2>3. CASE id \in DOMAIN chroma
    <3>1. m = Metadata(id, d, i)
      BY <1>1, <2>3 DEF VectorsSound, Describes
    <3>2. m.document_id = d /\ m.span_start = i - 1 /\ m.span_end = i
      BY <3>1 DEF Metadata
    <3>3. i \in Int
      BY <1>1, LenProperties DEF SeedTyped
    <3>4. (f.from # None => m.span_start < f.to /\ m.span_end > f.from)
          <=> (f.from # None => f.from < i /\ i <= f.to)
      BY <1>1, <3>2, <3>3
    <3>5. QED
      BY <1>1, <2>1, <2>2, <2>3, <3>2, <3>4
  <2>4. CASE id \notin DOMAIN chroma
    BY <2>1, <2>2, <2>4
  <2>5. QED
    BY <2>3, <2>4
<1>3. Scope = {places[d][i] : i \in {j \in DOMAIN places[d] :
                 /\ places[d][j] \in DOMAIN pgvector
                 /\ f.before # None => j < f.before
                 /\ f.from # None => f.from < j /\ j <= f.to}}
  BY DEF Scope
<1>4. Live(d) = {places[d][i] : i \in DOMAIN places[d]}
  BY DEF Live, Range
<1> HIDE DEF f, d
<1>5. QED
  BY <1>2, <1>3, <1>4 DEF f, d

\* Nothing else is found, unless a deletion failed.
LEMMA FoundIsLive ==
  ASSUME SeedTyped, VectorsSound, LookupSound, lookup.pc # "idle",
         lookup.document \notin undeleted
  PROVE ChromaSearch(lookup.filters) \subseteq Live(lookup.document)
<1> SUFFICES ASSUME NEW id \in ChromaSearch(lookup.filters)
             PROVE id \in Live(lookup.document)
  OBVIOUS
<1>1. id \in DOMAIN chroma /\ chroma[id].document_id = lookup.filters.document
  BY ChromaFilters DEF ChromaSearch, ChromaGet
<1>2. PICK d, i : Describes(chroma[id], id, d, i)
  BY <1>1 DEF VectorsSound
<1>3. chroma[id].document_id = d
  BY <1>2 DEF Describes, Metadata
<1>4. QED
  BY <1>1, <1>2, <1>3 DEF Describes, LookupSound

-----------------------------------------------------------------------------
(* The document changes *)

LEMMA PlaceAt ==
  ASSUME SeedTyped, NEW d \in Texts, NEW i \in DOMAIN places[d]
  PROVE places[d][i] \in 1 .. made /\ places[d][i] \in Live(d) /\ i \in Nat \ {0}
BY LenProperties, ElementOfSeq DEF SeedTyped, Live, Range

LEMMA MetaKept ==
  ASSUME NEW meta
  PROVE /\ PyMeta(meta).document_id = meta.document_id
        /\ PyMeta(meta).span_start = meta.span_start /\ PyMeta(meta).span_end = meta.span_end
BY DEF PyMeta

LEMMA PyVectorIs ==
  ASSUME PythonSound, NEW id \in DOMAIN pgvector
  PROVE PyVector(id) = id
<1>1. python.vectors = python.ids /\ Range(python.ids) = DOMAIN pgvector
  BY DEF PythonSound
<1>2. PyRow(python, id) \in DOMAIN python.ids /\ python.ids[PyRow(python, id)] = id
  BY <1>1 DEF PyRow, Range
<1>3. QED
  BY <1>1, <1>2 DEF PyVector

LEMMA InitSeeds ==
  ASSUME SeedInit
  PROVE SeedInv
<1>1. /\ pgvector = <<>> /\ chroma = <<>> /\ made = 0 /\ undeleted = {}
      /\ places = [d \in Texts |-> <<>>] /\ lookup.pc = "idle"
  BY DEF SeedInit, IndexInit, NoLookup
<1>2. SeedTyped
  BY <1>1 DEF SeedTyped
<1>3. OnePlace
  BY <1>1 DEF OnePlace
<1>4. VectorsSound
  BY <1>1 DEF VectorsSound
<1>5. LookupSound /\ SeedsAreFound
  BY <1>1 DEF LookupSound, SeedsAreFound
<1>6. PythonSound
  <2>1. python = [ids |-> <<>>, vectors |-> <<>>, meta |-> <<>>]
    BY DEF SeedInit, IndexInit, PyEmpty
  <2>2. python.ids = <<>> /\ python.vectors = <<>> /\ python.meta = <<>>
    BY <2>1
  <2>3. QED
    BY <1>1, <2>1, <2>2, EmptySeq DEF PythonSound, Range, IsInjective
<1>7. QED
  BY <1>2, <1>3, <1>4, <1>5, <1>6 DEF SeedInv

\* A query that waits, or none, is not disturbed.
LEMMA LookupStays ==
  ASSUME LookupSound, Quiet, lookup' = lookup
  PROVE LookupSound' /\ SeedsAreFound'
BY DEF LookupSound, Quiet, SeedsAreFound

LEMMA PythonStays ==
  ASSUME PythonSound, pgvector' = pgvector, python' = python
  PROVE PythonSound'
BY DEF PythonSound, PyMeta

LEMMA AppendLeafSeeds ==
  ASSUME SeedInv, NEW d \in Texts, Quiet, AppendLeaf(d)
  PROVE SeedInv'
<1>1. /\ made' = made + 1 /\ places' = [places EXCEPT ![d] = Append(@, made + 1)]
      /\ pgvector' = pgvector /\ chroma' = chroma /\ undeleted' = undeleted /\ lookup' = lookup
  BY DEF AppendLeaf, indexVars
<1>2. /\ SeedTyped /\ made \in Nat /\ places[d] \in Seq(1 .. made)
      /\ places = [e \in Texts |-> places[e]]
  BY DEF SeedInv, SeedTyped
<1> DEFINE n == Len(places[d])
<1>3. /\ n \in Nat /\ DOMAIN places[d] = 1 .. n
      /\ DOMAIN places'[d] = 1 .. n + 1 /\ places'[d][n + 1] = made + 1
      /\ \A i \in DOMAIN places[d] : places'[d][i] = places[d][i]
      /\ places' = [e \in Texts |-> places'[e]]
      /\ \A e \in Texts \ {d} : places'[e] = places[e]
      /\ places'[d] \in Seq(1 .. made')
  <2>1. places'[d] = Append(places[d], made + 1)
    BY <1>1, <1>2
  <2>2. places[d] \in Seq(1 .. made') /\ made + 1 \in 1 .. made'
    BY <1>1, <1>2, SeqMonotonic
  <2>3. /\ places'[d] \in Seq(1 .. made') /\ Len(places'[d]) = n + 1
        /\ \A i \in 1 .. n : places'[d][i] = places[d][i]
        /\ places'[d][n + 1] = made + 1
    BY <2>1, <2>2, AppendProperties
  <2>4. n \in Nat /\ DOMAIN places[d] = 1 .. n /\ DOMAIN places'[d] = 1 .. Len(places'[d])
    BY <1>2, <2>3, LenProperties
  <2>5. places' = [e \in Texts |-> places'[e]] /\ \A e \in Texts \ {d} : places'[e] = places[e]
    BY <1>1, <1>2
  <2>6. QED
    BY <2>3, <2>4, <2>5
<1> HIDE DEF n
<1>4. ASSUME NEW e \in Texts, NEW i \in DOMAIN places'[e]
      PROVE \/ i \in DOMAIN places[e] /\ places'[e][i] = places[e][i] /\ places[e][i] \in 1 .. made
            \/ e = d /\ i = n + 1 /\ places'[e][i] = made + 1
  <2>1. \A j \in DOMAIN places[e] : places[e][j] \in 1 .. made
    BY <1>2, PlaceAt
  <2>2. CASE e = d
    <3>1. i = n + 1 \/ i \in DOMAIN places[d]
      BY <1>3, <1>4, <2>2
    <3>2. QED
      BY <1>3, <2>1, <2>2, <3>1
  <2>3. CASE e # d
    BY <1>3, <1>4, <2>1, <2>3
  <2>4. QED
    BY <2>2, <2>3
<1>5. SeedTyped'
  <2>1. \A e \in Texts : places'[e] \in Seq(1 .. made')
    <3>1. ASSUME NEW e \in Texts, e # d PROVE places'[e] \in Seq(1 .. made')
      <4>1. places[e] \in Seq(1 .. made) /\ 1 .. made \subseteq 1 .. made'
        BY <1>1, <1>2 DEF SeedTyped
      <4>2. QED
        BY <1>3, <3>1, <4>1, SeqMonotonic
    <3>2. QED
      BY <1>3, <3>1
  <2>2. QED
    BY <1>1, <1>2, <1>3, <2>1 DEF SeedTyped
<1>6. OnePlace'
  <2>1. SUFFICES ASSUME NEW e \in Texts, NEW g \in Texts, NEW i \in DOMAIN places'[e],
                        NEW j \in DOMAIN places'[g], places'[e][i] = places'[g][j]
                 PROVE e = g /\ i = j
    BY DEF OnePlace
  <2>2. made + 1 \notin 1 .. made
    BY <1>2
  <2>3. QED
    BY <1>4, <2>1, <2>2 DEF SeedInv, OnePlace
<1>7. VectorsSound'
  <2>1. made + 1 \notin DOMAIN pgvector /\ DOMAIN pgvector \subseteq 1 .. made'
    BY <1>1, <1>2 DEF SeedInv, VectorsSound
  <2>2. \A e \in Texts : /\ Live(e) \subseteq Live(e)'
                         /\ Live(e)' \subseteq Live(e) \cup {made + 1}
    <3>1. ASSUME NEW e \in Texts PROVE Live(e) \subseteq Live(e)'
      <4>1. \A i \in DOMAIN places[e] : i \in DOMAIN places'[e] /\ places'[e][i] = places[e][i]
        BY <1>3
      <4>2. QED
        BY <4>1 DEF Live, Range
    <3>2. ASSUME NEW e \in Texts PROVE Live(e)' \subseteq Live(e) \cup {made + 1}
      BY <1>4 DEF Live, Range
    <3>3. QED
      BY <3>1, <3>2
  <2>3. ASSUME NEW id \in DOMAIN chroma, NEW e, NEW i, Describes(chroma[id], id, e, i)
        PROVE Describes(chroma[id], id, e, i)'
    <3>1. id # made + 1
      BY <2>1 DEF SeedInv, VectorsSound
    <3>2. QED
      BY <1>1, <1>4, <2>2, <2>3, <3>1 DEF Describes
  <2>4. ASSUME NEW id \in DOMAIN chroma
        PROVE \E e, i : Describes(chroma[id], id, e, i)'
    BY <2>3 DEF SeedInv, VectorsSound
  <2>5. QED
    BY <1>1, <2>1, <2>2, <2>4 DEF SeedInv, VectorsSound
<1>8. PythonSound'
  BY PythonStays DEF AppendLeaf, indexVars, SeedInv
<1>9. QED
  BY <1>1, <1>5, <1>6, <1>7, <1>8, LookupStays DEF SeedInv

LEMMA EmbedLeafSeeds ==
  ASSUME SeedInv, NEW d \in Texts, Quiet, EmbedLeaf(d)
  PROVE SeedInv'
<1>1. PICK i \in DOMAIN places[d] :
        /\ places[d][i] \notin DOMAIN pgvector
        /\ UpsertVector(places[d][i], Metadata(places[d][i], d, i))
  BY DEF EmbedLeaf
<1>2. places' = places /\ made' = made /\ undeleted' = undeleted /\ lookup' = lookup
  BY DEF EmbedLeaf
<1> DEFINE new == places[d][i]
           m == Metadata(new, d, i)
<1>3. new \in 1 .. made /\ new \in Live(d) /\ i \in Nat \ {0}
  BY PlaceAt DEF SeedInv
<1>4. new \notin DOMAIN chroma
  BY <1>1 DEF SeedInv, VectorsSound
<1> HIDE DEF m
<1>5. /\ DOMAIN pgvector' = {new} \cup DOMAIN pgvector /\ DOMAIN chroma' = {new} \cup DOMAIN chroma
      /\ pgvector'[new] = m /\ chroma'[new] = m
      /\ \A id \in DOMAIN pgvector : pgvector'[id] = pgvector[id]
      /\ \A id \in DOMAIN chroma : chroma'[id] = chroma[id]
  BY <1>1, <1>4 DEF UpsertVector, PgUpsert, ChromaUpsert, Overlaid, m
<1>6. \A e \in Texts : Live(e)' = Live(e)
  BY <1>2 DEF Live
<1>7. SeedTyped' /\ OnePlace'
  BY <1>2 DEF SeedInv, SeedTyped, OnePlace
<1>8. ASSUME NEW id, NEW e, NEW j, NEW meta
      PROVE Describes(meta, id, e, j)' <=> Describes(meta, id, e, j)
  BY <1>2, <1>6 DEF Describes
<1>9. Describes(m, new, d, i)
  BY <1>3 DEF Describes, m, SeedInv, OnePlace
<1>10. ASSUME NEW id \in DOMAIN chroma'
       PROVE /\ chroma'[id] = pgvector'[id]
             /\ \E e, j : Describes(chroma'[id], id, e, j)
  <2>1. CASE id = new
    BY <1>5, <1>9, <2>1
  <2>2. CASE id # new
    BY <1>5, <2>2 DEF SeedInv, VectorsSound
  <2>3. QED
    BY <2>1, <2>2
<1>11. VectorsSound'
  <2>1. DOMAIN pgvector' \subseteq 1 .. made' /\ DOMAIN chroma' \subseteq DOMAIN pgvector'
    BY <1>2, <1>3, <1>5 DEF SeedInv, VectorsSound
  <2>2. \A e \in Texts : Live(e)' \cap DOMAIN pgvector' \subseteq DOMAIN chroma'
    BY <1>5, <1>6 DEF SeedInv, VectorsSound
  <2>3. ASSUME NEW id \in DOMAIN chroma'
        PROVE \E e, j : Describes(chroma[id], id, e, j)'
    <3>1. PICK e, j : Describes(chroma'[id], id, e, j)
      BY <1>10
    <3>2. QED
      BY <1>2, <1>6, <3>1 DEF Describes
  <2>4. QED
    BY <1>10, <2>1, <2>2, <2>3 DEF VectorsSound
<1>12. PythonSound'
  <2> DEFINE ids == python.ids
             n == Len(ids)
  <2>1. /\ python = [ids |-> ids, vectors |-> ids, meta |-> python.meta]
        /\ ids \in Seq(DOMAIN pgvector) /\ Range(ids) = DOMAIN pgvector /\ IsInjective(ids)
        /\ DOMAIN python.meta = DOMAIN pgvector
        /\ \A id \in DOMAIN pgvector : python.meta[id] = PyMeta(pgvector[id])
    BY DEF SeedInv, PythonSound
  <2>2. python' = [ids |-> Append(ids, new), vectors |-> Append(ids, new),
                   meta |-> Overlaid(python.meta, [j \in {new} |-> PyMeta(m)])]
    <3>1. python.vectors = ids
      BY <2>1
    <3>2. python' = PyPut(python, new, m)
      BY <1>1 DEF UpsertVector, m
    <3>3. new \notin Range(python.ids)
      BY <1>1, <2>1
    <3> HIDE DEF new
    <3>4. QED
      BY <3>1, <3>2, <3>3, Zenon DEF PyPut
  <2>3. /\ python'.ids = Append(ids, new)
        /\ python'.meta = Overlaid(python.meta, [j \in {new} |-> PyMeta(m)])
        /\ python' = [ids |-> python'.ids, vectors |-> python'.ids, meta |-> python'.meta]
    BY <2>2
  <2>4. /\ n \in Nat /\ DOMAIN ids = 1 .. n /\ Len(python'.ids) = n + 1
        /\ python'.ids \in Seq(DOMAIN pgvector') /\ DOMAIN python'.ids = 1 .. n + 1
        /\ \A r \in 1 .. n : python'.ids[r] = ids[r]
        /\ python'.ids[n + 1] = new
    <3>1. n \in Nat /\ DOMAIN ids = 1 .. n
      BY <2>1, LenProperties
    <3>2. ids \in Seq(DOMAIN pgvector')
      BY <1>5, <2>1, SeqMonotonic
    <3>3. new \in DOMAIN pgvector'
      BY <1>5
    <3>4. /\ python'.ids \in Seq(DOMAIN pgvector') /\ Len(python'.ids) = n + 1
          /\ \A r \in 1 .. n : python'.ids[r] = ids[r]
          /\ python'.ids[n + 1] = new
      BY <2>3, <3>2, <3>3, AppendProperties
    <3>5. DOMAIN python'.ids = 1 .. n + 1
      BY <3>4, LenProperties
    <3>6. QED
      BY <3>1, <3>4, <3>5
  <2>5. /\ DOMAIN python'.meta = DOMAIN pgvector'
        /\ \A id \in DOMAIN pgvector' : python'.meta[id] = PyMeta(pgvector'[id])
    <3>1. python'.meta[new] = PyMeta(m)
          /\ \A id \in DOMAIN pgvector : python'.meta[id] = python.meta[id]
      BY <1>1, <2>1, <2>3 DEF Overlaid
    <3>2. DOMAIN python'.meta = DOMAIN pgvector'
      BY <1>5, <2>1, <2>3 DEF Overlaid
    <3>3. QED
      BY <1>5, <2>1, <3>1, <3>2
  <2> HIDE DEF ids, n
  <2>6. ASSUME NEW r \in DOMAIN python'.ids
        PROVE \/ r \in DOMAIN ids /\ python'.ids[r] = ids[r]
              \/ r = n + 1 /\ python'.ids[r] = new
    BY <2>4
  <2>7. new \notin Range(ids)
    BY <1>1, <2>1
  <2>8. Range(python'.ids) = DOMAIN pgvector'
    <3>1. ASSUME NEW r \in DOMAIN python'.ids PROVE python'.ids[r] \in DOMAIN pgvector'
      BY <2>4, ElementOfSeq, LenProperties
    <3>2. ASSUME NEW id \in DOMAIN pgvector'
          PROVE \E r \in DOMAIN python'.ids : python'.ids[r] = id
      <4>1. CASE id = new
        BY <2>4, <4>1
      <4>2. CASE id \in DOMAIN pgvector
        <5>1. PICK r \in DOMAIN ids : ids[r] = id
          BY <2>1, <4>2 DEF Range
        <5>2. QED
          BY <2>4, <5>1
      <4>3. QED
        BY <1>5, <4>1, <4>2
    <3>3. QED
      BY <3>1, <3>2 DEF Range
  <2>9. IsInjective(python'.ids)
    BY <2>1, <2>6, <2>7 DEF IsInjective, Range
  <2>10. QED
    BY <2>3, <2>4, <2>5, <2>8, <2>9 DEF PythonSound
<1>13. QED
  BY <1>2, <1>7, <1>11, <1>12, LookupStays DEF SeedInv

\* Leaves go from the end of a document d.
Shortened(d) ==
  /\ places' = [e \in Texts |-> places'[e]]
  /\ \A e \in Texts :
       /\ places'[e] \in Seq(1 .. made)
       /\ \A i \in DOMAIN places'[e] : i \in DOMAIN places[e] /\ places'[e][i] = places[e][i]
       /\ e # d => places'[e] = places[e]

\* Of its vectors those of G go; vectors of leaves that are gone are only left
\* where a deletion has failed.
VectorsGo(d, G) ==
  /\ \A e \in Texts : Live(e)' \cap G \cap DOMAIN pgvector' = {}
  /\ DOMAIN chroma' \subseteq DOMAIN pgvector' /\ DOMAIN pgvector' \subseteq DOMAIN pgvector
  /\ DOMAIN chroma' = DOMAIN chroma \ G
  /\ \A id \in DOMAIN pgvector' : pgvector'[id] = pgvector[id]
  /\ \A id \in DOMAIN chroma' : chroma'[id] = chroma[id]
  /\ undeleted' \subseteq Texts
  /\ \/ undeleted' = undeleted \cup {d}
     \/ undeleted' = undeleted /\ Live(d) \subseteq Live(d)' \cup G
     \/ /\ undeleted' = undeleted \ {d}
        /\ \A id \in DOMAIN chroma : chroma[id].document_id = d => id \in G

LEMMA CutSeeds ==
  ASSUME SeedInv, NEW d \in Texts, Quiet, lookup' = lookup, made' = made,
         NEW G, Shortened(d), VectorsGo(d, G), PythonSound'
  PROVE SeedInv'
<1>1. SeedTyped /\ made \in Nat
  BY DEF SeedInv, SeedTyped
<1>2. ASSUME NEW e \in Texts, NEW i \in DOMAIN places'[e]
      PROVE i \in DOMAIN places[e] /\ places'[e][i] = places[e][i]
  BY DEF Shortened
<1>3. SeedTyped'
  BY <1>1 DEF Shortened, VectorsGo, SeedTyped
<1>4. OnePlace'
  BY <1>2 DEF SeedInv, OnePlace
<1>5. \A e \in Texts : /\ Live(e)' \subseteq Live(e)
                       /\ e # d => Live(e)' = Live(e)
  BY <1>2 DEF Shortened, Live, Range
<1>6. ASSUME NEW id \in DOMAIN chroma', NEW e, NEW i, Describes(chroma[id], id, e, i)
      PROVE Describes(chroma[id], id, e, i)'
  <2>1. /\ chroma[id] = Metadata(id, e, i) /\ e \in Texts /\ i \in Nat \ {0}
        /\ id \in Live(e) \/ e \in undeleted
        /\ \A g \in Texts : \A j \in DOMAIN places[g] : places[g][j] = id => g = e /\ j = i
    BY <1>6 DEF Describes
  <2>2. chroma'[id] = chroma[id] /\ id \notin G /\ id \in DOMAIN chroma
    BY DEF VectorsGo
  <2>3. chroma[id].document_id = e
    BY <2>1 DEF Metadata
  <2>4. id \in Live(e)' \/ e \in undeleted'
    BY <1>5, <2>1, <2>2, <2>3 DEF VectorsGo
  <2>5. QED
    BY <1>2, <2>1, <2>2, <2>4 DEF Describes
<1>7. VectorsSound'
  <2>1. ASSUME NEW id \in DOMAIN chroma'
        PROVE chroma'[id] = pgvector'[id] /\ \E e, i : Describes(chroma[id], id, e, i)'
    <3>1. id \in DOMAIN chroma /\ id \in DOMAIN pgvector' /\ chroma'[id] = chroma[id]
          /\ pgvector'[id] = pgvector[id]
      BY DEF VectorsGo
    <3>2. QED
      BY <1>6, <3>1 DEF SeedInv, VectorsSound
  <2>2. \A e \in Texts : Live(e)' \cap DOMAIN pgvector' \subseteq DOMAIN chroma'
    BY <1>5 DEF SeedInv, VectorsSound, VectorsGo
  <2>3. DOMAIN pgvector' \subseteq 1 .. made' /\ DOMAIN chroma' \subseteq DOMAIN pgvector'
    BY DEF SeedInv, VectorsSound, VectorsGo
  <2>4. QED
    BY <2>1, <2>2, <2>3 DEF VectorsSound
<1>8. QED
  BY <1>3, <1>4, <1>7, LookupStays DEF SeedInv

LEMMA TruncateLeavesSeeds ==
  ASSUME SeedInv, NEW d \in Texts, Quiet, TruncateLeaves(d)
  PROVE SeedInv'
<1>1. /\ made' = made /\ lookup' = lookup
      /\ \E n \in 0 .. Len(places[d]) - 1 :
           /\ places' = [places EXCEPT ![d] = SubSeq(@, 1, n)]
           /\ \/ /\ DeleteVectorsAt({places[d][i] : i \in n + 1 .. Len(places[d])})
                 /\ undeleted' = undeleted
              \/ undeleted' = undeleted \cup {d} /\ UNCHANGED <<pgvector, chroma, python>>
  BY DEF TruncateLeaves, indexVars
<1>2. PICK n \in 0 .. Len(places[d]) - 1 :
        /\ places' = [places EXCEPT ![d] = SubSeq(@, 1, n)]
        /\ \/ /\ DeleteVectorsAt({places[d][i] : i \in n + 1 .. Len(places[d])})
              /\ undeleted' = undeleted
           \/ undeleted' = undeleted \cup {d} /\ UNCHANGED <<pgvector, chroma, python>>
  BY <1>1
<1>3. /\ SeedTyped /\ places[d] \in Seq(1 .. made) /\ Len(places[d]) \in Nat
      /\ DOMAIN places[d] = 1 .. Len(places[d]) /\ n \in 0 .. Len(places[d])
      /\ undeleted \subseteq Texts /\ places = [e \in Texts |-> places[e]]
  BY LenProperties DEF SeedInv, SeedTyped
<1>4. DOMAIN places'[d] = 1 .. n /\ \A i \in 1 .. n : places'[d][i] = places[d][i]
  <2>1. places'[d] = SubSeq(places[d], 1, n)
    BY <1>2, <1>3
  <2>2. CASE n = 0
    BY <2>1, <2>2, <1>3, SubSeqEmpty, EmptySeq
  <2>3. CASE n # 0
    BY <1>3, <2>1, <2>3, SubSeqProperties, LenProperties
  <2>4. QED
    BY <2>2, <2>3
<1>5. \A e \in Texts \ {d} : places'[e] = places[e]
  BY <1>2, <1>3
<1> DEFINE G == {places[d][i] : i \in n + 1 .. Len(places[d])}
<1>6. ASSUME NEW id \in Live(d) \ G PROVE id \in Live(d)'
  <2>1. PICK i \in DOMAIN places[d] : id = places[d][i]
    BY DEF Live, Range
  <2>2. i \in 1 .. n
    BY <1>3, <2>1
  <2>3. QED
    BY <1>4, <2>1, <2>2 DEF Live, Range
<1>7. ASSUME NEW e \in Texts PROVE Live(e)' \cap G = {}
  <2>1. SUFFICES ASSUME NEW j \in DOMAIN places'[e], NEW i \in n + 1 .. Len(places[d]),
                        places'[e][j] = places[d][i]
                 PROVE FALSE
    BY DEF Live, Range
  <2>2. i \in DOMAIN places[d] /\ i > n
    BY <1>3
  <2>3. j \in DOMAIN places[e] /\ places'[e][j] = places[e][j] /\ (e = d => j \in 1 .. n)
    BY <1>3, <1>4, <1>5
  <2>4. e = d /\ j = i
    <3>1. OnePlace /\ places[e][j] = places[d][i]
      BY <2>1, <2>3 DEF SeedInv
    <3>2. QED
      BY <2>2, <2>3, <3>1 DEF OnePlace
  <2>5. QED
    BY <1>3, <2>2, <2>3, <2>4
<1> HIDE DEF G
<1>8. Shortened(d)
  <2>1. places'[d] \in Seq(1 .. made)
    <3>1. places'[d] = SubSeq(places[d], 1, n)
      BY <1>2, <1>3
    <3>2. \A i \in 1 .. n : places[d][i] \in 1 .. made
      BY <1>3, PlaceAt
    <3>3. n \in Int /\ 1 \in Int
      BY <1>3
    <3>4. SubSeq(places[d], 1, n) \in Seq(1 .. made)
      BY <3>2, <3>3, SubSeqProperties
    <3>5. QED
      BY <3>1, <3>4
  <2>2. ASSUME NEW e \in Texts, e # d PROVE places'[e] \in Seq(1 .. made)
    BY <1>3, <1>5, <2>2 DEF SeedTyped
  <2>3. places' = [e \in Texts |-> places'[e]]
    BY <1>2, <1>3
  <2>4. \A e \in Texts : \A i \in DOMAIN places'[e] :
          i \in DOMAIN places[e] /\ places'[e][i] = places[e][i]
    BY <1>3, <1>4, <1>5
  <2>5. QED
    BY <1>5, <2>1, <2>2, <2>3, <2>4 DEF Shortened
<1>9. DOMAIN chroma \subseteq DOMAIN pgvector
  BY DEF SeedInv, VectorsSound
<1>10. CASE undeleted' = undeleted \cup {d} /\ UNCHANGED <<pgvector, chroma, python>>
  <2>1. VectorsGo(d, {})
    BY <1>3, <1>9, <1>10 DEF VectorsGo
  <2>2. PythonSound'
    BY <1>10, PythonStays DEF SeedInv
  <2>3. QED
    BY <1>1, <1>8, <2>1, <2>2, CutSeeds
<1>11. CASE DeleteVectorsAt(G) /\ undeleted' = undeleted
  <2>1. pgvector' = pgvector /\ DOMAIN chroma' = DOMAIN chroma \ G
        /\ \A id \in DOMAIN chroma' : chroma'[id] = chroma[id]
    <3>1. ASSUME NEW id \in DOMAIN chroma PROVE chroma[id].node_id = id
      BY DEF SeedInv, VectorsSound, Describes, Metadata
    <3>2. {id \in DOMAIN chroma : chroma[id].node_id \in G} = DOMAIN chroma \cap G
      BY <3>1
    <3>3. chroma' = Restrict(chroma, DOMAIN chroma \ (DOMAIN chroma \cap G))
      BY <1>11, <3>2 DEF DeleteVectorsAt, ChromaDeleteNodes, ChromaDelete
    <3>4. QED
      BY <1>11, <3>3 DEF DeleteVectorsAt, PgDeleteNodes, Restrict
  <2>2. VectorsGo(d, G)
    BY <1>3, <1>6, <1>7, <1>9, <1>11, <2>1 DEF VectorsGo
  <2>3. PythonSound'
    BY <1>11, <2>1, PythonStays DEF SeedInv, DeleteVectorsAt, PyDeleteNodes
  <2>4. QED
    BY <1>1, <1>8, <2>2, <2>3, CutSeeds
<1>12. QED
  BY <1>2, <1>10, <1>11 DEF G

LEMMA ClearLeavesSeeds ==
  ASSUME SeedInv, NEW d \in Texts, Quiet, ClearLeaves(d)
  PROVE SeedInv'
<1>1. /\ made' = made /\ lookup' = lookup /\ places' = [places EXCEPT ![d] = <<>>]
      /\ \/ DeleteVectorsOf(d) /\ undeleted' = undeleted \ {d}
         \/ undeleted' = undeleted \cup {d} /\ UNCHANGED <<pgvector, chroma, python>>
  BY DEF ClearLeaves, indexVars
<1>2. /\ SeedTyped /\ undeleted \subseteq Texts /\ places = [e \in Texts |-> places[e]]
      /\ DOMAIN chroma \subseteq DOMAIN pgvector
  BY DEF SeedInv, SeedTyped, VectorsSound
<1>3. places'[d] = <<>> /\ \A e \in Texts \ {d} : places'[e] = places[e]
  BY <1>1, <1>2
<1>4. Shortened(d)
  <2>1. places' = [e \in Texts |-> places'[e]]
    BY <1>1, <1>2
  <2>2. \A e \in Texts : places'[e] \in Seq(1 .. made)
    <3>1. places'[d] \in Seq(1 .. made)
      BY <1>3, EmptySeq
    <3>2. \A e \in Texts \ {d} : places'[e] \in Seq(1 .. made)
      BY <1>2, <1>3 DEF SeedTyped
    <3>3. QED
      BY <3>1, <3>2
  <2>3. \A e \in Texts : \A i \in DOMAIN places'[e] :
          i \in DOMAIN places[e] /\ places'[e][i] = places[e][i]
    BY <1>3
  <2>4. QED
    BY <1>3, <2>1, <2>2, <2>3 DEF Shortened
<1>5. Live(d)' = {}
  BY <1>3 DEF Live, Range
<1>6. CASE undeleted' = undeleted \cup {d} /\ UNCHANGED <<pgvector, chroma, python>>
  <2>1. VectorsGo(d, {})
    BY <1>2, <1>6 DEF VectorsGo
  <2>2. PythonSound'
    BY <1>6, PythonStays DEF SeedInv
  <2>3. QED
    BY <1>1, <1>4, <2>1, <2>2, CutSeeds
<1>7. CASE DeleteVectorsOf(d) /\ undeleted' = undeleted \ {d}
  <2> DEFINE G == {id \in DOMAIN chroma : chroma[id].document_id = d}
  <2>1. /\ DOMAIN pgvector' = {id \in DOMAIN pgvector : pgvector[id].document_id # d}
        /\ \A id \in DOMAIN pgvector' : pgvector'[id] = pgvector[id]
        /\ DOMAIN chroma' = DOMAIN chroma \ G
        /\ \A id \in DOMAIN chroma' : chroma'[id] = chroma[id]
    BY <1>7 DEF DeleteVectorsOf, PgDeleteDocument, ChromaDelete, Restrict
  <2>2. ASSUME NEW id \in DOMAIN chroma PROVE chroma[id] = pgvector[id]
    BY DEF SeedInv, VectorsSound
  <2>3. DOMAIN chroma' \subseteq DOMAIN pgvector'
    BY <1>2, <2>1, <2>2
  <2>4. \A e \in Texts : Live(e)' \cap G \cap DOMAIN pgvector' = {}
    BY <1>2, <2>1, <2>2
  <2> HIDE DEF G
  <2>5. VectorsGo(d, G)
    <3>1. \A id \in DOMAIN chroma : chroma[id].document_id = d => id \in G
      BY DEF G
    <3>2. QED
      BY <1>2, <1>7, <2>1, <2>3, <2>4, <3>1 DEF VectorsGo
  <2>6. PythonSound'
    <3> DEFINE ids == python.ids
               keep == {id \in Range(ids) : python.meta[id].document_id # d}
               left == IdsKept(ids, keep)
    <3>1. /\ python = [ids |-> ids, vectors |-> ids, meta |-> python.meta]
          /\ ids \in Seq(DOMAIN pgvector) /\ Range(ids) = DOMAIN pgvector /\ IsInjective(ids)
          /\ DOMAIN python.meta = DOMAIN pgvector
          /\ \A id \in DOMAIN pgvector : python.meta[id] = PyMeta(pgvector[id])
      BY DEF SeedInv, PythonSound
    <3>2. left \in Seq(DOMAIN pgvector) /\ Range(left) = Range(ids) \cap keep /\ IsInjective(left)
      BY <3>1, IdsKeptAre
    <3>3. Range(left) = DOMAIN pgvector'
      <4>1. ASSUME NEW id \in DOMAIN pgvector
            PROVE python.meta[id].document_id = pgvector[id].document_id
        BY <3>1, MetaKept
      <4>2. QED
        BY <2>1, <3>1, <3>2, <4>1
    <3>4. \A id \in Range(ids) : PyVector(id) = id
      BY <3>1, PyVectorIs DEF SeedInv
    <3> HIDE DEF left, keep
    <3>5. left \in Seq(DOMAIN pgvector')
      BY <3>2, <3>3, LenProperties, ElementOfSeq, SeqDef DEF Range
    <3>6. [i \in DOMAIN left |-> PyVector(left[i])] = left
      <4>1. \A i \in DOMAIN left : PyVector(left[i]) = left[i]
        BY <3>2, <3>4 DEF Range
      <4>2. left = [i \in DOMAIN left |-> left[i]]
        BY <3>2, LenProperties
      <4>3. QED
        BY <4>1, <4>2
    <3>7. python' = [ids |-> left, vectors |-> left, meta |-> Restrict(python.meta, Range(left))]
      BY <1>7, <3>6 DEF DeleteVectorsOf, PyDeleteDocument, PyKeptWithout, left, keep
    <3>8. python'.ids = left /\ python' = [ids |-> left, vectors |-> left, meta |-> python'.meta]
          /\ python'.meta = Restrict(python.meta, Range(left))
      BY <3>7
    <3>9. /\ DOMAIN python'.meta = DOMAIN pgvector'
          /\ \A id \in DOMAIN pgvector' : python'.meta[id] = PyMeta(pgvector'[id])
      BY <2>1, <3>1, <3>3, <3>8 DEF Restrict
    <3>10. QED
      BY <3>2, <3>3, <3>5, <3>8, <3>9 DEF PythonSound
  <2>7. QED
    BY <1>1, <1>4, <2>5, <2>6, CutSeeds
<1>8. QED
  BY <1>1, <1>6, <1>7

-----------------------------------------------------------------------------
(* The query *)

\* It changes nothing but itself.
LEMMA LookupChanges ==
  ASSUME SeedInv, UNCHANGED <<indexVars, places, made, undeleted>>
  PROVE SeedTyped' /\ OnePlace' /\ VectorsSound' /\ PythonSound'
<1>1. /\ pgvector' = pgvector /\ chroma' = chroma /\ python' = python
      /\ places' = places /\ made' = made /\ undeleted' = undeleted
  BY DEF indexVars
<1>2. SeedTyped' /\ OnePlace'
  BY <1>1 DEF SeedInv, SeedTyped, OnePlace
<1>3. VectorsSound'
  BY <1>1 DEF SeedInv, VectorsSound, Describes, Live
<1>4. PythonSound'
  BY <1>1, PythonStays DEF SeedInv
<1>5. QED
  BY <1>2, <1>3, <1>4

LEMMA AskSeedsSeeds ==
  ASSUME SeedInv, NEW d \in Texts, AskSeeds(d)
  PROVE SeedInv'
<1>1. PICK first \in DOMAIN places[d], last \in DOMAIN places[d],
           verbatim \in 0 .. 1, seeds \in -1 .. MostSeeds :
        LET whole == first = 1 /\ last = Len(places[d])
            horizon == Max({first, last + 1 - verbatim}) - 1
            wanted == IF seeds = -1 THEN ConservativeSeeds(Budget) ELSE seeds
        IN lookup' =
             [pc |-> IF wanted = 0 THEN "answered" ELSE "embedding",
              document |-> d, wanted |-> wanted, lexical |-> FALSE,
              filters |-> Filters(d, IF verbatim = 0 THEN None ELSE horizon,
                                  IF whole THEN None ELSE first - 1,
                                  IF whole THEN None ELSE last),
              seeds |-> {}]
  BY DEF AskSeeds
<1> DEFINE wanted == IF seeds = -1 THEN ConservativeSeeds(Budget) ELSE seeds
<1>2. wanted \in Nat
  <2>1. ConservativeSeeds(Budget) \in Nat
    <3>1. Budget \in Nat /\ Budget >= 1
      BY SeedConstants
    <3>2. Max({1, Budget}) = Budget
      BY <3>1 DEF Max
    <3>3. QED
      BY <3>1, <3>2 DEF ConservativeSeeds
  <2>2. QED
    BY <2>1, SeedConstants
<1>3. first \in Nat /\ last \in Nat
  BY PlaceAt DEF SeedInv
<1> HIDE DEF wanted
<1>4. /\ lookup'.pc = IF wanted = 0 THEN "answered" ELSE "embedding"
      /\ lookup' = [pc |-> lookup'.pc, document |-> lookup'.document, wanted |-> lookup'.wanted,
                    lexical |-> lookup'.lexical, filters |-> lookup'.filters,
                    seeds |-> lookup'.seeds]
      /\ lookup'.document = d /\ lookup'.wanted = wanted
      /\ lookup'.filters.document = d
      /\ lookup'.filters.from # None => lookup'.filters.from = first - 1 /\ lookup'.filters.to = last
  BY <1>1 DEF wanted, Filters
<1>5. LookupSound'
  BY <1>2, <1>3, <1>4 DEF LookupSound
<1>6. SeedsAreFound'
  BY <1>2, <1>4 DEF SeedsAreFound
<1>7. SeedTyped' /\ OnePlace' /\ VectorsSound' /\ PythonSound'
  BY LookupChanges DEF AskSeeds
<1>8. QED
  BY <1>5, <1>6, <1>7 DEF SeedInv

LEMMA IdleSeeds ==
  ASSUME SeedInv, EmbeddingFails \/ SeedsReturn
  PROVE SeedInv'
<1>1. lookup'.pc = "idle"
  BY DEF EmbeddingFails, SeedsReturn, NoLookup
<1>2. SeedTyped' /\ OnePlace' /\ VectorsSound' /\ PythonSound'
  BY LookupChanges DEF EmbeddingFails, SeedsReturn
<1>3. LookupSound' /\ SeedsAreFound'
  BY <1>1 DEF LookupSound, SeedsAreFound
<1>4. QED
  BY <1>2, <1>3 DEF SeedInv

LEMMA SmallerOf ==
  ASSUME NEW a \in Nat, NEW b \in Nat
  PROVE Min({a, b}) = IF a <= b THEN a ELSE b
<1> DEFINE m == IF a <= b THEN a ELSE b
<1>1. m \in {a, b} /\ \A y \in {a, b} : m <= y
  OBVIOUS
<1>2. ASSUME NEW x \in {a, b}, \A y \in {a, b} : x <= y PROVE x = m
  BY <1>2
<1>3. QED
  BY <1>1, <1>2 DEF Min

LEMMA SomeAre ==
  ASSUME NEW n \in Nat, NEW S, IsFiniteSet(S), NEW s \in Some(n, S)
  PROVE /\ s \subseteq S /\ IsFiniteSet(s)
        /\ Cardinality(s) = IF n <= Cardinality(S) THEN n ELSE Cardinality(S)
<1>1. Cardinality(S) \in Nat
  BY FS_CardinalityType
<1>2. s \subseteq S /\ Cardinality(s) = Min({n, Cardinality(S)})
  BY DEF Some, kSubset
<1>3. QED
  BY <1>1, <1>2, SmallerOf, FS_Subset

\* What an answer is made of, whatever the backend.
LEMMA SelectSeedsAnswers ==
  ASSUME SeedInv, SelectSeeds
  PROVE /\ SeedTyped' /\ OnePlace' /\ VectorsSound' /\ PythonSound' /\ LookupSound'
        /\ lookup.pc = "embedding" /\ lookup'.pc = "answered"
        /\ lookup'.document = lookup.document /\ lookup'.wanted = lookup.wanted
        /\ lookup'.filters = lookup.filters
        /\ \E near \in Some(lookup.wanted * Multiplier, Found(lookup.filters)) : \E hits :
             \E chosen \in Diverse(Fused(near, hits)) :
               /\ lookup'.seeds = chosen \cap Live(lookup.document)
               /\ hits \subseteq Live(lookup.document) /\ (~lookup'.lexical => hits = {})
<1> DEFINE k == lookup.wanted * Multiplier
           F == Found(lookup.filters)
           L == Live(lookup.document)
           Answers(lexical, chosen) ==
             lookup' = [lookup EXCEPT !.pc = "answered", !.lexical = lexical,
                                      !.seeds = chosen \cap L]
<1>1. /\ lookup.pc = "embedding"
      /\ UNCHANGED <<indexVars, places, made, undeleted>>
      /\ \E near \in Some(k, F) : \E lexical \in BOOLEAN :
           \E hits \in IF lexical /\ near # {} THEN Hits(k) ELSE {{}} :
             \E chosen \in Diverse(Fused(near, hits)) : Answers(lexical, chosen)
  BY Zenon DEF SelectSeeds
<1> HIDE DEF k, F, L, Answers
<1>2. PICK near \in Some(k, F) : \E lexical \in BOOLEAN :
           \E hits \in IF lexical /\ near # {} THEN Hits(k) ELSE {{}} :
             \E chosen \in Diverse(Fused(near, hits)) : Answers(lexical, chosen)
  BY <1>1
<1>3. PICK lexical \in BOOLEAN :
           \E hits \in IF lexical /\ near # {} THEN Hits(k) ELSE {{}} :
             \E chosen \in Diverse(Fused(near, hits)) : Answers(lexical, chosen)
  BY <1>2
<1>4. PICK hits \in IF lexical /\ near # {} THEN Hits(k) ELSE {{}} :
             \E chosen \in Diverse(Fused(near, hits)) : Answers(lexical, chosen)
  BY <1>3
<1>5. PICK chosen \in Diverse(Fused(near, hits)) : Answers(lexical, chosen)
  BY <1>4
<1>6. /\ lookup.document \in Texts /\ lookup.wanted \in Nat /\ LookupSound
      /\ lookup = [pc |-> lookup.pc, document |-> lookup.document, wanted |-> lookup.wanted,
                   lexical |-> lookup.lexical, filters |-> lookup.filters, seeds |-> lookup.seeds]
  BY <1>1 DEF SeedInv, LookupSound
<1>7. SeedTyped' /\ OnePlace' /\ VectorsSound' /\ PythonSound'
  BY <1>1, LookupChanges
<1>8. /\ lookup'.pc = "answered" /\ lookup'.lexical = lexical /\ lookup'.seeds = chosen \cap L
      /\ lookup'.document = lookup.document /\ lookup'.wanted = lookup.wanted
      /\ lookup'.filters = lookup.filters
      /\ lookup' = [pc |-> lookup'.pc, document |-> lookup'.document, wanted |-> lookup'.wanted,
                    lexical |-> lookup'.lexical, filters |-> lookup'.filters,
                    seeds |-> lookup'.seeds]
  BY <1>5, <1>6 DEF Answers
<1>9. LookupSound'
  BY <1>1, <1>6, <1>8 DEF LookupSound
<1>10. hits \subseteq L /\ (~lexical => hits = {})
  BY DEF Hits, kSubset, L
<1>11. QED
  BY <1>1, <1>5, <1>7, <1>8, <1>9, <1>10 DEF k, F, L

\* The filters mean the same to the three indexes.
LEMMA PgFilters ==
  ASSUME NEW meta, NEW f
  PROVE (\A clause \in PgWhere(f) : ClauseHolds(clause, meta))
        <=> /\ meta.document_id = f.document
            /\ f.before # None => meta.span_end < f.before
            /\ f.from # None => meta.span_start < f.to /\ meta.span_end > f.from
<1> DEFINE a == <<"document_id", "=", f.document>>
           b == <<"span_end", "<", f.before>>
           c == <<"span_start", "<", f.to>>
           e == <<"span_end", ">", f.from>>
           H(clause) == ClauseHolds(clause, meta)
<1>1. /\ H(a) <=> meta.document_id = f.document
      /\ H(b) <=> meta.span_end < f.before
      /\ H(c) <=> meta.span_start < f.to
      /\ H(e) <=> meta.span_end > f.from
  BY Clauses
<1>2. PgWhere(f) = {a} \cup (IF f.before = None THEN {} ELSE {b})
                       \cup (IF f.from = None THEN {} ELSE {c, e})
  BY DEF PgWhere
<1> HIDE DEF a, b, c, e, H
<1>3. (\A clause \in PgWhere(f) : H(clause)) <=> H(a) /\ (f.before # None => H(b))
                                                  /\ (f.from # None => H(c) /\ H(e))
  BY <1>2
<1>4. QED
  BY <1>1, <1>3 DEF H

LEMMA SearchesAgree ==
  ASSUME VectorsSound, PythonSound, NEW f
  PROVE PySearch(f) = PgSearch(f) /\ ChromaSearch(f) = ChromaGet(PgSearch(f))
<1> DEFINE Passes(meta) ==
             /\ meta.document_id = f.document
             /\ f.before # None => meta.span_end < f.before
             /\ f.from # None => meta.span_start < f.to /\ meta.span_end > f.from
<1>1. \A meta : Passes(PyMeta(meta)) <=> Passes(meta)
  BY MetaKept
<1>2. PySearch(f) = {id \in Range(python.ids) : Passes(python.meta[id])}
  BY DEF PySearch, Range
<1>3. PgSearch(f) = {id \in DOMAIN pgvector : Passes(pgvector[id])}
  BY PgFilters DEF PgSearch
<1>4. ChromaSearch(f) = {id \in DOMAIN chroma : Passes(chroma[id])}
  BY ChromaFilters DEF ChromaSearch, ChromaGet
<1> HIDE DEF Passes
<1>5. PySearch(f) = PgSearch(f)
  BY <1>1, <1>2, <1>3 DEF PythonSound
<1>6. ChromaSearch(f) = ChromaGet(PgSearch(f))
  BY <1>3, <1>4 DEF ChromaGet, VectorsSound
<1>7. QED
  BY <1>5, <1>6

LEMMA SelectSeedsFound ==
  ASSUME SeedInv, Backend = "chroma", SelectSeeds
  PROVE SeedsAreFound'
<1> DEFINE k == lookup.wanted * Multiplier
           F == ChromaSearch(lookup.filters)
           L == Live(lookup.document)
<1>1. Found(lookup.filters) = F
  BY DEF Found
<1>2. /\ lookup.pc = "embedding" /\ lookup'.pc = "answered"
      /\ lookup'.document = lookup.document /\ lookup'.wanted = lookup.wanted
      /\ lookup'.filters = lookup.filters
      /\ places' = places /\ pgvector' = pgvector /\ undeleted' = undeleted
  BY SelectSeedsAnswers DEF SelectSeeds, indexVars
<1> HIDE DEF k, F, L
<1>3. \E near \in Some(k, F) : \E hits : \E chosen \in Diverse(Fused(near, hits)) :
        /\ lookup'.seeds = chosen \cap L
        /\ hits \subseteq L /\ (~lookup'.lexical => hits = {})
  BY <1>1, SelectSeedsAnswers DEF k, L
<1>4. PICK near \in Some(k, F) : \E hits : \E chosen \in Diverse(Fused(near, hits)) :
        /\ lookup'.seeds = chosen \cap L
        /\ hits \subseteq L /\ (~lookup'.lexical => hits = {})
  BY <1>3
<1>5. PICK hits : \E chosen \in Diverse(Fused(near, hits)) :
        /\ lookup'.seeds = chosen \cap L
        /\ hits \subseteq L /\ (~lookup'.lexical => hits = {})
  BY <1>4
<1>6. PICK chosen \in Diverse(Fused(near, hits)) :
        /\ lookup'.seeds = chosen \cap L
        /\ hits \subseteq L /\ (~lookup'.lexical => hits = {})
  BY <1>5
<1>7. /\ lookup.document \in Texts /\ lookup.wanted \in Nat
      /\ SeedTyped /\ VectorsSound /\ LookupSound /\ lookup.pc # "idle" /\ made \in Nat
  BY <1>2 DEF SeedInv, LookupSound, SeedTyped
<1>8. k \in Nat /\ k >= lookup.wanted
  <2>1. Multiplier \in Nat /\ Multiplier >= 1
    BY SeedConstants
  <2>2. QED
    BY <1>7, <2>1 DEF k
<1>9. IsFiniteSet(1 .. made) /\ DOMAIN chroma \subseteq 1 .. made /\ F \subseteq DOMAIN chroma
  <2>1. IsFiniteSet(1 .. made)
    BY <1>7, FS_Interval
  <2>2. DOMAIN chroma \subseteq 1 .. made /\ F \subseteq DOMAIN chroma
    BY <1>7 DEF VectorsSound, ChromaSearch, ChromaGet, F
  <2>3. QED
    BY <2>1, <2>2
<1>10. IsFiniteSet(F)
  BY <1>9, FS_Subset
<1>11. Scope' = Scope /\ Scope = F \cap L
  <2>1. Scope' = Scope
    BY <1>2 DEF Scope
  <2>2. QED
    BY <1>7, <2>1, FoundIsScope DEF F, L
<1>12. /\ near \subseteq F /\ IsFiniteSet(near)
       /\ Cardinality(near) = IF k <= Cardinality(F) THEN k ELSE Cardinality(F)
  BY <1>8, <1>10, SomeAre
<1> DEFINE C == Fused(near, hits)
<1>13. near \subseteq C /\ C \subseteq near \cup (hits \cap DOMAIN chroma) /\ (hits = {} => C = near)
  BY DEF Fused, Vectors, ChromaGet
<1>14. IsFiniteSet(C)
  <2>1. C \subseteq 1 .. made
    BY <1>9, <1>12, <1>13
  <2>2. QED
    BY <1>9, <2>1, FS_Subset
<1> HIDE DEF C
<1>15. /\ chosen \subseteq C
       /\ Cardinality(chosen) =
            IF lookup.wanted <= Cardinality(C) THEN lookup.wanted ELSE Cardinality(C)
  BY <1>7, <1>14, SomeAre DEF Diverse, C
<1>16. ASSUME ~lookup'.lexical PROVE chosen \cap L \subseteq Scope
  BY <1>6, <1>11, <1>12, <1>13, <1>15, <1>16
<1>17. ASSUME lookup.document \notin undeleted
       PROVE Cardinality(chosen \cap L) >= Min({lookup.wanted, Cardinality(Scope)})
  <2>1. F \subseteq L
    BY <1>7, <1>17, FoundIsLive DEF F, L
  <2>2. Scope = F /\ chosen \cap L = chosen
    BY <1>6, <1>11, <1>12, <1>13, <1>15, <2>1
  <2>3. /\ Cardinality(near) <= Cardinality(C)
        /\ Cardinality(near) \in Nat /\ Cardinality(C) \in Nat /\ Cardinality(F) \in Nat
    BY <1>10, <1>12, <1>13, <1>14, FS_Subset, FS_CardinalityType
  <2>4. Min({lookup.wanted, Cardinality(F)}) =
          IF lookup.wanted <= Cardinality(F) THEN lookup.wanted ELSE Cardinality(F)
    BY <1>7, <2>3, SmallerOf
  <2>5. QED
    BY <1>7, <1>8, <1>12, <1>15, <2>2, <2>3, <2>4
<1>18. QED
  BY <1>2, <1>6, <1>11, <1>16, <1>17 DEF SeedsAreFound

-----------------------------------------------------------------------------
(* The theorems *)

\* What the vector indexes hold, and what a query gets from them, in every
\* state: each leaf has one place, Chroma describes it where it is or was, and
\* has every vector of a leaf that the table of PostgreSQL has.
THEOREM SeedsAreSound ==
  SeedSpec => []SeedInv
<1>1. SeedInit => SeedInv
  BY InitSeeds
<1>2. SeedInv /\ [SeedNext]_seedVars => SeedInv'
  <2> SUFFICES ASSUME SeedInv, [SeedNext]_seedVars PROVE SeedInv'
    OBVIOUS
  <2>1. ASSUME NEW d \in Texts, Quiet,
               AppendLeaf(d) \/ EmbedLeaf(d) \/ TruncateLeaves(d) \/ ClearLeaves(d)
        PROVE SeedInv'
    BY <2>1, AppendLeafSeeds, EmbedLeafSeeds, TruncateLeavesSeeds, ClearLeavesSeeds
  <2>2. ASSUME NEW d \in Texts, AskSeeds(d) PROVE SeedInv'
    BY <2>2, AskSeedsSeeds
  <2>3. CASE SelectSeeds
    BY <2>3, SelectSeedsAnswers, SelectSeedsFound DEF SeedInv
  <2>4. CASE EmbeddingFails \/ SeedsReturn
    BY <2>4, IdleSeeds
  <2>5. CASE UNCHANGED seedVars
    <3>1. UNCHANGED <<indexVars, places, made, undeleted>> /\ lookup' = lookup
          /\ pgvector' = pgvector
      BY <2>5 DEF seedVars, indexVars
    <3>2. SeedTyped' /\ OnePlace' /\ VectorsSound' /\ PythonSound'
      BY <3>1, LookupChanges
    <3>3. LookupSound' /\ (Backend = "chroma" => SeedsAreFound')
      BY <3>1 DEF SeedInv, LookupSound, SeedsAreFound, Scope
    <3>4. QED
      BY <3>2, <3>3 DEF SeedInv
  <2>6. QED
    BY <2>1, <2>2, <2>3, <2>4, <2>5 DEF SeedNext
<1>3. QED
  BY <1>1, <1>2, PTL DEF SeedSpec

\* A query gets as many seeds as it asked for or all there are, whatever was
\* appended, embedded, truncated and cleared before and while it waited, and
\* without BM25 none from outside of its window or from the verbatim tail.  With
\* the other two backends the vectors of truncated leaves stay, and take places.
THEOREM SeedsAreFoundInChroma ==
  ASSUME Backend = "chroma"
  PROVE SeedSpec => []SeedsAreFound
<1>1. SeedInv => SeedsAreFound
  BY DEF SeedInv
<1>2. QED
  BY <1>1, SeedsAreSound, PTL

\* The three indexes hold the same vectors and find the same, but for those of
\* truncated leaves, which only Chroma forgets.
THEOREM IndexesHoldTheSame ==
  SeedSpec => []IndexesAgree
<1>1. ASSUME SeedInv PROVE IndexesAgree
  <2>1. /\ Range(python.ids) = DOMAIN pgvector /\ IsInjective(python.ids)
        /\ DOMAIN chroma \subseteq DOMAIN pgvector
    BY <1>1 DEF SeedInv, PythonSound, VectorsSound
  <2>2. ASSUME NEW id \in DOMAIN pgvector
        PROVE /\ PyVector(id) = id /\ python.meta[id] = PyMeta(pgvector[id])
              /\ id \in DOMAIN chroma \/ \A d \in Texts : id \notin Live(d)
              /\ id \in DOMAIN chroma => chroma[id] = pgvector[id]
    BY <1>1, PyVectorIs DEF SeedInv, PythonSound, VectorsSound
  <2>3. ASSUME NEW f
        PROVE PySearch(f) = PgSearch(f) /\ ChromaSearch(f) = ChromaGet(PgSearch(f))
    BY <1>1, SearchesAgree DEF SeedInv
  <2>4. QED
    BY <2>1, <2>2, <2>3 DEF IndexesAgree
<1>2. QED
  BY <1>1, SeedsAreSound, PTL
=============================================================================
