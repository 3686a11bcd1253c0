----------------------- MODULE CoordinateForestProofs -----------------------
(***************************************************************************)
(* Facts about forests as sets of coordinates, for forests of any size:    *)
(* what appends, summaries and truncations leave supported, and why the    *)
(* pairs that can be summarised begin at different leaves.  The engine's   *)
(* proofs rest on them.                                                    *)
(***************************************************************************)
EXTENDS CoordinateForest, FiniteSetTheorems, WellFoundedInduction, TLAPS

Coordinates == Nat \X Nat

\* A set of numbers that is not empty has a least one.
LEMMA LeastNat ==
  ASSUME NEW T \in SUBSET Nat, T # {}
  PROVE  \E x \in T : \A y \in T : x <= y
<1>1. PICK x \in T : \A y \in T : <<y, x>> \notin OpToRel(<, Nat)
  BY NatLessThanWellFounded, WFMin
<1>2. \A y \in T : ~(y < x)
  BY <1>1 DEF OpToRel
<1> QED BY <1>2

\* The image of a finite set is finite.
LEMMA FiniteImage ==
  ASSUME NEW S, IsFiniteSet(S), NEW f
  PROVE  IsFiniteSet({f[x] : x \in S})
<1> DEFINE T == {f[x] : x \in S}
           g == [x \in S |-> f[x]]
<1>1. g \in Surjection(S, T)
  BY DEF Surjection
<1> QED BY <1>1, FS_Surjection

\* A finite set of numbers with no gap below any of them is 0 .. n - 1.
LEMMA NumbersInARow ==
  ASSUME NEW S \in SUBSET Nat, IsFiniteSet(S), \A i \in S : i # 0 => i - 1 \in S
  PROVE  Cardinality(S) \in Nat /\ S = 0 .. (Cardinality(S) - 1)
<1> DEFINE c == Cardinality(S)
<1>1. c \in Nat
  BY FS_CardinalityType
<1>2. PICK x \in Nat : x \notin S
  <2> SUFFICES ASSUME Nat \subseteq S PROVE FALSE
    OBVIOUS
  <2>1. IsFiniteSet(0 .. c) /\ Cardinality(0 .. c) = c + 1
    BY <1>1, FS_Interval
  <2>2. 0 .. c \in SUBSET S
    BY <1>1
  <2>3. Cardinality(0 .. c) <= c
    BY <2>2, FS_Subset
  <2> HIDE DEF c
  <2> QED BY <1>1, <2>1, <2>3
<1>3. PICK k \in Nat \ S : \A y \in Nat \ S : k <= y
  <2> DEFINE T == Nat \ S
  <2>1. T \in SUBSET Nat /\ T # {}
    BY <1>2
  <2> HIDE DEF T
  <2>2. \E z \in T : \A y \in T : z <= y
    BY <2>1, LeastNat
  <2> QED BY <2>2 DEF T
<1>4. 0 .. (k - 1) \subseteq S
  BY <1>3
<1>5. ASSUME NEW i \in S, i > k PROVE FALSE
  <2> DEFINE B == {j \in S : j > k}
  <2>1. B \in SUBSET Nat /\ B # {}
    BY <1>5
  <2>2. PICK b \in B : \A y \in B : b <= y
    <3> HIDE DEF B
    <3> QED BY <2>1, LeastNat
  <2>3. b - 1 \in S /\ b - 1 \in Nat /\ b - 1 >= k
    BY <1>3, <2>2
  <2>4. b - 1 # k
    BY <1>3, <2>3
  <2>5. b - 1 \in B
    BY <1>3, <2>3, <2>4
  <2> QED BY <2>2, <2>3, <2>5
<1>6. S = 0 .. (k - 1)
  <2>1. \A i \in S : i \in Nat /\ i # k /\ ~(i > k)
    BY <1>3, <1>5
  <2>2. S \subseteq 0 .. (k - 1)
    BY <1>3, <2>1
  <2> QED BY <1>4, <2>2
<1>7. Cardinality(0 .. (k - 1)) = k
  BY <1>3, FS_Interval
<1> QED BY <1>3, <1>6, <1>7

-----------------------------------------------------------------------------
(* Coordinates *)

\* A node stands over at least one leaf, and over twice as many as its children
\* (the recursion of Width ends at 0, so its equation, step 0, defines it).
LEMMA WidthDoubles ==
  /\ Width[0] = 1
  /\ \A h \in Nat : Width[h] \in Nat /\ Width[h] >= 1 /\ Width[h + 1] = 2 * Width[h]
<1>0. Width = [h \in Nat |-> IF h = 0 THEN 1 ELSE 2 * Width[h - 1]]
  BY DEF Width
<1>1. Width[0] = 1
  BY <1>0
<1>2. \A h \in Nat : Width[h + 1] = 2 * Width[h]
  <2> TAKE h \in Nat
  <2>1. h + 1 \in Nat /\ h + 1 # 0 /\ (h + 1) - 1 = h
    OBVIOUS
  <2>2. \A n \in Nat : n # 0 => Width[n] = 2 * Width[n - 1]
    BY <1>0
  <2> QED BY <2>1, <2>2
<1> DEFINE Good(h) == Width[h] \in Nat /\ Width[h] >= 1
           Bad == {h \in Nat : ~Good(h)}
<1>3. Bad = {}
  <2> SUFFICES ASSUME Bad # {} PROVE FALSE
    OBVIOUS
  <2>1. PICK h \in Bad : \A k \in Bad : h <= k
    <3> HIDE DEF Good
    <3>1. Bad \in SUBSET Nat
      OBVIOUS
    <3> QED BY <3>1, LeastNat
  <2>2. h # 0
    BY <2>1, <1>1
  <2>3. h - 1 \in Nat /\ (h - 1) + 1 = h
    BY <2>1, <2>2
  <2>4. Good(h - 1)
    <3> HIDE DEF Good
    <3> QED BY <2>1, <2>3
  <2>5. Width[h] = 2 * Width[h - 1]
    BY <1>2, <2>3
  <2> QED BY <2>1, <2>4, <2>5
<1> QED BY <1>1, <1>2, <1>3

\* The two coordinates under <<h + 1, i>>.
LEMMA ChildrenBelow ==
  ASSUME NEW h \in Nat, NEW i \in Nat
  PROVE  ChildrenOf(<<h + 1, i>>) = {<<h, 2 * i>>, <<h, 2 * i + 1>>}
BY DEF ChildrenOf

\* The first child starts where its parent does, both end before it ends.
LEMMA ChildrenAreWithin ==
  ASSUME NEW h \in Nat, NEW i \in Nat
  PROVE  /\ FirstLeaf(<<h, 2 * i>>) = FirstLeaf(<<h + 1, i>>)
         /\ PastLeaf(<<h, 2 * i>>) <= PastLeaf(<<h + 1, i>>)
         /\ PastLeaf(<<h, 2 * i + 1>>) = PastLeaf(<<h + 1, i>>)
<1>1. PICK w \in Nat : w = Width[h] /\ Width[h + 1] = 2 * w
  BY WidthDoubles
<1>2. FirstLeaf(<<h, 2 * i>>) = (2 * i) * w /\ FirstLeaf(<<h + 1, i>>) = i * (2 * w)
  BY <1>1 DEF FirstLeaf
<1>3. /\ PastLeaf(<<h, 2 * i>>) = (2 * i + 1) * w
      /\ PastLeaf(<<h, 2 * i + 1>>) = ((2 * i + 1) + 1) * w
      /\ PastLeaf(<<h + 1, i>>) = (i + 1) * (2 * w)
  BY <1>1 DEF PastLeaf
<1>4. (2 * i) * w = i * (2 * w) /\ ((2 * i + 1) + 1) * w = (i + 1) * (2 * w)
  OBVIOUS
<1>5. (2 * i + 1) * w <= (i + 1) * (2 * w)
  OBVIOUS
<1> QED BY <1>2, <1>3, <1>4, <1>5

\* Two nodes of one height that start at the same leaf are one.
LEMMA SameStart ==
  ASSUME NEW h \in Nat, NEW i \in Nat, NEW k \in Nat,
         FirstLeaf(<<h, i>>) = FirstLeaf(<<h, k>>)
  PROVE  i = k
<1>1. PICK w \in Nat : w = Width[h] /\ w >= 1
  BY WidthDoubles
<1>2. i * w = k * w
  BY <1>1 DEF FirstLeaf
<1> QED BY <1>1, <1>2

\* Two left nodes with the same parent are one.
LEMMA SameParent ==
  ASSUME NEW c \in Coordinates, NEW e \in Coordinates,
         c[2] % 2 = 0, e[2] % 2 = 0, ParentOf(c) = ParentOf(e)
  PROVE  c = e
<1>1. c[1] = e[1] /\ c[2] = e[2]
  BY DEF Coordinates, ParentOf
<1> QED BY <1>1 DEF Coordinates

-----------------------------------------------------------------------------
(* What appends, summaries and truncations leave supported *)

LEMMA LeavesSupport ==
  ASSUME NEW F \in SUBSET Coordinates, Supported(F),
         NEW L \in SUBSET Coordinates, \A c \in L : c[1] = 0
  PROVE  Supported(F \cup L)
BY DEF Supported

\* A summary over two siblings that are there.
LEMMA SummarySupports ==
  ASSUME NEW F \in SUBSET Coordinates, Supported(F),
         NEW c \in F, c[2] % 2 = 0, SiblingOf(c) \in F
  PROVE  Merged(F, c) \in SUBSET Coordinates /\ Supported(Merged(F, c))
<1>1. PICK h \in Nat, k \in Nat : c = <<h, k>>
  BY DEF Coordinates
<1>2. PICK i \in Nat : k = 2 * i
  <2>1. k = 2 * (k \div 2) /\ k \div 2 \in Nat
    BY <1>1
  <2> QED BY <2>1
<1>3. SiblingOf(c) = <<h, 2 * i + 1>>
  BY <1>1, <1>2 DEF SiblingOf
<1>4. ParentOf(c) = <<h + 1, i>>
  BY <1>1, <1>2 DEF ParentOf
<1>5. ParentOf(c) \in Coordinates
  BY <1>4 DEF Coordinates
<1>6. ChildrenOf(ParentOf(c)) \subseteq F
  BY <1>1, <1>2, <1>3, <1>4, ChildrenBelow
<1> QED BY <1>5, <1>6 DEF Merged, Supported

\* What a truncation leaves: a node goes whenever one of its children goes.
LEMMA CutIsSupported ==
  ASSUME NEW F \in SUBSET Coordinates, Supported(F), NEW n \in Nat
  PROVE  Supported(Cut(F, n))
<1> SUFFICES ASSUME NEW c \in Cut(F, n), c[1] > 0
             PROVE  ChildrenOf(c) \subseteq Cut(F, n)
  BY DEF Supported
<1>1. c \in F /\ PastLeaf(c) <= n /\ ChildrenOf(c) \subseteq F
  BY DEF Cut, Supported
<1>2. PICK h \in Nat, i \in Nat : c = <<h + 1, i>>
  <2>1. PICK k \in Nat, i \in Nat : c = <<k, i>>
    BY <1>1 DEF Coordinates
  <2>2. k - 1 \in Nat /\ (k - 1) + 1 = k
    BY <2>1
  <2> QED BY <2>1, <2>2
<1>3. ChildrenOf(c) = {<<h, 2 * i>>, <<h, 2 * i + 1>>}
  BY <1>2, ChildrenBelow
<1>4. \A k \in Nat : PastLeaf(<<h, k>>) \in Nat
  <2>1. Width[h] \in Nat
    BY WidthDoubles
  <2> QED BY <2>1 DEF PastLeaf
<1>5. PastLeaf(c) \in Nat
  <2>1. Width[h + 1] \in Nat
    BY WidthDoubles
  <2> QED BY <2>1, <1>2 DEF PastLeaf
<1>6. PastLeaf(<<h, 2 * i>>) <= n /\ PastLeaf(<<h, 2 * i + 1>>) <= n
  BY <1>1, <1>2, <1>4, <1>5, ChildrenAreWithin
<1> QED BY <1>1, <1>3, <1>6 DEF Cut

\* Below a node, at every smaller height, stands a node that starts where it does.
LEMMA LeftSpine ==
  ASSUME NEW F \in SUBSET Coordinates, Supported(F),
         NEW h \in Nat, NEW i \in Nat, <<h, i>> \in F
  PROVE  \A k \in 0 .. h : \E a \in Nat :
           <<k, a>> \in F /\ FirstLeaf(<<k, a>>) = FirstLeaf(<<h, i>>)
<1> DEFINE Good(k) == \E a \in Nat : <<k, a>> \in F /\ FirstLeaf(<<k, a>>) = FirstLeaf(<<h, i>>)
           Bad == {m \in 0 .. h : ~Good(h - m)}
<1>1. Good(h)
  OBVIOUS
<1>2. ASSUME NEW k \in Nat, Good(k + 1) PROVE Good(k)
  <2>1. PICK a \in Nat : <<k + 1, a>> \in F /\ FirstLeaf(<<k + 1, a>>) = FirstLeaf(<<h, i>>)
    BY <1>2
  <2>2. ChildrenOf(<<k + 1, a>>) \subseteq F
    BY <2>1 DEF Supported
  <2>3. <<k, 2 * a>> \in F
    BY <2>2, ChildrenBelow
  <2>4. FirstLeaf(<<k, 2 * a>>) = FirstLeaf(<<k + 1, a>>)
    BY ChildrenAreWithin
  <2>5. 2 * a \in Nat
    OBVIOUS
  <2> QED BY <2>1, <2>3, <2>4, <2>5
<1> HIDE DEF Good
<1>3. Bad = {}
  <2> SUFFICES ASSUME Bad # {} PROVE FALSE
    OBVIOUS
  <2>1. PICK m \in Bad : \A y \in Bad : m <= y
    <3>1. Bad \in SUBSET Nat
      OBVIOUS
    <3> QED BY <3>1, LeastNat
  <2>2. m # 0
    <3>1. h - 0 = h
      OBVIOUS
    <3> QED BY <2>1, <1>1, <3>1
  <2>3. m - 1 \in 0 .. h /\ m - 1 < m /\ h - (m - 1) = (h - m) + 1 /\ h - m \in Nat
    BY <2>1, <2>2
  <2>4. Good((h - m) + 1)
    <3>1. m - 1 \notin Bad
      BY <2>1, <2>3
    <3> QED BY <3>1, <2>3
  <2>5. Good(h - m)
    BY <1>2, <2>3, <2>4
  <2> QED BY <2>1, <2>5
<1>4. \A k \in 0 .. h : Good(k)
  <2> TAKE k \in 0 .. h
  <2>1. h - k \in 0 .. h /\ h - (h - k) = k
    OBVIOUS
  <2> QED BY <1>3, <2>1
<1> QED BY <1>4 DEF Good

\* A node that starts where a higher one does is no pair's left node any more.
LEMMA LowerIsSummarised ==
  ASSUME NEW F \in SUBSET Coordinates, Supported(F),
         NEW c \in F, NEW e \in F, c[1] < e[1], FirstLeaf(c) = FirstLeaf(e)
  PROVE  ParentOf(c) \in F
<1>1. PICK h \in Nat, i \in Nat : c = <<h, i>>
  BY DEF Coordinates
<1>2. PICK k \in Nat, m \in Nat : e = <<k, m>>
  BY DEF Coordinates
<1>3. h + 1 \in 0 .. k
  BY <1>1, <1>2
<1>4. PICK a \in Nat : <<h + 1, a>> \in F /\ FirstLeaf(<<h + 1, a>>) = FirstLeaf(e)
  BY <1>2, <1>3, LeftSpine
<1>5. FirstLeaf(<<h, 2 * a>>) = FirstLeaf(<<h, i>>)
  BY <1>1, <1>4, ChildrenAreWithin
<1>6. 2 * a = i
  BY <1>5, SameStart
<1>7. ParentOf(c) = <<h + 1, a>>
  BY <1>1, <1>6 DEF ParentOf
<1> QED BY <1>4, <1>7

\* Two pairs that can be summarised do not start at the same leaf.
LEMMA PairsStartApart ==
  ASSUME NEW F \in SUBSET Coordinates, Supported(F),
         NEW c \in ReadyPairs(F), NEW e \in ReadyPairs(F), FirstLeaf(c) = FirstLeaf(e)
  PROVE  c = e
<1>1. c \in F /\ e \in F /\ ParentOf(c) \notin F /\ ParentOf(e) \notin F
  BY DEF ReadyPairs, Tops
<1>2. ~(c[1] < e[1]) /\ ~(e[1] < c[1])
  BY <1>1, LowerIsSummarised
<1>3. PICK h \in Nat, i \in Nat, k \in Nat, m \in Nat : c = <<h, i>> /\ e = <<k, m>>
  BY <1>1 DEF Coordinates
<1>4. h = k
  BY <1>2, <1>3
<1> QED BY <1>3, <1>4, SameStart

\* A node where the first leaf of a forest counted in leaves is.
LEMMA FirstLeafIsNat ==
  ASSUME NEW c \in Coordinates
  PROVE  FirstLeaf(c) \in Nat /\ (c[1] = 0 => FirstLeaf(c) = c[2])
<1>1. PICK h \in Nat, i \in Nat : c = <<h, i>>
  BY DEF Coordinates
<1>2. Width[h] \in Nat /\ Width[0] = 1
  BY WidthDoubles
<1> QED BY <1>1, <1>2 DEF FirstLeaf

\* What an append and a truncation leave is a finite set of coordinates.
LEMMA GrownIsTyped ==
  ASSUME NEW F \in SUBSET Coordinates, IsFiniteSet(F), NEW k \in Nat
  PROVE  \E L \in SUBSET Coordinates :
           /\ IsFiniteSet(L) /\ \A c \in L : c[1] = 0
           /\ Grown(F, k) = F \cup L
<1> DEFINE n == Cardinality(LeavesOf(F))
           f == [i \in n .. (n + k - 1) |-> Leaf(i)]
           L == {f[i] : i \in n .. (n + k - 1)}
<1>1. n \in Nat
  <2>1. LeavesOf(F) \in SUBSET F
    BY DEF LeavesOf
  <2>2. IsFiniteSet(LeavesOf(F))
    BY <2>1, FS_Subset
  <2> QED BY <2>2, FS_CardinalityType
<1> HIDE DEF n
<1>2. IsFiniteSet(n .. (n + k - 1))
  BY <1>1, FS_Interval
<1>3. IsFiniteSet(L)
  <2> HIDE DEF f
  <2> QED BY <1>2, FiniteImage
<1>4. L = {Leaf(i) : i \in n .. (n + k - 1)}
  OBVIOUS
<1>5. \A i \in n .. (n + k - 1) : Leaf(i) \in Coordinates /\ Leaf(i)[1] = 0
  BY <1>1 DEF Leaf, Coordinates
<1> HIDE DEF L
<1>6. L \in SUBSET Coordinates /\ \A c \in L : c[1] = 0
  BY <1>4, <1>5
<1>7. Grown(F, k) = F \cup L
  BY <1>4 DEF Grown, n
<1> QED BY <1>3, <1>6, <1>7

LEMMA CutIsTyped ==
  ASSUME NEW F \in SUBSET Coordinates, IsFiniteSet(F), NEW n
  PROVE  Cut(F, n) \in SUBSET F /\ IsFiniteSet(Cut(F, n))
<1>1. Cut(F, n) \in SUBSET F
  BY DEF Cut
<1> QED BY <1>1, FS_Subset

LEMMA MergedIsTyped ==
  ASSUME NEW F \in SUBSET Coordinates, IsFiniteSet(F), NEW c \in Coordinates
  PROVE  Merged(F, c) \in SUBSET Coordinates /\ IsFiniteSet(Merged(F, c))
<1>1. ParentOf(c) \in Coordinates
  BY DEF ParentOf, Coordinates
<1> QED BY <1>1, FS_AddElement DEF Merged
=============================================================================
