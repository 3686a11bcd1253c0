-------------------------- MODULE CoordinateForest --------------------------
(***************************************************************************)
(* A document's forest seen as the set of coordinates its nodes occupy.    *)
(* The node at coordinate <<h, i>> is the i-th of height h and stands over *)
(* the 2^h leaves from i * 2^h on: level_index alone decides who pairs     *)
(* with whom and what a truncation takes away.                             *)
(***************************************************************************)
EXTENDS Integers, FiniteSets

Leaf(i) == <<0, i>>
LeavesOf(F) == {c \in F : c[1] = 0}

ParentOf(c) == <<c[1] + 1, c[2] \div 2>>
SiblingOf(c) == <<c[1], IF c[2] % 2 = 0 THEN c[2] + 1 ELSE c[2] - 1>>
ChildrenOf(c) == {<<c[1] - 1, 2 * c[2]>>, <<c[1] - 1, 2 * c[2] + 1>>}

\* 1 << h, the leaves under a node of height h.
Width[h \in Nat] == IF h = 0 THEN 1 ELSE 2 * Width[h - 1]

\* The first leaf under c, and the first one past it.
FirstLeaf(c) == c[2] * Width[c[1]]
PastLeaf(c) == (c[2] + 1) * Width[c[1]]

Tops(F) == {c \in F : ParentOf(c) \notin F}

\* The left nodes of the pairs that can be summarised.
ReadyPairs(F) == {c \in Tops(F) : c[2] % 2 = 0 /\ SiblingOf(c) \in Tops(F)}

Grown(F, k) ==
    LET n == Cardinality(LeavesOf(F)) IN F \cup {Leaf(i) : i \in n .. (n + k - 1)}
Merged(F, c) == F \cup {ParentOf(c)}
Cut(F, n) == {c \in F : PastLeaf(c) <= n}

\* Every summary stands over two nodes that are there.
Supported(F) == \A c \in F : c[1] > 0 => ChildrenOf(c) \subseteq F

\* Nothing is left to summarise.
Finished(F) == ReadyPairs(F) = {}
=============================================================================
